------------------------------ MODULE Lifecycle ------------------------------
(***************************************************************************)
(* What the system package promises of a process, whatever its components: *)
(* resources are acquired while it starts, it works only while it serves,  *)
(* and when it stops every resource is released, the latest first, with    *)
(* nobody at work any more.                                                *)
(***************************************************************************)
EXTENDS Naturals

VARIABLES
  stage,     \* "starting", "serving", "stopping" or "stopped"
  acquired,  \* how many resources were acquired
  open,      \* the resources not yet released, numbered as acquired
  busy       \* whether any task is at work

lvars == <<stage, acquired, open, busy>>

Init ==
  /\ stage = "starting"
  /\ acquired = 0
  /\ open = {}
  /\ busy = FALSE

Acquire ==
  /\ stage = "starting"
  /\ acquired' \in Nat
  /\ acquired' > acquired
  /\ open' = open \union (acquired + 1 .. acquired')
  /\ UNCHANGED <<stage, busy>>

Serve ==
  /\ stage = "starting"
  /\ stage' = "serving"
  /\ UNCHANGED <<acquired, open, busy>>

Work ==
  /\ stage = "serving"
  /\ busy' \in BOOLEAN
  /\ UNCHANGED <<stage, acquired, open>>

(* Also from "starting": a component could not be loaded.                  *)
Stop ==
  /\ stage \in {"starting", "serving"}
  /\ ~busy
  /\ stage' = "stopping"
  /\ UNCHANGED <<acquired, open, busy>>

Release ==
  /\ stage = "stopping"
  /\ \E r \in open :
       /\ \A s \in open : s <= r
       /\ open' = open \ {r}
  /\ UNCHANGED <<stage, acquired, busy>>

End ==
  /\ stage = "stopping"
  /\ open = {}
  /\ stage' = "stopped"
  /\ UNCHANGED <<acquired, open, busy>>

Next == Acquire \/ Serve \/ Work \/ Stop \/ Release \/ End

Spec == Init /\ [][Next]_lvars
==============================================================================
