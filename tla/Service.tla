------------------------------- MODULE Service -------------------------------
(***************************************************************************)
(* A service whose goroutines publish: the lifecycle of System composed    *)
(* with the publisher pool that rabbit.Load registers with it. The pool's  *)
(* Close and its dialer's are the cleanups "pool" and "dialer"; callers    *)
(* are goroutines of a task (requests of an HTTP server, work of a         *)
(* service), which may outlive an HTTP server that ran out of its grace    *)
(* period.                                                                 *)
(***************************************************************************)
EXTENDS System, PublisherPool

CONSTANT Host   \* [Callers -> the task whose goroutine the caller is]

ASSUME HostAssumption == Host \in [Callers -> 1 .. N]

VARIABLE dialer \* "none", "open" or "closed"

svars == <<vars, pvars, dialer>>

SInit == Init /\ PInit /\ dialer = "none"

CallersOf(t) == {c \in Callers : Host[c] = t}

Drained(t) == \A c \in CallersOf(t) : pc[c] = "idle"

Late == {c \in Callers : pc[c] # "idle" /\ task[Host[c]] \in {"nil", "err"}}

-----------------------------------------------------------------------------
(* rabbit.Load makes the dialer.                                           *)
SLoad ==
  /\ Load
  /\ dialer' = IF Plan[loaded + 1] = "rabbit" THEN "open" ELSE dialer
  /\ UNCHANGED pvars

(* The steps of main and of Run that no publisher notices.                 *)
Unrelated ==
  /\ \/ LoadFails \/ RunBegin \/ Go \/ Wait \/ CallerCancel
     \/ SignalArrives \/ HandleSignal \/ HandleDelayOver \/ HandleDone
     \/ ReporterReturns \/ Exit
  /\ UNCHANGED <<pvars, dialer>>

(* A service that drains its work returns when no caller is left. An HTTP  *)
(* server shuts down when the group's context is cancelled or its listener *)
(* fails, which may be at any time. Either way it waits for its requests   *)
(* no longer than its grace period, and then returns an error.             *)
TaskReturns(t) ==
  /\ Drained(t) \/ Plan[t] = "httpserver"
  /\ ServiceReturns(t)
  /\ ~Drained(t) => task'[t] = "err"
  /\ UNCHANGED <<pvars, dialer>>

(* New work is taken on only until the context is cancelled.               *)
Begin(c) ==
  /\ task[Host[c]] = "running"
  /\ ~ctxDone
  /\ Arrive(c)
  /\ UNCHANGED <<vars, dialer>>

(* The context of a service's goroutine is the group's; a request has one  *)
(* of its own, that ends when the client goes away.                        *)
CallerCtxDone(c) ==
  /\ phase # "exit"
  /\ Plan[Host[c]] = "httpserver" \/ ctxDone
  /\ CtxDone(c)
  /\ UNCHANGED <<vars, dialer>>

CallerSteps(c) ==
  /\ phase # "exit"
  /\ CallerStep(c) \/ PublishReturns(c)
  /\ UNCHANGED <<vars, dialer>>

-----------------------------------------------------------------------------
(* Cleanup. Closing the pool is two steps, of which the second completes   *)
(* the cleanup; neither close can fail.                                    *)

Cleaning(resource) ==
  /\ phase = "cleanup"
  /\ at \in LoopIndexes
  /\ cleanups[CleanupAt] = resource

CleanupClient ==
  /\ Cleaning("client")
  /\ CleanupNext
  /\ UNCHANGED <<pvars, dialer>>

CleanupPoolBegins ==
  /\ Cleaning("pool")
  /\ CloseBegins
  /\ UNCHANGED <<vars, dialer>>

CleanupPoolEnds ==
  /\ Cleaning("pool")
  /\ CloseEnds
  /\ CleanupNext /\ failed' = failed
  /\ UNCHANGED dialer

CleanupDialer ==
  /\ Cleaning("dialer")
  /\ dialer' = "closed"
  /\ CleanupNext /\ failed' = failed
  /\ UNCHANGED pvars

MainSteps ==
  \/ SLoad \/ Unrelated
  \/ CleanupClient \/ CleanupPoolBegins \/ CleanupPoolEnds \/ CleanupDialer

SExited == phase = "exit" /\ UNCHANGED svars

SNext ==
  \/ MainSteps
  \/ \E t \in 1 .. N : TaskReturns(t)
  \/ \E c \in Callers : Begin(c) \/ CallerCtxDone(c) \/ CallerSteps(c)
  \/ SExited

(* As in System and PublisherPool: main, Run's own tasks and the callers   *)
(* make progress, and the cancellation of the group reaches the services   *)
(* and the contexts derived from it.                                       *)
SFairness ==
  /\ WF_svars(Unrelated /\ (HandleSignal \/ HandleDelayOver \/ HandleDone))
  /\ WF_svars(Unrelated /\ ReporterReturns)
  /\ WF_svars(SLoad \/ CleanupClient \/ CleanupPoolBegins \/ CleanupPoolEnds \/ CleanupDialer
              \/ (Unrelated /\ (LoadFails \/ RunBegin \/ Go \/ Wait \/ Exit)))
  /\ \A t \in 1 .. N : WF_svars(ctxDone /\ TaskReturns(t))
  /\ \A c \in Callers :
       /\ WF_svars(CallerSteps(c) /\ CallerStep(c))
       /\ WF_svars(CallerSteps(c) /\ PublishCtxDone(c) /\ PublishReturns(c))
       /\ WF_svars(CallerCtxDone(c) /\ ctxDone)

SSpec == SInit /\ [][SNext]_svars /\ SFairness

-----------------------------------------------------------------------------
(* A publisher is used by one caller at a time, and is neither closed nor  *)
(* offered to another one while it is: also when Close runs, or when the   *)
(* pool is full and callers wait for each other's publishers.              *)
OneUserPerPublisher ==
  \A c \in Callers : pc[c] = "publish" =>
    /\ held[c] \in open \ idle
    /\ \A d \in Callers \ {c} : pc[d] # "idle" => held[d] # held[c]

(* The pool is closed before its dialer and leaves no publisher behind:    *)
(* once the dialer is closed, the only publishers still open are in the    *)
(* hands of requests that outlived the HTTP server's grace period.         *)
DialerOutlivesPublishers ==
  dialer = "closed" => open \subseteq {held[c] : c \in Late}

(* A publish whose context is done comes back, whether it waits for a      *)
(* publisher or for the broker's confirmation, which may never come.       *)
CancelEndsPublish ==
  \A c \in Callers : c \in gone ~> (pc[c] = "idle" \/ phase = "exit")
==============================================================================
