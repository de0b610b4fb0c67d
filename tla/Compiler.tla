------------------------------ MODULE Compiler ------------------------------
(***************************************************************************)
(* compiler.Parallel: work is queued with Add and then compiled by the     *)
(* workers of Run.                                                         *)
(***************************************************************************)
EXTENDS Integers, Sequences

CONSTANTS
  Works,     \* the work there is, as positive numbers
  Workers,   \* Parallelism goroutines of one Run
  Capacity   \* of the work channel

VARIABLES
  pc,         \* the caller: "add", "run" or "returned"
  toAdd,      \* work not offered to Add yet
  work,       \* the channel
  job,        \* per worker: the work it compiles, or 0
  started,    \* the workers whose command runs
  returned,   \* the workers that returned
  cancelled,  \* the errgroup's context
  result,     \* the work that is compiled
  err         \* the errgroup's first error

vars == <<pc, toAdd, work, job, started, returned, cancelled, result, err>>

none == 0

-----------------------------------------------------------------------------
Init ==
  /\ pc = "add" /\ toAdd = Works
  /\ work = <<>>
  /\ job = [w \in Workers |-> none] /\ started = {} /\ returned = {}
  /\ cancelled = FALSE /\ err = FALSE
  /\ result = {}

(* Another compiler takes the place of this one.                           *)
New ==
  /\ pc' = "add" /\ toAdd' = Works
  /\ work' = <<>>
  /\ job' = [w \in Workers |-> none] /\ started' = {} /\ returned' = {}
  /\ cancelled' = FALSE /\ err' = FALSE
  /\ result' = {}

(* Add: a full channel blocks.                                             *)
Add(x) ==
  /\ pc = "add"
  /\ x \in toAdd
  /\ Len(work) < Capacity
  /\ work' = Append(work, x)
  /\ toAdd' = toAdd \ {x}
  /\ UNCHANGED <<pc, job, started, returned, cancelled, result, err>>

Run ==
  /\ pc = "add"
  /\ toAdd = {}
  /\ pc' = "run"
  /\ UNCHANGED <<toAdd, work, job, started, returned, cancelled, result, err>>

idle(w) == pc = "run" /\ w \notin returned /\ job[w] = none

Receive(w) ==
  /\ idle(w)
  /\ work # <<>>
  /\ job' = [job EXCEPT ![w] = Head(work)]
  /\ work' = Tail(work)
  /\ UNCHANGED <<pc, toAdd, started, returned, cancelled, result, err>>

(* The select's default: the worker returns.                               *)
OnEmpty(w) == returned \union {w}

WorkerDone(w) ==
  /\ idle(w)
  /\ work = <<>>
  /\ returned' = OnEmpty(w)
  /\ UNCHANGED <<pc, toAdd, work, job, started, cancelled, result, err>>

(* Compile: cmd.Run starts no command under a cancelled context.           *)
Start(w) ==
  /\ job[w] # none
  /\ w \notin started
  /\ ~cancelled
  /\ started' = started \union {w}
  /\ UNCHANGED <<pc, toAdd, work, job, returned, cancelled, result, err>>

(* The command may succeed although the context was cancelled meanwhile.   *)
Compiled(w) ==
  /\ w \in started
  /\ result' = result \union {job[w]}
  /\ job' = [job EXCEPT ![w] = none]
  /\ started' = started \ {w}
  /\ UNCHANGED <<pc, toAdd, work, returned, cancelled, err>>

(* errgroup keeps the first error.                                         *)
GroupError == TRUE

CompileFails(w) ==
  /\ job[w] # none
  /\ job' = [job EXCEPT ![w] = none]
  /\ started' = started \ {w}
  /\ returned' = returned \union {w}
  /\ cancelled' = TRUE
  /\ err' = GroupError
  /\ UNCHANGED <<pc, toAdd, work, result>>

GroupDone == returned = Workers

(* g.Wait.                                                                 *)
Return ==
  /\ pc = "run"
  /\ GroupDone
  /\ pc' = "returned"
  /\ UNCHANGED <<toAdd, work, job, returned, started, cancelled, result, err>>

(* A step of one of Run's goroutines.                                      *)
Goroutine(w) == Receive(w) \/ WorkerDone(w) \/ Start(w) \/ Compiled(w) \/ CompileFails(w)

Next ==
  \/ Run \/ Return
  \/ \E x \in Works : Add(x)
  \/ \E w \in Workers : Goroutine(w)

-----------------------------------------------------------------------------
=============================================================================
