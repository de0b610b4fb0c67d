------------------------------- MODULE System -------------------------------
(***************************************************************************)
(* The lifecycle of a service built on the system package: main loads its  *)
(* components (each Load registers services, cleanups, health checks and   *)
(* metrics with the System), calls Run, which starts one goroutine per     *)
(* task in an errgroup, and finally calls Cleanup (deferred in main, as in *)
(* system/example_test.go).                                                *)
(*                                                                         *)
(* Task 0 is termination.Handle, task t \in 1..N the service registered by *)
(* the t-th Load, task N + 1 the metrics reporter.                         *)
(***************************************************************************)
EXTENDS Naturals, Sequences

CONSTANT Plan    \* the kinds of component main loads, in order

Kinds == {"httpserver", "service", "db", "redis", "mongo", "rabbit"}

ASSUME PlanAssumption == Plan \in Seq(Kinds)

N == Len(Plan)
Handler  == 0
Reporter == N + 1
Tasks    == 0 .. N + 1

VARIABLES
  phase,      \* where main is: "load", "run", "wait", "cleanup" or "exit"
  loaded,     \* how many components of Plan have been loaded
  services,   \* System.services: the tasks added with AddService
  cleanups,   \* System.cleanups: the resources added with AddCleanup
  metrics,    \* whether any metrics or gauge producer was added
  todo,       \* tasks that Run has still to start, in order
  task,       \* the state of each task's goroutine
  parent,     \* whether the context main passed to Run is cancelled
  cancelled,  \* whether the errgroup has cancelled its own context
  signal,     \* whether a signal is buffered in Handle's quit channel
  gerr,       \* the task whose error the errgroup kept, or NoTask
  result,     \* what Run returned: "none", "nil" or "error"
  at,         \* Cleanup's loop index, counted from 1
  closed,     \* positions of cleanups already called
  failed,     \* positions of cleanups that returned an error
  errs        \* history: the tasks that returned an error, in order

vars == <<phase, loaded, services, cleanups, metrics, todo, task, parent,
          cancelled, signal, gerr, result, at, closed, failed, errs>>

loadVars == <<loaded, services, cleanups, metrics>>
endVars  == <<result, at, closed, failed>>

NoTask == N + 2

ctxDone == parent \/ cancelled

Live == {t \in Tasks : task[t] \in {"running", "sleeping"}}

-----------------------------------------------------------------------------
(* What each Load registers.                                               *)

HasService(k) == k \in {"httpserver", "service"}

HasMetrics(k) == k # "service"

CleanupsOf(k) ==
  CASE k = "rabbit"                    -> <<"dialer", "pool">>
    [] k \in {"db", "redis", "mongo"}  -> <<"client">>
    [] OTHER                           -> <<>>

CanFail(k) == k \notin {"redis", "service"}

Init ==
  /\ phase = "load"
  /\ loaded = 0
  /\ services = <<>>
  /\ cleanups = <<>>
  /\ metrics = FALSE
  /\ todo = <<>>
  /\ task = [t \in Tasks |-> "idle"]
  /\ parent = FALSE
  /\ cancelled = FALSE
  /\ signal = FALSE
  /\ gerr = NoTask
  /\ result = "none"
  /\ at = 0
  /\ closed = {}
  /\ failed = {}
  /\ errs = <<>>

(* The next Load succeeds and registers its parts.                         *)
Load ==
  /\ phase = "load"
  /\ loaded < N
  /\ LET k == Plan[loaded + 1] IN
       /\ services' = IF HasService(k) THEN Append(services, loaded + 1) ELSE services
       /\ cleanups' = cleanups \o CleanupsOf(k)
       /\ metrics' = (metrics \/ HasMetrics(k))
  /\ loaded' = loaded + 1
  /\ UNCHANGED <<phase, todo, task, parent, cancelled, signal, gerr, errs, endVars>>

(* The next Load fails: main returns its error, and the deferred Cleanup   *)
(* runs for what was registered before.                                    *)
LoadFails ==
  /\ phase = "load"
  /\ loaded < N
  /\ CanFail(Plan[loaded + 1])
  /\ phase' = "cleanup"
  /\ at' = Len(cleanups)
  /\ UNCHANGED <<loadVars, todo, task, parent, cancelled, signal, gerr, errs, result, closed, failed>>

-----------------------------------------------------------------------------
(* Run: create the group, start the tasks one by one, wait for them all.   *)

RunBegin ==
  /\ phase = "load"
  /\ loaded = N
  /\ phase' = "run"
  /\ todo' = <<Handler>> \o services \o (IF metrics THEN <<Reporter>> ELSE <<>>)
  /\ UNCHANGED <<loadVars, task, parent, cancelled, signal, gerr, errs, endVars>>

AfterGo == Tail(todo)

(* g.Go: the task starts, whether or not the context is already cancelled. *)
Go ==
  /\ phase = "run"
  /\ todo # <<>>
  /\ task' = [task EXCEPT ![Head(todo)] = "running"]
  /\ todo' = AfterGo
  /\ phase' = IF AfterGo = <<>> THEN "wait" ELSE "run"
  /\ UNCHANGED <<loadVars, parent, cancelled, signal, gerr, errs, endVars>>

(* Mutant: Run does not join its tasks.                                    *)
AllReturned_NotJoined == ctxDone

AllReturned == Live = {}

(* g.Wait: cancels the group context and returns the error kept, if any.   *)
Wait ==
  /\ phase = "wait"
  /\ AllReturned
  /\ cancelled' = TRUE
  /\ result' = IF gerr = NoTask THEN "nil" ELSE "error"
  /\ phase' = "cleanup"
  /\ at' = Len(cleanups)
  /\ UNCHANGED <<loadVars, todo, task, parent, signal, gerr, errs, closed, failed>>

(* A task's function returns without an error.                             *)
ReturnNil(t) ==
  /\ task' = [task EXCEPT ![t] = "nil"]
  /\ UNCHANGED <<cancelled, gerr, errs>>

(* Mutant: a later error replaces the first one.                           *)
KeepErr_Last(t) == t

(* errOnce: only the first error is kept.                                  *)
KeepErr(t) == IF gerr = NoTask THEN t ELSE gerr

(* Mutant: a group without a context, nobody is told to stop.              *)
ReturnErr_NoCancel(t) ==
  /\ task' = [task EXCEPT ![t] = "err"]
  /\ errs' = Append(errs, t)
  /\ gerr' = KeepErr(t)
  /\ UNCHANGED cancelled

(* A task's function returns an error: the errgroup keeps the first one    *)
(* and cancels the group's context.                                        *)
ReturnErr(t) ==
  /\ task' = [task EXCEPT ![t] = "err"]
  /\ errs' = Append(errs, t)
  /\ gerr' = KeepErr(t)
  /\ cancelled' = TRUE

(* main's own context is cancelled by the caller, at any time.             *)
CallerCancel ==
  /\ phase \in {"load", "run", "wait"}
  /\ ~parent
  /\ parent' = TRUE
  /\ UNCHANGED <<phase, loadVars, todo, task, cancelled, signal, gerr, errs, endVars>>

-----------------------------------------------------------------------------
(* termination.Handle: the select over quit and ctx.Done(), and the sleep. *)

SignalArrives ==
  /\ task[Handler] \in {"running", "sleeping"}
  /\ ~signal
  /\ signal' = TRUE
  /\ UNCHANGED <<phase, loadVars, todo, task, parent, cancelled, gerr, errs, endVars>>

HandleSignal ==
  /\ task[Handler] = "running"
  /\ signal
  /\ signal' = FALSE
  /\ task' = [task EXCEPT ![Handler] = "sleeping"]
  /\ UNCHANGED <<phase, loadVars, todo, parent, cancelled, gerr, errs, endVars>>

(* time.Sleep(delay) ends: it does not watch the context.                  *)
HandleDelayOver ==
  /\ task[Handler] = "sleeping"
  /\ ReturnErr(Handler)
  /\ UNCHANGED <<phase, loadVars, todo, parent, signal, endVars>>

HandleDone ==
  /\ task[Handler] = "running"
  /\ ctxDone
  /\ ReturnNil(Handler)
  /\ UNCHANGED <<phase, loadVars, todo, parent, signal, endVars>>

-----------------------------------------------------------------------------
(* A service may return at any time, with or without an error; it is asked *)
(* to return once its context is cancelled.                                *)
ServiceReturns(t) ==
  /\ task[t] = "running"
  /\ ReturnNil(t) \/ ReturnErr(t)
  /\ UNCHANGED <<phase, loadVars, todo, parent, signal, endVars>>

(* metricsReporter: worker.Run comes back only when the context is done,   *)
(* and its result is nil.                                                  *)
ReporterReturns ==
  /\ task[Reporter] = "running"
  /\ ctxDone
  /\ ReturnNil(Reporter)
  /\ UNCHANGED <<phase, loadVars, todo, parent, signal, endVars>>

-----------------------------------------------------------------------------
LoopIndexes == 1 .. Len(cleanups)

CleanupAt == at

(* Mutant: the first error ends the loop.                                  *)
AfterCleanup_StopsOnError(err) == IF err THEN 0 ELSE at - 1

AfterCleanup(err) == at - 1

(* Cleanup: a loop from the last function added down to the first; an      *)
(* error is only logged, the loop goes on.                                 *)
CleanupNext ==
  /\ phase = "cleanup"
  /\ at \in LoopIndexes
  /\ \E err \in BOOLEAN :
       /\ closed' = closed \union {CleanupAt}
       /\ failed' = IF err THEN failed \union {CleanupAt} ELSE failed
       /\ at' = AfterCleanup(err)
  /\ UNCHANGED <<phase, loadVars, todo, task, parent, cancelled, signal, gerr, errs, result>>

Exit ==
  /\ phase = "cleanup"
  /\ at \notin LoopIndexes
  /\ phase' = "exit"
  /\ UNCHANGED <<loadVars, todo, task, parent, cancelled, signal, gerr, errs, endVars>>

(* The process has ended.                                                  *)
Exited == phase = "exit" /\ UNCHANGED vars

Next ==
  \/ Load \/ LoadFails
  \/ RunBegin \/ Go \/ Wait
  \/ CallerCancel
  \/ SignalArrives \/ HandleSignal \/ HandleDelayOver \/ HandleDone
  \/ \E t \in 1 .. N : ServiceReturns(t)
  \/ ReporterReturns
  \/ CleanupNext \/ Exit \/ Exited

(* main and Run make progress; Handle's sleep ends; the reporter stops;    *)
(* and a service that sees its context cancelled eventually returns, as    *)
(* AddService asks of it. Signals, and the caller's cancellation, may      *)
(* never come, and a service may run for ever while its context is live.   *)
Fairness ==
  /\ WF_vars(Load \/ LoadFails \/ RunBegin \/ Go \/ Wait \/ CleanupNext \/ Exit)
  /\ WF_vars(HandleSignal \/ HandleDelayOver \/ HandleDone)
  /\ \A t \in 1 .. N : WF_vars(ctxDone /\ ServiceReturns(t))
  /\ WF_vars(ReporterReturns)

Spec == Init /\ [][Next]_vars

FairSpec == Spec /\ Fairness

-----------------------------------------------------------------------------
TaskStates == {"idle", "running", "sleeping", "nil", "err"}

(* Type invariant: in particular Cleanup calls only functions that Load    *)
(* has registered.                                                         *)
TypeOK ==
  /\ phase \in {"load", "run", "wait", "cleanup", "exit"}
  /\ loaded \in 0 .. N
  /\ services \in Seq(1 .. N)
  /\ cleanups \in Seq({"dialer", "pool", "client"})
  /\ metrics \in BOOLEAN
  /\ todo \in Seq(Tasks)
  /\ task \in [Tasks -> TaskStates]
  /\ parent \in BOOLEAN /\ cancelled \in BOOLEAN /\ signal \in BOOLEAN
  /\ gerr \in Tasks \union {NoTask}
  /\ result \in {"none", "nil", "error"}
  /\ at \in Nat
  /\ closed \subseteq DOMAIN cleanups
  /\ failed \subseteq closed
  /\ errs \in Seq(Tasks)

(* Run "will only return when all it's services have finished", and the    *)
(* cleanups run after it: no resource is closed while a service that may   *)
(* still be draining in-flight work with it, or the reporter that reads    *)
(* its gauges, is alive.                                                   *)
NoUseAfterClose == closed # {} => Live = {}

(* Cleanup goes through the functions in reverse order of registration: a  *)
(* resource is closed only after everything loaded later, which may be     *)
(* built on it (a publisher pool on its dialer), has been closed.          *)
DependentsClosedFirst ==
  \A j \in closed : \A k \in DOMAIN cleanups : k > j => k \in closed

(* When the process ends every registered cleanup has been called, also    *)
(* those of a start-up that failed half way, and also when some of them    *)
(* returned an error.                                                      *)
AllClosedAtExit == phase = "exit" => closed = DOMAIN cleanups

(* "The error returned will be the first error returned from any of the    *)
(* services": Run fails iff some task failed, with the earliest error.     *)
FirstErrorWins ==
  /\ gerr = (IF errs = <<>> THEN NoTask ELSE Head(errs))
  /\ result # "none" => (result = "error" <=> errs # <<>>)

(* Run never returns nil of its own accord: services that all finish       *)
(* without an error leave it waiting for a signal, so a nil result means   *)
(* that the caller cancelled the context.                                  *)
NilOnlyIfCancelled == result = "nil" => parent

(* "Once the system Run is called each service function will be invoked":  *)
(* when Run returns, every service was started, also those that come after *)
(* one that failed at once and cancelled the group.                        *)
EveryServiceInvoked ==
  result # "none" => \A i \in DOMAIN services : task[services[i]] \in {"nil", "err"}

(* A failed task, a cancelled context or a handled signal ends the         *)
(* process: every other task is stopped and every cleanup is called.       *)
ShutdownCompletes ==
  (phase \in {"run", "wait"} /\ (ctxDone \/ signal)) ~> phase = "exit"

-----------------------------------------------------------------------------
Stage ==
  IF phase = "load" THEN "starting"
  ELSE IF phase = "cleanup" THEN "stopping"
  ELSE IF phase = "exit" THEN "stopped" ELSE "serving"

L == INSTANCE Lifecycle WITH
       stage    <- Stage,
       acquired <- Len(cleanups),
       open     <- DOMAIN cleanups \ closed,
       busy     <- Live # {}

(* The System, with its errgroup, its signal handler and its cleanup loop, *)
(* implements the lifecycle: in particular the process ends with every     *)
(* registered cleanup called, also those of a start-up that failed half    *)
(* way, and also when some of them returned an error.                      *)
ImplementsLifecycle == L!Spec
=============================================================================
