---------------------------- MODULE ServiceProofs ----------------------------
(***************************************************************************)
(* Proofs about System, for every Plan: type correctness, the safety       *)
(* invariants of the lifecycle, and that it implements Lifecycle.          *)
(*                                                                         *)
(* And about Service, the System with a publisher pool: it is a System, so *)
(* that all of this holds of it, and for any number of callers and         *)
(* publishers a publisher has one user, who finds it open, and the pool    *)
(* is gone before its dialer.                                              *)
(***************************************************************************)
EXTENDS Service, SequenceTheorems, FiniteSetTheorems, TLAPS

(* Before Cleanup nothing is closed; in Cleanup's loop the closed          *)
(* positions are exactly those above the loop index.                       *)
CleanupInv ==
  /\ phase \in {"load", "run", "wait"} => closed = {} /\ result = "none"
  /\ phase = "cleanup" => at \in 0 .. Len(cleanups) /\ closed = (at + 1) .. Len(cleanups)
  /\ phase = "exit" => closed = 1 .. Len(cleanups)

(* No task is alive before Run starts it or after Wait has joined it.      *)
JoinInv ==
  /\ phase \in {"cleanup", "exit"} => Live = {}
  /\ phase = "load" => /\ \A t \in Tasks : task[t] = "idle"
                       /\ errs = <<>> /\ ~cancelled

(* While Run starts tasks, the idle ones it must start are still in todo,  *)
(* with Handle first.                                                      *)
StartInv ==
  /\ phase = "run" =>
       /\ todo # <<>>
       /\ task[Handler] = "idle" => Head(todo) = Handler
       /\ \A i \in DOMAIN services :
            task[services[i]] = "idle" => \E k \in DOMAIN todo : todo[k] = services[i]
  /\ phase = "wait" \/ result # "none" =>
       /\ task[Handler] # "idle"
       /\ \A i \in DOMAIN services : task[services[i]] # "idle"

(* The group's error is the head of the history; without one the group's   *)
(* context is cancelled only by Wait, and Handle has seen the caller's.    *)
ErrInv ==
  /\ gerr = (IF errs = <<>> THEN NoTask ELSE Head(errs))
  /\ result # "none" => (result = "error" <=> errs # <<>>)
  /\ cancelled /\ phase \in {"run", "wait"} => gerr # NoTask
  /\ task[Handler] = "err" => gerr # NoTask
  /\ task[Handler] = "nil" => parent \/ gerr # NoTask

IInv == TypeOK /\ CleanupInv /\ JoinInv /\ StartInv /\ ErrInv

-----------------------------------------------------------------------------
(* The number of components is a natural number.                           *)
LEMMA NNat == N \in Nat
  BY PlanAssumption DEF N

(* Handle, the reporter and the services are tasks.                        *)
LEMMA HandlerIsTask == Handler \in Tasks /\ Reporter \in Tasks /\ 1 .. N \subseteq Tasks
  BY NNat DEF Tasks, Handler, Reporter

(* No task bears the mark of "no error kept".                              *)
LEMMA NoTaskIsNone == NoTask \notin Tasks
  BY NNat DEF NoTask, Tasks

(* The first element of a non-empty history is a task.                     *)
LEMMA HeadNotNoTask == \A e \in Seq(Tasks) : e # <<>> => Head(e) # NoTask
  BY NoTaskIsNone, HeadTailProperties

(* What a Load adds to the cleanups is a sequence of resources.            *)
LEMMA CleanupsOfType == \A k : CleanupsOf(k) \in Seq({"dialer", "pool", "client"})
<1> SUFFICES ASSUME NEW k PROVE CleanupsOf(k) \in Seq({"dialer", "pool", "client"})
  OBVIOUS
<1>1. CASE k = "rabbit"
  <2>1. CleanupsOf(k) = <<"dialer", "pool">>
    BY <1>1 DEF CleanupsOf
  <2> QED
    BY <2>1
<1>2. CASE k # "rabbit" /\ k \in {"db", "redis", "mongo"}
  <2>1. CleanupsOf(k) = <<"client">>
    BY <1>2 DEF CleanupsOf
  <2> QED
    BY <2>1
<1>3. CASE k # "rabbit" /\ k \notin {"db", "redis", "mongo"}
  <2>1. CleanupsOf(k) = <<>>
    BY <1>3 DEF CleanupsOf
  <2> QED
    BY <2>1
<1> QED
  BY <1>1, <1>2, <1>3

(* The tasks Run starts: Handle, the services and perhaps the reporter.    *)
LEMMA TodoType ==
  ASSUME services \in Seq(1 .. N)
  PROVE  <<Handler>> \o services \o (IF metrics THEN <<Reporter>> ELSE <<>>) \in Seq(Tasks)
<1>1. 1 .. N \subseteq Tasks /\ Handler \in Tasks /\ Reporter \in Tasks
  BY NNat DEF Tasks, Handler, Reporter
<1>2. services \in Seq(Tasks)
  BY <1>1, SeqMonotonic
<1>3. <<Handler>> \in Seq(Tasks) /\ (IF metrics THEN <<Reporter>> ELSE <<>>) \in Seq(Tasks)
  BY <1>1
<1> QED
  BY <1>2, <1>3, ConcatProperties

(* Every variable keeps its type along every step of main, Run, Handle,    *)
(* the services and Cleanup.                                               *)
LEMMA TypeStep == TypeOK /\ [Next]_vars => TypeOK'
<1> SUFFICES ASSUME TypeOK, [Next]_vars PROVE TypeOK'
  OBVIOUS
<1> USE NNat DEF TypeOK, Tasks, Handler, Reporter, NoTask, TaskStates, loadVars, endVars
<1>1. CASE Load
  <2>1. CleanupsOf(Plan[loaded + 1]) \in Seq({"dialer", "pool", "client"})
    BY CleanupsOfType
  <2>2. cleanups' \in Seq({"dialer", "pool", "client"}) /\ DOMAIN cleanups \subseteq DOMAIN cleanups'
    BY <1>1, <2>1 DEF Load
  <2>3. loaded + 1 \in 1 .. N /\ Append(services, loaded + 1) \in Seq(1 .. N)
    BY <1>1, AppendProperties DEF Load
  <2>4. services' \in Seq(1 .. N) /\ loaded' \in 0 .. N
    <3>1. services' = services \/ services' = Append(services, loaded + 1)
      BY <1>1 DEF Load, HasService
    <3>2. loaded' = loaded + 1
      BY <1>1 DEF Load
    <3>3. loaded' \in 0 .. N
      BY <2>3, <3>2
    <3>4. services' \in Seq(1 .. N)
      BY <2>3, <3>1
    <3> QED
      BY <3>3, <3>4
  <2>5. metrics' \in BOOLEAN
    BY <1>1 DEF Load, HasMetrics
  <2> QED
    BY <1>1, <2>2, <2>4, <2>5 DEF Load
<1>2. CASE LoadFails
  BY <1>2 DEF LoadFails
<1>3. CASE RunBegin
  <2>1. todo' \in Seq(Tasks)
    BY <1>3, TodoType DEF RunBegin
  <2> QED
    BY <1>3, <2>1 DEF RunBegin
<1>4. CASE Go
  <2>1. Head(todo) \in Tasks /\ Tail(todo) \in Seq(Tasks)
    BY <1>4, HeadTailProperties DEF Go
  <2> QED
    BY <1>4, <2>1 DEF Go, AfterGo
<1>5. CASE Wait
  BY <1>5 DEF Wait
<1>6. CASE CallerCancel
  BY <1>6 DEF CallerCancel
<1>7. CASE SignalArrives
  BY <1>7 DEF SignalArrives
<1>8. CASE HandleSignal
  BY <1>8 DEF HandleSignal
<1>9. CASE HandleDelayOver
  BY <1>9 DEF HandleDelayOver, ReturnErr, KeepErr
<1>10. CASE HandleDone
  BY <1>10 DEF HandleDone, ReturnNil
<1>11. ASSUME NEW t \in 1 .. N, ServiceReturns(t) PROVE TypeOK'
  <2>1. t \in Tasks /\ Append(errs, t) \in Seq(Tasks)
    BY AppendProperties
  <2>2. CASE ReturnNil(t)
    BY <1>11, <2>1, <2>2 DEF ServiceReturns, ReturnNil
  <2>3. CASE ReturnErr(t)
    BY <1>11, <2>1, <2>3 DEF ServiceReturns, ReturnErr, KeepErr
  <2> QED
    BY <1>11, <2>2, <2>3 DEF ServiceReturns
<1>12. CASE ReporterReturns
  BY <1>12 DEF ReporterReturns, ReturnNil
<1>13. CASE CleanupNext
  BY <1>13 DEF CleanupNext, LoopIndexes, CleanupAt, AfterCleanup
<1>14. CASE Exit \/ Exited \/ UNCHANGED vars
  BY <1>14 DEF Exit, Exited, vars
<1> QED
  BY <1>1, <1>2, <1>3, <1>4, <1>5, <1>6, <1>7, <1>8, <1>9, <1>10, <1>11, <1>12, <1>13, <1>14 DEF Next

(* Cleanup's loop has closed exactly the positions above its index.        *)
LEMMA CleanupStep == TypeOK /\ CleanupInv /\ JoinInv /\ [Next]_vars => CleanupInv'
<1> SUFFICES ASSUME TypeOK, CleanupInv, JoinInv, [Next]_vars PROVE CleanupInv'
  OBVIOUS
<1> USE DEF CleanupInv, loadVars, endVars
<1>0. Len(cleanups) \in Nat
  BY LenProperties DEF TypeOK
<1>1. CASE Load \/ RunBegin \/ Go \/ CallerCancel
  BY <1>1 DEF Load, RunBegin, Go, AfterGo, CallerCancel
<1>2. CASE LoadFails \/ Wait
  <2>1. (Len(cleanups) + 1) .. Len(cleanups) = {}
    BY <1>0
  <2>2. at' = Len(cleanups) /\ closed' = {} /\ phase' = "cleanup" /\ cleanups' = cleanups
    BY <1>2 DEF LoadFails, Wait
  <2> QED
    BY <1>0, <2>1, <2>2
<1>3. CASE SignalArrives \/ HandleSignal \/ HandleDelayOver \/ HandleDone \/ ReporterReturns
  BY <1>3 DEF SignalArrives, HandleSignal, HandleDelayOver, HandleDone, ReporterReturns
<1>4. CASE \E t \in 1 .. N : ServiceReturns(t)
  BY <1>4 DEF ServiceReturns
<1>5. CASE CleanupNext
  <2>1. at \in 1 .. Len(cleanups) /\ at' = at - 1 /\ closed' = closed \union {at}
    BY <1>5 DEF CleanupNext, LoopIndexes, CleanupAt, AfterCleanup
  <2>2. ((at + 1) .. Len(cleanups)) \union {at} = at .. Len(cleanups)
    BY <1>0, <2>1
  <2>3. phase = "cleanup" /\ phase' = phase /\ cleanups' = cleanups
    BY <1>5 DEF CleanupNext
  <2> QED
    BY <1>0, <2>1, <2>2, <2>3
<1>6. CASE Exit
  BY <1>0, <1>6 DEF Exit, LoopIndexes
<1>7. CASE Exited \/ UNCHANGED vars
  BY <1>7 DEF Exited, vars
<1> QED
  BY <1>1, <1>2, <1>3, <1>4, <1>5, <1>6, <1>7 DEF Next

(* No task is started before Run or outlives Wait.                         *)
LEMMA JoinStep == TypeOK /\ JoinInv /\ [Next]_vars => JoinInv'
<1> SUFFICES ASSUME TypeOK, JoinInv, [Next]_vars PROVE JoinInv'
  OBVIOUS
<1> USE NNat DEF JoinInv, loadVars, endVars, Live
<1>1. CASE Load \/ RunBegin \/ CallerCancel
  BY <1>1 DEF Load, RunBegin, CallerCancel
<1>2. CASE LoadFails
  BY <1>2 DEF LoadFails
<1>3. CASE Go
  BY <1>3 DEF Go, AfterGo
<1>4. CASE Wait
  BY <1>4 DEF Wait, AllReturned
<1>5. CASE SignalArrives
  BY <1>5 DEF SignalArrives
<1>6. CASE HandleSignal \/ HandleDelayOver \/ HandleDone
  <2>1. phase \notin {"load", "cleanup", "exit"}
    BY <1>6, HandlerIsTask DEF HandleSignal, HandleDelayOver, HandleDone
  <2> QED
    BY <1>6, <2>1 DEF HandleSignal, HandleDelayOver, HandleDone
<1>7. CASE ReporterReturns
  <2>1. phase \notin {"load", "cleanup", "exit"}
    BY <1>7, HandlerIsTask DEF ReporterReturns
  <2> QED
    BY <1>7, <2>1 DEF ReporterReturns
<1>8. ASSUME NEW t \in 1 .. N, ServiceReturns(t) PROVE JoinInv'
  <2>1. phase \notin {"load", "cleanup", "exit"}
    BY <1>8, HandlerIsTask DEF ServiceReturns
  <2> QED
    BY <1>8, <2>1 DEF ServiceReturns
<1>9. CASE CleanupNext \/ Exit \/ Exited \/ UNCHANGED vars
  BY <1>9 DEF CleanupNext, Exit, Exited, vars
<1> QED
  BY <1>1, <1>2, <1>3, <1>4, <1>5, <1>6, <1>7, <1>8, <1>9 DEF Next

(* Every task Run has to start is started before it waits.                 *)
LEMMA StartStep == TypeOK /\ CleanupInv /\ JoinInv /\ StartInv /\ [Next]_vars => StartInv'
<1> SUFFICES ASSUME TypeOK, CleanupInv, JoinInv, StartInv, [Next]_vars PROVE StartInv'
  OBVIOUS
<1> USE DEF loadVars, endVars
<1>0. /\ services \in Seq(Tasks)
      /\ DOMAIN services = 1 .. Len(services) /\ Len(services) \in Nat
      /\ \A i \in DOMAIN services : services[i] \in Tasks
  <2>1. services \in Seq(Tasks)
    BY HandlerIsTask, SeqMonotonic DEF TypeOK
  <2> QED
    BY <2>1, ElementOfSeq, LenProperties
<1>1. CASE Load \/ LoadFails
  BY <1>1 DEF Load, LoadFails, StartInv, CleanupInv
<1>2. CASE RunBegin
  <2> DEFINE rest == IF metrics THEN <<Reporter>> ELSE <<>>
  <2>1. todo' = <<Handler>> \o services \o rest /\ services' = services /\ phase' = "run"
    BY <1>2 DEF RunBegin
  <2>2. <<Handler>> \in Seq(Tasks) /\ services \in Seq(Tasks) /\ rest \in Seq(Tasks)
    BY <1>0, HandlerIsTask
  <2> HIDE DEF rest
  <2>3. /\ <<Handler>> \o services \in Seq(Tasks)
        /\ Len(<<Handler>> \o services) = 1 + Len(services)
        /\ (<<Handler>> \o services)[1] = Handler
        /\ \A i \in 1 .. Len(services) : (<<Handler>> \o services)[i + 1] = services[i]
    BY <2>2, ConcatProperties
  <2>4. /\ Len(todo') = 1 + Len(services) + Len(rest)
        /\ todo' \in Seq(Tasks)
        /\ todo'[1] = Handler
        /\ \A i \in 1 .. Len(services) : todo'[i + 1] = services[i]
    BY <2>1, <2>2, <2>3, ConcatProperties
  <2>5. Len(todo') >= 1 /\ todo' # <<>> /\ Head(todo') = Handler
    BY <2>2, <2>4
  <2>6. ASSUME NEW i \in DOMAIN services
        PROVE  \E k \in DOMAIN todo' : todo'[k] = services[i]
    <3>1. Len(rest) \in Nat /\ DOMAIN todo' = 1 .. Len(todo')
      BY <2>2, <2>4, LenProperties
    <3>2. i + 1 \in DOMAIN todo' /\ todo'[i + 1] = services[i]
      BY <1>0, <2>4, <3>1
    <3> QED
      BY <3>2
  <2>7. result' = "none"
    BY <1>2 DEF RunBegin, CleanupInv
  <2> QED
    BY <2>1, <2>5, <2>6, <2>7 DEF StartInv
<1>3. CASE Go
  <2>1. /\ Head(todo) \in Tasks
        /\ Tail(todo) \in Seq(Tasks)
        /\ Len(Tail(todo)) = Len(todo) - 1
        /\ \A i \in 1 .. Len(Tail(todo)) : Tail(todo)[i] = todo[i + 1]
        /\ DOMAIN todo = 1 .. Len(todo) /\ DOMAIN Tail(todo) = 1 .. Len(Tail(todo))
    BY <1>3, HeadTailProperties, LenProperties DEF Go, TypeOK
  <2>2. Head(todo) = todo[1]
    BY <1>3 DEF Go, TypeOK
  <2>3. /\ task' = [task EXCEPT ![Head(todo)] = "running"]
        /\ todo' = Tail(todo) /\ services' = services /\ result' = result /\ phase = "run"
        /\ phase' = (IF Tail(todo) = <<>> THEN "wait" ELSE "run")
    BY <1>3 DEF Go, AfterGo
  <2>4. result = "none"
    BY <2>3 DEF CleanupInv
  <2>5. ASSUME NEW i \in DOMAIN services, task'[services[i]] = "idle"
        PROVE  \E k \in DOMAIN todo' : todo'[k] = services[i]
    <3>1. services[i] # Head(todo) /\ task[services[i]] = "idle"
      BY <1>0, <2>1, <2>3, <2>5 DEF TypeOK
    <3>2. PICK k \in DOMAIN todo : todo[k] = services[i]
      BY <2>3, <3>1 DEF StartInv
    <3>3. k # 1 /\ k - 1 \in DOMAIN Tail(todo) /\ Tail(todo)[k - 1] = todo[k]
      BY <2>1, <2>2, <3>1, <3>2
    <3> QED
      BY <2>3, <3>2, <3>3
  <2>6. task'[Handler] # "idle"
    BY <2>1, <2>3, HandlerIsTask DEF StartInv, TypeOK
  <2>7. Tail(todo) = <<>> => \A i \in DOMAIN services : task'[services[i]] # "idle"
    BY <2>3, <2>5
  <2> QED
    BY <2>3, <2>4, <2>5, <2>6, <2>7 DEF StartInv
<1>4. CASE Wait
  BY <1>4 DEF Wait, StartInv
<1>5. CASE CallerCancel \/ SignalArrives \/ CleanupNext \/ Exit \/ Exited \/ UNCHANGED vars
  BY <1>5 DEF CallerCancel, SignalArrives, CleanupNext, Exit, Exited, vars, StartInv
<1>6. CASE HandleSignal \/ HandleDelayOver \/ HandleDone \/ ReporterReturns \/ \E t \in 1 .. N : ServiceReturns(t)
  <2>1. PICK t \in Tasks, v \in TaskStates \ {"idle"} :
          task' = [task EXCEPT ![t] = v] /\ task[t] # "idle"
    BY <1>6, HandlerIsTask DEF HandleSignal, HandleDelayOver, HandleDone, ReporterReturns, ServiceReturns,
         ReturnNil, ReturnErr, TaskStates
  <2>2. UNCHANGED <<phase, services, todo, result>>
    BY <1>6 DEF HandleSignal, HandleDelayOver, HandleDone, ReporterReturns, ServiceReturns
  <2>3. \A u \in Tasks : task'[u] = "idle" <=> task[u] = "idle"
    BY <2>1 DEF TypeOK
  <2> QED
    BY <1>0, <2>2, <2>3, HandlerIsTask DEF StartInv
<1> QED
  BY <1>1, <1>2, <1>3, <1>4, <1>5, <1>6 DEF Next

(* The errgroup's error is the first one returned, and Handle returns nil  *)
(* only when the caller cancelled or some task failed.                     *)
LEMMA ErrStep == TypeOK /\ CleanupInv /\ JoinInv /\ ErrInv /\ [Next]_vars => ErrInv'
<1> SUFFICES ASSUME TypeOK, CleanupInv, JoinInv, ErrInv, [Next]_vars PROVE ErrInv'
  OBVIOUS
<1> USE DEF loadVars, endVars
<1>1. CASE Load \/ LoadFails \/ RunBegin \/ CallerCancel \/ SignalArrives
  BY <1>1 DEF Load, LoadFails, RunBegin, CallerCancel, SignalArrives, ErrInv, JoinInv
<1>2. CASE Go
  <2>1. Head(todo) \in Tasks
    BY <1>2, HeadTailProperties DEF Go, TypeOK
  <2>2. task'[Handler] \in {task[Handler], "running"}
    BY <1>2, <2>1, HandlerIsTask DEF Go, TypeOK
  <2>3. UNCHANGED <<gerr, errs, result, parent, cancelled>> /\ phase = "run"
    BY <1>2 DEF Go
  <2> QED
    BY <2>2, <2>3 DEF ErrInv
<1>3. CASE Wait
  <2>1. UNCHANGED <<gerr, errs, task, parent>> /\ phase' = "cleanup"
        /\ result' = (IF gerr = NoTask THEN "nil" ELSE "error")
    BY <1>3 DEF Wait
  <2>2. gerr = NoTask <=> errs = <<>>
    BY HeadNotNoTask DEF ErrInv, TypeOK
  <2> QED
    BY <2>1, <2>2 DEF ErrInv
<1>4. CASE HandleSignal
  BY <1>4, HandlerIsTask DEF HandleSignal, ErrInv, TypeOK
<1>5. CASE HandleDone
  <2>1. phase \in {"run", "wait"}
    BY <1>5, HandlerIsTask DEF HandleDone, JoinInv, Live, TypeOK
  <2> QED
    BY <1>5, <2>1 DEF HandleDone, ReturnNil, ErrInv, ctxDone
<1>6. CASE ReporterReturns
  <2>1. Reporter # Handler
    BY NNat DEF Reporter, Handler
  <2> QED
    BY <1>6, <2>1, HandlerIsTask DEF ReporterReturns, ReturnNil, ErrInv, TypeOK
<1>7. ASSUME NEW t \in Tasks, ReturnErr(t), t \in Live, UNCHANGED <<phase, parent, result>>
      PROVE  ErrInv'
  <2>1. phase \in {"run", "wait"} /\ result = "none"
    BY <1>7 DEF JoinInv, Live, CleanupInv, TypeOK
  <2>2. /\ errs' # <<>>
        /\ Head(errs') = IF errs = <<>> THEN t ELSE Head(errs)
    BY <1>7, AppendProperties, HeadTailAppend DEF ReturnErr, TypeOK
  <2>3. gerr' = (IF gerr = NoTask THEN t ELSE gerr) /\ (gerr = NoTask <=> errs = <<>>)
    BY <1>7, HeadNotNoTask DEF ReturnErr, KeepErr, ErrInv, TypeOK
  <2>4. gerr' = Head(errs') /\ gerr' # NoTask
    BY <2>2, <2>3, NoTaskIsNone DEF ErrInv
  <2> QED
    BY <1>7, <2>1, <2>2, <2>4 DEF ErrInv
<1>8. CASE HandleDelayOver
  BY <1>7, <1>8, HandlerIsTask DEF HandleDelayOver, Live
<1>9. ASSUME NEW t \in 1 .. N, ServiceReturns(t) PROVE ErrInv'
  <2>1. t \in Tasks /\ t # Handler
    BY HandlerIsTask DEF Handler
  <2>2. CASE ReturnErr(t)
    BY <1>7, <1>9, <2>1, <2>2 DEF ServiceReturns, Live
  <2>3. CASE ReturnNil(t)
    BY <1>9, <2>1, <2>3, HandlerIsTask DEF ServiceReturns, ReturnNil, ErrInv, TypeOK
  <2> QED
    BY <1>9, <2>2, <2>3 DEF ServiceReturns
<1>10. CASE CleanupNext \/ Exit \/ Exited \/ UNCHANGED vars
  BY <1>10 DEF CleanupNext, Exit, Exited, vars, ErrInv
<1> QED
  BY <1>1, <1>2, <1>3, <1>4, <1>5, <1>6, <1>8, <1>9, <1>10 DEF Next

-----------------------------------------------------------------------------
(* The inductive invariant holds of every reachable state.                 *)
THEOREM Invariance == Spec => []IInv
<1>1. Init => IInv
  <2> SUFFICES ASSUME Init PROVE IInv
    OBVIOUS
  <2>1. TypeOK
    BY NNat DEF Init, TypeOK, Tasks, TaskStates, NoTask
  <2>2. CleanupInv /\ JoinInv /\ StartInv /\ ErrInv
    BY HandlerIsTask DEF Init, CleanupInv, JoinInv, StartInv, ErrInv
  <2> QED
    BY <2>1, <2>2 DEF IInv
<1>2. IInv /\ [Next]_vars => IInv'
  BY TypeStep, CleanupStep, JoinStep, StartStep, ErrStep DEF IInv
<1> QED
  BY <1>1, <1>2, PTL DEF Spec

(* For every plan of components, the variables keep their types.           *)
THEOREM TypeCorrect == Spec => []TypeOK
  BY Invariance, PTL DEF IInv

(* For every plan, no cleanup is called while a task is alive: Run joins   *)
(* all of them, and Cleanup comes after Run.                               *)
THEOREM CleanupAfterRun == Spec => []NoUseAfterClose
<1>1. IInv => NoUseAfterClose
  BY DEF IInv, TypeOK, CleanupInv, JoinInv, NoUseAfterClose
<1> QED
  BY <1>1, Invariance, PTL

(* For every plan, a resource is closed after everything loaded later, and *)
(* the process ends with everything closed, whatever the cleanups return.  *)
THEOREM CleanupOrder == Spec => [](DependentsClosedFirst /\ AllClosedAtExit)
<1>1. IInv => DependentsClosedFirst /\ AllClosedAtExit
  <2> SUFFICES ASSUME IInv PROVE DependentsClosedFirst /\ AllClosedAtExit
    OBVIOUS
  <2>1. DOMAIN cleanups = 1 .. Len(cleanups) /\ Len(cleanups) \in Nat
    BY LenProperties DEF IInv, TypeOK
  <2> QED
    BY <2>1 DEF IInv, TypeOK, CleanupInv, DependentsClosedFirst, AllClosedAtExit
<1> QED
  BY <1>1, Invariance, PTL

(* For every plan, Run fails iff a task failed, with the earliest error,   *)
(* and returns nil only if the caller cancelled its context.               *)
THEOREM RunResult == Spec => [](FirstErrorWins /\ NilOnlyIfCancelled)
<1>1. IInv => FirstErrorWins
  BY DEF IInv, ErrInv, FirstErrorWins
<1>2. IInv => NilOnlyIfCancelled
  <2> SUFFICES ASSUME IInv, result = "nil" PROVE parent
    BY DEF NilOnlyIfCancelled
  <2>1. phase \in {"cleanup", "exit"} /\ task[Handler] # "idle"
    BY DEF IInv, TypeOK, CleanupInv, StartInv
  <2>2. task[Handler] \in {"nil", "err"}
    BY <2>1, HandlerIsTask DEF IInv, TypeOK, TaskStates, JoinInv, Live
  <2>3. errs = <<>> /\ gerr = NoTask
    BY DEF IInv, ErrInv
  <2> QED
    BY <2>2, <2>3 DEF IInv, ErrInv, TypeOK
<1> QED
  BY <1>1, <1>2, Invariance, PTL

(* For every plan, when Run has returned every service function has been   *)
(* invoked and has come back, even if an earlier one failed at once.       *)
THEOREM ServicesInvoked == Spec => []EveryServiceInvoked
<1>1. IInv => EveryServiceInvoked
  <2> SUFFICES ASSUME IInv, result # "none", NEW i \in DOMAIN services
               PROVE  task[services[i]] \in {"nil", "err"}
    BY DEF EveryServiceInvoked
  <2>1. services[i] \in Tasks
    BY HandlerIsTask, ElementOfSeq, LenProperties DEF IInv, TypeOK
  <2>2. phase \in {"cleanup", "exit"} /\ task[services[i]] # "idle"
    BY DEF IInv, TypeOK, CleanupInv, StartInv
  <2> QED
    BY <2>1, <2>2 DEF IInv, TypeOK, TaskStates, JoinInv, Live
<1> QED
  BY <1>1, Invariance, PTL

-----------------------------------------------------------------------------
(* The system starts as the lifecycle does.                                *)
LEMMA RefinesInit == Init => L!Init
  BY DEF Init, L!Init, Stage, Live

(* A step that leaves main where it is, and the resources alone, is work   *)
(* or nothing to the lifecycle.                                            *)
LEMMA RefinesWork ==
  ASSUME TypeOK, UNCHANGED <<cleanups, closed>>, Stage' = Stage,
         Stage = "serving" \/ UNCHANGED task
  PROVE  [L!Next]_(L!lvars)
<1>1. (Live # {}) \in BOOLEAN /\ (Live' # {}) \in BOOLEAN
  OBVIOUS
<1>2. CASE UNCHANGED task
  <2>1. Live' = Live
    BY <1>2 DEF Live, Tasks, N
  <2> QED
    BY <2>1 DEF L!lvars
<1>3. CASE Stage = "serving"
  BY <1>1, <1>3 DEF L!Next, L!Work
<1> QED
  BY <1>2, <1>3

(* Every step of main, Run, Handle, the services and Cleanup is a step of  *)
(* the lifecycle or leaves it as it is.                                    *)
LEMMA RefinesNext == IInv /\ [Next]_vars => [L!Next]_(L!lvars)
<1> SUFFICES ASSUME IInv, [Next]_vars PROVE [L!Next]_(L!lvars)
  OBVIOUS
<1> USE DEF loadVars, endVars
<1>0. /\ TypeOK
      /\ DOMAIN cleanups = 1 .. Len(cleanups) /\ Len(cleanups) \in Nat
  BY LenProperties DEF IInv, TypeOK
<1>1. CASE Load
  <2> DEFINE more == CleanupsOf(Plan[loaded + 1])
  <2>1. more \in Seq({"dialer", "pool", "client"}) /\ Len(more) \in Nat
    BY CleanupsOfType, LenProperties
  <2>2. cleanups' = cleanups \o more /\ closed' = closed /\ phase = "load" /\ phase' = "load" /\ task' = task
    BY <1>1 DEF Load
  <2> HIDE DEF more
  <2>3. Len(cleanups') = Len(cleanups) + Len(more) /\ DOMAIN cleanups' = 1 .. Len(cleanups')
    BY <2>1, <2>2, ConcatProperties, LenProperties DEF IInv, TypeOK
  <2>4. closed = {} /\ Stage = "starting" /\ Stage' = "starting" /\ Live' = Live
    BY <2>2 DEF IInv, CleanupInv, Stage, Live, Tasks, N
  <2>5. CASE Len(more) = 0
    <3>1. Len(cleanups') = Len(cleanups) /\ DOMAIN cleanups' = DOMAIN cleanups
      BY <1>0, <2>3, <2>5
    <3> QED
      BY <2>2, <2>4, <3>1 DEF L!lvars
  <2>6. CASE Len(more) > 0
    <3>1. Len(cleanups') \in Nat /\ Len(cleanups') > Len(cleanups)
      BY <1>0, <2>1, <2>3, <2>6
    <3>2. DOMAIN cleanups' = DOMAIN cleanups \union (Len(cleanups) + 1 .. Len(cleanups'))
      BY <1>0, <2>3, <3>1
    <3> QED
      BY <2>2, <2>4, <3>1, <3>2 DEF L!Next, L!Acquire
  <2> QED
    BY <2>1, <2>5, <2>6
<1>2. CASE LoadFails \/ Wait
  <2>1. UNCHANGED <<cleanups, closed, task>> /\ Stage \in {"starting", "serving"} /\ Stage' = "stopping"
    BY <1>2 DEF LoadFails, Wait, Stage
  <2>2. Live = {}
    BY <1>2 DEF LoadFails, Wait, AllReturned, IInv, JoinInv, Live
  <2>3. Live' = Live
    BY <2>1 DEF Live, Tasks, N
  <2> QED
    BY <2>1, <2>2, <2>3 DEF L!Next, L!Stop
<1>3. CASE RunBegin
  <2>1. UNCHANGED <<cleanups, closed, task>> /\ Stage = "starting" /\ Stage' = "serving"
    BY <1>3 DEF RunBegin, Stage
  <2>2. Live' = Live
    BY <2>1 DEF Live, Tasks, N
  <2> QED
    BY <2>1, <2>2 DEF L!Next, L!Serve
<1>4. CASE Go
  BY <1>0, <1>4, RefinesWork DEF Go, Stage
<1>5. CASE CallerCancel \/ SignalArrives \/ Exited \/ UNCHANGED vars
  <2>1. UNCHANGED <<phase, cleanups, closed, task>>
    BY <1>5 DEF CallerCancel, SignalArrives, Exited, vars
  <2> QED
    BY <1>0, <2>1, RefinesWork DEF Stage
<1>6. CASE HandleSignal \/ HandleDelayOver \/ HandleDone \/ ReporterReturns
  <2>1. UNCHANGED <<phase, cleanups, closed>>
    BY <1>6 DEF HandleSignal, HandleDelayOver, HandleDone, ReporterReturns
  <2>2. phase \in {"run", "wait"}
    BY <1>0, <1>6, HandlerIsTask DEF HandleSignal, HandleDelayOver, HandleDone, ReporterReturns,
         IInv, JoinInv, Live, TypeOK
  <2> QED
    BY <1>0, <2>1, <2>2, RefinesWork DEF Stage
<1>7. CASE \E t \in 1 .. N : ServiceReturns(t)
  <2>1. UNCHANGED <<phase, cleanups, closed>>
    BY <1>7 DEF ServiceReturns
  <2>2. phase \in {"run", "wait"}
    BY <1>0, <1>7, HandlerIsTask DEF ServiceReturns, IInv, JoinInv, Live, TypeOK
  <2> QED
    BY <1>0, <2>1, <2>2, RefinesWork DEF Stage
<1>8. CASE CleanupNext
  <2>1. /\ at \in 1 .. Len(cleanups) /\ closed' = closed \union {at}
        /\ phase = "cleanup" /\ UNCHANGED <<phase, cleanups, task>>
    BY <1>8 DEF CleanupNext, LoopIndexes, CleanupAt
  <2>2. closed = (at + 1) .. Len(cleanups)
    BY <2>1 DEF IInv, CleanupInv
  <2>3. /\ at \in DOMAIN cleanups \ closed
        /\ \A s \in DOMAIN cleanups \ closed : s <= at
        /\ DOMAIN cleanups' \ closed' = (DOMAIN cleanups \ closed) \ {at}
    BY <1>0, <2>1, <2>2
  <2>4. Stage = "stopping" /\ Stage' = "stopping" /\ Live' = Live
    BY <2>1 DEF Stage, Live, Tasks, N
  <2> QED
    BY <2>1, <2>3, <2>4 DEF L!Next, L!Release
<1>9. CASE Exit
  <2>1. phase = "cleanup" /\ phase' = "exit" /\ UNCHANGED <<cleanups, closed, task>> /\ at \notin 1 .. Len(cleanups)
    BY <1>9 DEF Exit, LoopIndexes
  <2>2. DOMAIN cleanups \ closed = {}
    BY <1>0, <2>1 DEF IInv, CleanupInv
  <2>3. Stage = "stopping" /\ Stage' = "stopped" /\ Live' = Live
    BY <2>1 DEF Stage, Live, Tasks, N
  <2> QED
    BY <2>1, <2>2, <2>3 DEF L!Next, L!End
<1> QED
  BY <1>1, <1>2, <1>3, <1>4, <1>5, <1>6, <1>7, <1>8, <1>9 DEF Next

(* For every plan, the system implements the lifecycle: it works only      *)
(* while it serves, and releases everything it acquired, latest first,     *)
(* before it ends (Run's errgroup and Cleanup's loop).                     *)
THEOREM Refinement == Spec => ImplementsLifecycle
  BY RefinesInit, RefinesNext, Invariance, PTL DEF Spec, ImplementsLifecycle, L!Spec

-----------------------------------------------------------------------------
(* Service. The invariant of the pool says who may hold a publisher and    *)
(* where it is meanwhile; that of the shutdown ties the state of the pool  *)
(* to the position of Cleanup's loop.                                      *)

Places == {"idle", "call", "borrow", "take", "wait", "publish", "return", "put"}

PoolType ==
  /\ pc \in [Callers -> Places]
  /\ held \in [Callers -> Publishers \union {NoPublisher}]
  /\ idle \subseteq Publishers
  /\ shut \in BOOLEAN

Holds(c) == pc[c] \in {"publish", "return", "put"}

(* A publisher is idle or held by one caller, and is open and counted.     *)
PoolInv ==
  /\ \A c \in Callers : Holds(c) => held[c] \in (open \cap all) \ idle
  /\ \A c \in Callers : Holds(c) <=> held[c] # NoPublisher
  /\ \A c, d \in Callers : Holds(c) /\ Holds(d) /\ held[c] = held[d] => c = d
  /\ idle \subseteq open \cap all
  /\ open \subseteq idle \union {held[c] : c \in {d \in Callers : Holds(d)}}

(* A caller belongs to a task that has been started.                       *)
HostInv == \A c \in Callers : pc[c] # "idle" => task[Host[c]] \in {"running", "nil", "err"}

(* The cleanup of a dialer is followed by that of the pool built on it, so *)
(* that Cleanup calls the latter first; then the pool is shut and empty.   *)
DialerInv ==
  /\ \A i \in DOMAIN cleanups : cleanups[i] = "dialer" => i + 1 \in DOMAIN cleanups /\ cleanups[i + 1] = "pool"
  /\ (\E i \in closed : cleanups[i] = "pool") => shut /\ idle = {}
  /\ dialer = "closed" => \E i \in closed : cleanups[i] = "pool"

SInv == PoolType /\ PoolInv /\ HostInv /\ DialerInv

-----------------------------------------------------------------------------
(* Each step of the composition is a step of System or leaves it alone.    *)

(* A step of a pool's caller leaves System alone; every other is System's. *)
LEMMA SystemSteps == [SNext]_svars => [Next]_vars
<1>1. ASSUME MainSteps PROVE [Next]_vars
  BY <1>1 DEF MainSteps, SLoad, Unrelated, CleanupClient, CleanupPoolBegins, CleanupPoolEnds, CleanupDialer, Next
<1>2. ASSUME NEW t \in 1 .. N, TaskReturns(t) PROVE Next
  BY <1>2 DEF TaskReturns, Next
<1>3. ASSUME NEW c \in Callers, Begin(c) \/ CallerCtxDone(c) \/ CallerSteps(c) PROVE UNCHANGED vars
  BY <1>3 DEF Begin, CallerCtxDone, CallerSteps
<1>4. ASSUME SExited \/ UNCHANGED svars PROVE UNCHANGED vars
  BY <1>4 DEF SExited, svars
<1> QED BY <1>1, <1>2, <1>3, <1>4 DEF SNext

(* The composition implements System: registering a publisher pool adds    *)
(* nothing to the lifecycle and takes nothing away.                        *)
THEOREM IsSystem == SSpec => Spec
<1>1. SInit => Init
  BY DEF SInit
<1> QED BY <1>1, SystemSteps, PTL DEF SSpec, Spec

-----------------------------------------------------------------------------
(* The steps of the pool, whoever takes them.                              *)

PoolStep ==
  \/ \E c \in Callers : Arrive(c) \/ CtxDone(c) \/ CallerStep(c) \/ PublishReturns(c)
  \/ CloseBegins \/ CloseEnds
  \/ UNCHANGED pvars

(* A caller that neither takes a publisher nor gives one back.             *)
LEMMA MoveKeeps ==
  ASSUME PoolType, PoolInv, NEW c \in Callers, NEW l \in Places,
         pc' = [pc EXCEPT ![c] = l],
         Holds(c) <=> l \in {"publish", "return", "put"},
         UNCHANGED <<held, all, idle, open, shut>>
  PROVE  (PoolType /\ PoolInv)'
<1>1. PoolType'
  BY DEF PoolType
<1>2. \A d \in Callers : Holds(d)' <=> Holds(d)
  BY DEF PoolType, Holds
<1> QED BY <1>1, <1>2 DEF PoolInv

(* A caller gets a publisher that nobody holds.                            *)
LEMMA TakesKeeps ==
  ASSUME PoolType, PoolInv, NEW c \in Callers, ~Holds(c), NEW p \in Publishers, Takes(c, p),
         p \in idle \/ p \notin open, idle' = idle \ {p},
         all' = all \union {p}, open' = open \union {p}, shut' = shut
  PROVE  (PoolType /\ PoolInv)'
<1>1. held' = [held EXCEPT ![c] = p] /\ pc' = [pc EXCEPT ![c] = "publish"]
  BY DEF Takes, At
<1>2. PoolType'
  BY <1>1 DEF PoolType, Places
<1>3. \A d \in Callers : held'[d] = (IF d = c THEN p ELSE held[d]) /\ (Holds(d)' <=> d = c \/ Holds(d))
  BY <1>1 DEF PoolType, Holds
<1>4. \A d \in Callers : Holds(d) => held[d] # p
  BY DEF PoolInv
<1>5. p # NoPublisher
  BY PoolAssumption
<1>6. \A d \in Callers : Holds(d)' => held'[d] \in (open' \cap all') \ idle'
  BY <1>3, <1>4 DEF PoolInv
<1>7. \A d \in Callers : Holds(d)' <=> held'[d] # NoPublisher
  BY <1>3, <1>5 DEF PoolInv
<1>8. \A d, e \in Callers : Holds(d)' /\ Holds(e)' /\ held'[d] = held'[e] => d = e
  BY <1>3, <1>4 DEF PoolInv
<1>9. idle' \subseteq open' \cap all'
  BY DEF PoolInv
<1>10. ASSUME NEW q \in open' PROVE q \in idle' \union {held'[d] : d \in {e \in Callers : Holds(e)'}}
  <2>1. CASE q = p
    BY <1>3, <2>1
  <2>2. CASE q # p /\ q \in idle
    BY <2>2
  <2>3. CASE q # p /\ q \notin idle
    <3>1. PICK d \in Callers : Holds(d) /\ q = held[d]
      BY <2>3 DEF PoolInv
    <3>2. d # c /\ held'[d] = q /\ Holds(d)'
      BY <1>3, <3>1
    <3> QED BY <3>2
  <2> QED BY <2>1, <2>2, <2>3
<1> QED BY <1>2, <1>6, <1>7, <1>8, <1>9, <1>10 DEF PoolInv

(* A caller lets go of its publisher, which becomes idle or is closed,     *)
(* alone or with the idle ones.                                            *)
LEMMA LetsGoKeeps ==
  ASSUME PoolType, PoolInv, NEW c \in Callers, Holds(c),
         held' = [held EXCEPT ![c] = NoPublisher],
         pc' = [pc EXCEPT ![c] = "idle"],
         shut' = shut,
         NEW away \in SUBSET (idle \union {held[c]}),
         all' = all \ away, open' = open \ away,
         idle' = (idle \union {held[c]}) \ away
  PROVE  (PoolType /\ PoolInv)'
<1>1. held[c] \in Publishers
  BY DEF PoolType, PoolInv
<1>2. PoolType'
  BY <1>1 DEF PoolType, Places
<1>3. \A d \in Callers : held'[d] = (IF d = c THEN NoPublisher ELSE held[d]) /\ (Holds(d)' <=> d # c /\ Holds(d))
  BY DEF PoolType, Holds
<1>4. \A d \in Callers : Holds(d)' => held[d] \notin idle \union {held[c]}
  BY <1>3 DEF PoolInv
<1>5. \A d \in Callers : Holds(d)' => held'[d] \in (open' \cap all') \ idle'
  BY <1>3, <1>4 DEF PoolInv
<1>6. \A d \in Callers : Holds(d)' <=> held'[d] # NoPublisher
  BY <1>3 DEF PoolInv
<1>7. \A d, e \in Callers : Holds(d)' /\ Holds(e)' /\ held'[d] = held'[e] => d = e
  BY <1>3 DEF PoolInv
<1>8. idle' \subseteq open' \cap all'
  BY DEF PoolInv
<1>9. ASSUME NEW q \in open' PROVE q \in idle' \union {held'[d] : d \in {e \in Callers : Holds(e)'}}
  <2>1. CASE q \in idle \union {held[c]}
    BY <2>1
  <2>2. CASE q \notin idle \union {held[c]}
    <3>1. PICK d \in Callers : Holds(d) /\ q = held[d]
      BY <2>2 DEF PoolInv
    <3>2. d # c /\ held'[d] = q /\ Holds(d)'
      BY <1>3, <2>2, <3>1
    <3> QED BY <3>2
  <2> QED BY <2>1, <2>2
<1> QED BY <1>2, <1>5, <1>6, <1>7, <1>8, <1>9 DEF PoolInv

(* Every step of the pool keeps a publisher in one pair of hands.          *)
LEMMA PoolKeeps ==
  ASSUME PoolType, PoolInv, PoolStep
  PROVE  (PoolType /\ PoolInv)'
<1>1. ASSUME NEW c \in Callers, NEW l \in {"call", "borrow", "take", "wait", "idle"},
             ~Holds(c), pc' = [pc EXCEPT ![c] = l], UNCHANGED <<held, all, idle, open, shut>>
      PROVE  (PoolType /\ PoolInv)'
  <2>1. l \in Places /\ l \notin {"publish", "return", "put"}
    BY DEF Places
  <2> QED BY <1>1, <2>1, MoveKeeps
<1>2. ASSUME NEW c \in Callers, Arrive(c) PROVE (PoolType /\ PoolInv)'
  BY <1>1, <1>2 DEF Arrive, At, Holds
<1>3. ASSUME NEW c \in Callers, CtxDone(c) PROVE (PoolType /\ PoolInv)'
  BY <1>3 DEF CtxDone, PoolType, PoolInv, Holds
<1>4. ASSUME NEW c \in Callers, Publish(c) PROVE (PoolType /\ PoolInv)'
  BY <1>1, <1>4 DEF Publish, At, Holds
<1>5. ASSUME NEW c \in Callers, BorrowChecks(c) PROVE (PoolType /\ PoolInv)'
  <2>1. ~Holds(c) /\ UNCHANGED <<held, all, idle, open, shut>>
    BY <1>5 DEF BorrowChecks, Holds
  <2>2. pc' = [pc EXCEPT ![c] = "idle"] \/ pc' = [pc EXCEPT ![c] = "take"]
    BY <1>5 DEF BorrowChecks, ReturnsError, At
  <2> QED BY <1>1, <2>1, <2>2
<1>6. ASSUME NEW c \in Callers, TakeIdle(c) PROVE (PoolType /\ PoolInv)'
  <2>1. PICK p \in idle : Takes(c, p) /\ idle' = idle \ {p}
    BY <1>6 DEF TakeIdle
  <2>2. p \in Publishers /\ all = all \union {p} /\ open = open \union {p}
    BY DEF PoolType, PoolInv
  <2>3. UNCHANGED <<all, open, shut>> /\ ~Holds(c)
    BY <1>6 DEF TakeIdle, Holds
  <2> QED BY <2>1, <2>2, <2>3, TakesKeeps
<1>7. ASSUME NEW c \in Callers, Create(c) PROVE (PoolType /\ PoolInv)'
  <2>1. PICK p \in Publishers \ (open \union all) :
          Takes(c, p) /\ all' = all \union {p} /\ open' = open \union {p}
    BY <1>7 DEF Create
  <2>2. idle' = idle \ {p} /\ shut' = shut /\ ~Holds(c)
    BY <1>7 DEF Create, Holds
  <2> QED BY <2>1, <2>2, TakesKeeps
<1>8. ASSUME NEW c \in Callers, CreateFails(c) \/ GivesUp(c) PROVE (PoolType /\ PoolInv)'
  BY <1>1, <1>8 DEF CreateFails, GivesUp, ReturnsError, At, Holds
<1>9. ASSUME NEW c \in Callers, Blocks(c) PROVE (PoolType /\ PoolInv)'
  BY <1>1, <1>9 DEF Blocks, At, Holds
<1>10. ASSUME NEW c \in Callers, PublishReturns(c) PROVE (PoolType /\ PoolInv)'
  <2>1. Holds(c) /\ "return" \in Places
    BY <1>10 DEF PublishReturns, Holds, Places
  <2> QED BY <1>10, <2>1, MoveKeeps DEF PublishReturns, AfterPublish, At
<1>11. ASSUME NEW c \in Callers, ReturnObject(c) PROVE (PoolType /\ PoolInv)'
  <2>1. Holds(c) /\ held[c] \in all /\ held[c] \notin idle /\ "put" \in Places
    BY <1>11 DEF ReturnObject, Holds, PoolInv, Places
  <2>2. CASE shut
    <3>1. /\ open' = open \ {held[c]}
          /\ all' = all \ {held[c]}
          /\ held' = [held EXCEPT ![c] = NoPublisher]
          /\ pc' = [pc EXCEPT ![c] = "idle"]
          /\ idle' = idle /\ shut' = shut
      BY <1>11, <2>2 DEF ReturnObject, At
    <3>2. idle' = (idle \union {held[c]}) \ {held[c]}
      BY <2>1, <3>1
    <3> QED BY <2>1, <3>1, <3>2, LetsGoKeeps
  <2>3. CASE ~shut
    <3>1. pc' = [pc EXCEPT ![c] = "put"] /\ UNCHANGED <<held, all, idle, open, shut>>
      BY <1>11, <2>1, <2>3 DEF ReturnObject, At
    <3> QED BY <2>1, <3>1, MoveKeeps
  <2> QED BY <2>2, <2>3
<1>12. ASSUME NEW c \in Callers, PutIdle(c) PROVE (PoolType /\ PoolInv)'
  <2>1. Holds(c)
    BY <1>12 DEF PutIdle, Holds
  <2> DEFINE away == IF shut THEN idle \union {held[c]} ELSE {}
  <2>2. /\ idle' = (idle \union {held[c]}) \ away
        /\ all' = all \ away
        /\ open' = open \ away
        /\ held' = [held EXCEPT ![c] = NoPublisher]
        /\ pc' = [pc EXCEPT ![c] = "idle"]
        /\ shut' = shut
    BY <1>12 DEF PutIdle, At
  <2>3. away \in SUBSET (idle \union {held[c]})
    OBVIOUS
  <2> HIDE DEF away
  <2> QED BY <2>1, <2>2, <2>3, LetsGoKeeps
<1>13. ASSUME CloseBegins PROVE (PoolType /\ PoolInv)'
  BY <1>13 DEF CloseBegins, PoolType, PoolInv, Holds
<1>14. ASSUME CloseEnds PROVE (PoolType /\ PoolInv)'
  <2>1. /\ all' = all \ idle /\ open' = open \ idle /\ idle' = {}
        /\ pc' = [c \in Callers |-> IF pc[c] = "wait" THEN "idle" ELSE pc[c]]
        /\ UNCHANGED <<held, shut>>
    BY <1>14 DEF CloseEnds
  <2>2. \A d \in Callers : Holds(d)' <=> Holds(d)
    BY <2>1 DEF Holds
  <2>3. PoolType'
    BY <2>1 DEF PoolType, Places
  <2> QED BY <2>1, <2>2, <2>3 DEF PoolInv
<1>15. CASE UNCHANGED pvars
  BY <1>15 DEF pvars, PoolType, PoolInv, Holds
<1> QED BY <1>2, <1>3, <1>4, <1>5, <1>6, <1>7, <1>8, <1>9, <1>10, <1>11, <1>12, <1>13, <1>14, <1>15
        DEF PoolStep, CallerStep

(* A pool that is shut and has no idle publishers stays so: one that comes *)
(* back is closed.                                                         *)
LEMMA ShutStays ==
  ASSUME PoolStep, shut, idle = {}
  PROVE  shut' /\ idle' = {}
BY DEF PoolStep, CallerStep, Arrive, CtxDone, PublishReturns, Publish, BorrowChecks, TakeIdle, Create,
       CreateFails, Blocks, GivesUp, ReturnObject, PutIdle, CloseBegins, CloseEnds, pvars

(* A step of the composition is one of the pool's or leaves the pool       *)
(* alone.                                                                  *)
LEMMA PoolSteps == [SNext]_svars => PoolStep
<1>1. ASSUME MainSteps PROVE PoolStep
  BY <1>1 DEF MainSteps, SLoad, Unrelated, CleanupClient, CleanupPoolBegins, CleanupPoolEnds, CleanupDialer, PoolStep
<1>2. ASSUME NEW t \in 1 .. N, TaskReturns(t) PROVE PoolStep
  BY <1>2 DEF TaskReturns, PoolStep
<1>3. ASSUME NEW c \in Callers, Begin(c) \/ CallerCtxDone(c) \/ CallerSteps(c) PROVE PoolStep
  BY <1>3 DEF Begin, CallerCtxDone, CallerSteps, PoolStep
<1>4. ASSUME SExited \/ UNCHANGED svars PROVE PoolStep
  BY <1>4 DEF SExited, svars, PoolStep
<1> QED BY <1>1, <1>2, <1>3, <1>4 DEF SNext

-----------------------------------------------------------------------------
(* Callers belong to tasks that were started.                              *)

(* A service that was started runs until it returns.                       *)
LEMMA TaskStarted ==
  ASSUME TypeOK, [Next]_vars, NEW t \in 1 .. N, task[t] \in {"running", "nil", "err"}
  PROVE  task'[t] \in {"running", "nil", "err"}
<1> USE NNat, HandlerIsTask DEF TypeOK
<1>1. CASE UNCHANGED task
  BY <1>1
<1>2. CASE Go
  <2>1. task' = [task EXCEPT ![Head(todo)] = "running"]
    BY <1>2 DEF Go
  <2> QED BY <2>1
<1>3. ASSUME NEW u \in Tasks, ReturnNil(u) \/ ReturnErr(u) PROVE task'[t] \in {"running", "nil", "err"}
  BY <1>3 DEF ReturnNil, ReturnErr
<1>4. CASE HandleSignal
  <2>1. task' = [task EXCEPT ![Handler] = "sleeping"] /\ t # Handler
    BY <1>4 DEF HandleSignal, Handler
  <2> QED BY <2>1
<1>5. ASSUME Load \/ LoadFails \/ RunBegin \/ Wait \/ CallerCancel \/ SignalArrives \/ CleanupNext \/ Exit
             \/ Exited \/ UNCHANGED vars
      PROVE  UNCHANGED task
  BY <1>5 DEF Load, LoadFails, RunBegin, Wait, CallerCancel, SignalArrives, CleanupNext, Exit, Exited, vars
<1>6. ASSUME HandleDelayOver \/ HandleDone \/ ReporterReturns \/ \E u \in 1 .. N : ServiceReturns(u)
      PROVE  \E u \in Tasks : ReturnNil(u) \/ ReturnErr(u)
  BY <1>6 DEF HandleDelayOver, HandleDone, ReporterReturns, ServiceReturns
<1> QED BY <1>1, <1>2, <1>3, <1>4, <1>5, <1>6 DEF Next

(* Only Begin makes a caller of a goroutine that was none, and it begins   *)
(* in a task that runs.                                                    *)
LEMMA StartsInTask ==
  ASSUME PoolType, [SNext]_svars, NEW c \in Callers, pc[c] = "idle", pc'[c] # "idle"
  PROVE  task[Host[c]] = "running"
<1>1. ASSUME NEW d \in Callers, CallerStep(d) \/ PublishReturns(d) \/ CtxDone(d)
      PROVE  FALSE
  <2>1. CASE d = c
    BY <1>1, <2>1 DEF CallerStep, PublishReturns, CtxDone, Publish, BorrowChecks, TakeIdle, Create,
       CreateFails, Blocks, GivesUp, ReturnObject, PutIdle
  <2>2. CASE d # c
    <3>1. UNCHANGED pc \/ \E l : pc' = [pc EXCEPT ![d] = l]
      BY <1>1 DEF CallerStep, PublishReturns, CtxDone, Publish, BorrowChecks, TakeIdle, Create,
         CreateFails, Blocks, GivesUp, ReturnObject, PutIdle, At, ReturnsError, Takes
    <3> QED BY <2>2, <3>1 DEF PoolType
  <2> QED BY <2>1, <2>2
<1>2. ASSUME CloseBegins \/ CloseEnds \/ UNCHANGED pvars PROVE FALSE
  BY <1>2 DEF CloseBegins, CloseEnds, pvars
<1>3. ASSUME MainSteps PROVE FALSE
  BY <1>2, <1>3 DEF MainSteps, SLoad, Unrelated, CleanupClient, CleanupPoolBegins, CleanupPoolEnds, CleanupDialer
<1>4. ASSUME NEW t \in 1 .. N, TaskReturns(t) PROVE FALSE
  BY <1>2, <1>4 DEF TaskReturns
<1>5. ASSUME NEW d \in Callers, Begin(d) PROVE task[Host[c]] = "running"
  <2>1. pc' = [pc EXCEPT ![d] = "call"] /\ task[Host[d]] = "running"
    BY <1>5 DEF Begin, Arrive, At
  <2>2. d = c
    BY <2>1 DEF PoolType
  <2> QED BY <2>1, <2>2
<1>6. ASSUME SExited \/ UNCHANGED svars PROVE FALSE
  BY <1>2, <1>6 DEF SExited, svars
<1> QED BY <1>1, <1>3, <1>4, <1>5, <1>6 DEF SNext, CallerCtxDone, CallerSteps

(* A caller begins only while its task runs, and a task that has run is    *)
(* never unstarted.                                                        *)
LEMMA HostKeeps ==
  ASSUME TypeOK, PoolType, HostInv, [SNext]_svars
  PROVE  HostInv'
<1> SUFFICES ASSUME NEW c \in Callers, pc'[c] # "idle"
             PROVE  task'[Host[c]] \in {"running", "nil", "err"}
  BY DEF HostInv
<1>1. Host[c] \in 1 .. N
  BY HostAssumption
<1>2. task[Host[c]] \in {"running", "nil", "err"}
  BY StartsInTask DEF HostInv
<1> QED BY <1>1, <1>2, SystemSteps, TaskStarted

-----------------------------------------------------------------------------
(* The order of Cleanup: the pool, then the dialer it was built on.        *)

DialerThenPool(s) ==
  \A i \in DOMAIN s : s[i] = "dialer" => i + 1 \in DOMAIN s /\ s[i + 1] = "pool"

(* rabbit.Load registers both, the dialer first; no other Load does.       *)
LEMMA LoadRegisters ==
  ASSUME TypeOK, DialerThenPool(cleanups), Load
  PROVE  DialerThenPool(cleanups')
<1> DEFINE k == Plan[loaded + 1]
           t == CleanupsOf(k)
<1>1. cleanups \in Seq({"dialer", "pool", "client"}) /\ t \in Seq({"dialer", "pool", "client"})
  BY CleanupsOfType DEF TypeOK
<1>2. DialerThenPool(t)
  <2>1. CASE k = "rabbit"
    <3>1. t = <<"dialer", "pool">>
      BY <2>1 DEF CleanupsOf
    <3> QED BY <3>1 DEF DialerThenPool
  <2>2. CASE k # "rabbit" /\ k \in {"db", "redis", "mongo"}
    <3>1. t = <<"client">>
      BY <2>2 DEF CleanupsOf
    <3> QED BY <3>1 DEF DialerThenPool
  <2>3. CASE k # "rabbit" /\ k \notin {"db", "redis", "mongo"}
    <3>1. t = <<>>
      BY <2>3 DEF CleanupsOf
    <3> QED BY <3>1 DEF DialerThenPool
  <2> QED BY <2>1, <2>2, <2>3
<1>3. cleanups' = cleanups \o t
  BY DEF Load
<1> HIDE DEF t
<1>4. /\ Len(cleanups) \in Nat /\ Len(t) \in Nat
      /\ DOMAIN cleanups = 1 .. Len(cleanups) /\ DOMAIN t = 1 .. Len(t)
      /\ DOMAIN cleanups' = 1 .. Len(cleanups) + Len(t)
      /\ \A i \in 1 .. Len(cleanups) + Len(t) :
           cleanups'[i] = IF i <= Len(cleanups) THEN cleanups[i] ELSE t[i - Len(cleanups)]
  BY <1>1, <1>3, ConcatProperties, LenProperties
<1>5. ASSUME NEW i \in DOMAIN cleanups', cleanups'[i] = "dialer"
      PROVE  i + 1 \in DOMAIN cleanups' /\ cleanups'[i + 1] = "pool"
  <2>1. CASE i <= Len(cleanups)
    <3>1. i \in DOMAIN cleanups /\ cleanups[i] = "dialer"
      BY <1>4, <1>5, <2>1
    <3>2. i + 1 \in DOMAIN cleanups /\ cleanups[i + 1] = "pool"
      BY <3>1 DEF DialerThenPool
    <3> QED BY <1>4, <3>2
  <2>2. CASE i > Len(cleanups)
    <3> DEFINE j == i - Len(cleanups)
    <3>1. j \in DOMAIN t /\ t[j] = "dialer"
      BY <1>4, <1>5, <2>2
    <3>2. j + 1 \in DOMAIN t /\ t[j + 1] = "pool"
      BY <1>2, <3>1 DEF DialerThenPool
    <3>3. i + 1 \in 1 .. Len(cleanups) + Len(t) /\ ~(i + 1 <= Len(cleanups)) /\ (i + 1) - Len(cleanups) = j + 1
      BY <1>4, <2>2, <3>2
    <3>4. cleanups'[i + 1] = t[(i + 1) - Len(cleanups)]
      BY <1>4, <3>3
    <3> QED BY <1>4, <3>2, <3>3, <3>4
  <2> QED BY <1>4, <2>1, <2>2
<1> QED BY <1>5 DEF DialerThenPool

(* Which steps of the composition change the cleanups, what is closed and  *)
(* the dialer.                                                             *)
LEMMA CleanupChanges ==
  ASSUME [SNext]_svars
  PROVE  \/ SLoad
         \/ CleanupClient \/ CleanupPoolEnds \/ CleanupDialer
         \/ UNCHANGED <<cleanups, closed, dialer>>
<1> USE DEF loadVars, endVars, vars
<1>1. ASSUME Unrelated PROVE UNCHANGED <<cleanups, closed, dialer>>
  BY <1>1 DEF Unrelated, LoadFails, RunBegin, Go, Wait, CallerCancel, SignalArrives, HandleSignal,
     HandleDelayOver, HandleDone, ReporterReturns, Exit
<1>2. ASSUME NEW t \in 1 .. N, TaskReturns(t) PROVE UNCHANGED <<cleanups, closed, dialer>>
  BY <1>2 DEF TaskReturns, ServiceReturns
<1>3. ASSUME NEW c \in Callers, Begin(c) \/ CallerCtxDone(c) \/ CallerSteps(c)
      PROVE  UNCHANGED <<cleanups, closed, dialer>>
  BY <1>3 DEF Begin, CallerCtxDone, CallerSteps
<1>4. ASSUME CleanupPoolBegins \/ SExited \/ UNCHANGED svars PROVE UNCHANGED <<cleanups, closed, dialer>>
  BY <1>4 DEF CleanupPoolBegins, SExited, svars
<1> QED BY <1>1, <1>2, <1>3, <1>4 DEF SNext, MainSteps

(* Load registers the dialer just before the pool, and Cleanup's loop      *)
(* comes to the pool first.                                                *)
LEMMA DialerKeeps ==
  ASSUME IInv, DialerInv, [SNext]_svars
  PROVE  DialerInv'
<1> USE DEF IInv
<1>0. DialerThenPool(cleanups)
  BY DEF DialerInv, DialerThenPool
<1>1. CASE SLoad
  <2>1. closed = {} /\ closed' = {}
    BY <1>1 DEF SLoad, Load, CleanupInv, endVars
  <2>2. DialerThenPool(cleanups')
    BY <1>0, <1>1, LoadRegisters DEF SLoad
  <2>3. dialer' # "closed"
    BY <1>1, <2>1 DEF SLoad, DialerInv
  <2> QED BY <2>1, <2>2, <2>3 DEF DialerInv, DialerThenPool
<1>2. ASSUME CleanupNext
      PROVE  /\ cleanups' = cleanups /\ closed' = closed \union {at}
             /\ phase = "cleanup" /\ at \in 1 .. Len(cleanups)
  BY <1>2 DEF CleanupNext, CleanupAt, LoopIndexes, loadVars
<1>3. CASE CleanupClient
  <2>1. cleanups[at] = "client" /\ UNCHANGED <<idle, shut, dialer>> /\ CleanupNext
    BY <1>3 DEF CleanupClient, Cleaning, CleanupAt, pvars
  <2> QED BY <1>2, <2>1 DEF DialerInv
<1>4. CASE CleanupPoolEnds
  <2>1. shut' /\ idle' = {} /\ cleanups[at] = "pool" /\ CleanupNext
    BY <1>4 DEF CleanupPoolEnds, CloseEnds, Cleaning, CleanupAt
  <2> QED BY <1>2, <2>1 DEF DialerInv
<1>5. CASE CleanupDialer
  <2>1. cleanups[at] = "dialer" /\ CleanupNext /\ UNCHANGED <<idle, shut>>
    BY <1>5 DEF CleanupDialer, Cleaning, CleanupAt, pvars
  <2>2. at \in DOMAIN cleanups
    BY <1>2, <2>1 DEF TypeOK
  <2>3. at + 1 \in DOMAIN cleanups /\ cleanups[at + 1] = "pool"
    BY <1>0, <2>1, <2>2 DEF DialerThenPool
  <2>4. at + 1 \in closed
    <3>1. closed = (at + 1) .. Len(cleanups)
      BY <1>2, <2>1 DEF CleanupInv
    <3> QED BY <2>2, <2>3, <3>1 DEF TypeOK
  <2> QED BY <1>2, <2>1, <2>3, <2>4 DEF DialerInv
<1>6. CASE UNCHANGED <<cleanups, closed, dialer>>
  <2>1. (\E i \in closed : cleanups[i] = "pool") => shut' /\ idle' = {}
    BY PoolSteps, ShutStays DEF DialerInv
  <2> QED BY <1>6, <2>1 DEF DialerInv
<1> QED BY <1>1, <1>3, <1>4, <1>5, <1>6, CleanupChanges

-----------------------------------------------------------------------------
(* At first nothing is loaded and no caller is active.                     *)
LEMMA SInitially == SInit => SInv
<1> SUFFICES ASSUME SInit PROVE SInv
  OBVIOUS
<1> USE DEF SInit, PInit
<1>1. PoolType
  BY DEF PoolType, Places
<1>2. PoolInv
  BY DEF PoolInv, Holds
<1>3. HostInv /\ DialerInv
  BY DEF HostInv, DialerInv, Init
<1> QED BY <1>1, <1>2, <1>3 DEF SInv

(* The invariants of System and of the pool hold throughout, for every     *)
(* plan, set of callers and set of publishers: publisherpool's callers and *)
(* Cleanup interleave as they like.                                        *)
THEOREM ServiceInvariance == SSpec => [](IInv /\ SInv)
<1>1. IInv /\ SInv /\ [SNext]_svars => SInv'
  BY PoolSteps, PoolKeeps, HostKeeps, DialerKeeps DEF SInv, IInv
<1> QED BY <1>1, SInitially, IsSystem, Invariance, PTL DEF SSpec

(* rabbit.PublisherPool lends a publisher to one caller at a time, and     *)
(* neither closes it nor offers it to another while the caller publishes:  *)
(* for any number of callers, and whatever Close does meanwhile.           *)
THEOREM OneUser == SSpec => []OneUserPerPublisher
<1>1. SInv => OneUserPerPublisher
  <2> SUFFICES ASSUME SInv, NEW c \in Callers, pc[c] = "publish"
               PROVE  /\ held[c] \in open \ idle
                      /\ \A d \in Callers \ {c} : pc[d] # "idle" => held[d] # held[c]
    BY DEF OneUserPerPublisher
  <2>1. Holds(c)
    BY DEF Holds
  <2> QED BY <2>1 DEF SInv, PoolInv
<1> QED BY <1>1, ServiceInvariance, PTL

(* rabbit.Load registers the dialer's Close before the pool's: when        *)
(* Cleanup has closed the dialer, the publishers still open are in the     *)
(* hands of requests that outlived their server.                           *)
THEOREM DialerLast == SSpec => []DialerOutlivesPublishers
<1>1. IInv /\ SInv => DialerOutlivesPublishers
  <2> SUFFICES ASSUME IInv, SInv, dialer = "closed", NEW p \in open
               PROVE  p \in {held[c] : c \in Late}
    BY DEF DialerOutlivesPublishers
  <2>1. closed # {} /\ idle = {}
    BY DEF SInv, DialerInv
  <2>2. PICK c \in Callers : Holds(c) /\ p = held[c]
    BY <2>1 DEF SInv, PoolInv
  <2>3. task[Host[c]] \in {"running", "nil", "err"}
    BY <2>2 DEF SInv, HostInv, Holds
  <2>4. Live = {}
    BY <2>1 DEF IInv, TypeOK, CleanupInv, JoinInv
  <2>5. Host[c] \in Tasks
    BY HostAssumption, HandlerIsTask
  <2>6. c \in Late
    BY <2>2, <2>3, <2>4, <2>5 DEF Late, Live, Holds
  <2> QED BY <2>2, <2>6
<1> QED BY <1>1, ServiceInvariance, PTL

(* What System.Run and Cleanup promise, a service that publishes keeps: no *)
(* cleanup runs while a task is alive, Run reports the first error, and    *)
(* the lifecycle is implemented.                                           *)
THEOREM LifecycleKept == SSpec => []NoUseAfterClose /\ []FirstErrorWins /\ ImplementsLifecycle
<1>1. Spec => []FirstErrorWins
  BY RunResult, PTL
<1> QED BY <1>1, IsSystem, CleanupAfterRun, Refinement, PTL
=============================================================================
