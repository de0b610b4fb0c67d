------------------------------- MODULE Worker -------------------------------
(***************************************************************************)
(* worker.Run: the loop that calls WorkFunc, backs off when it is asked    *)
(* to, throttles a busy worker to MinWorkTime, survives panics, and ends   *)
(* when its context is cancelled.                                          *)
(*                                                                         *)
(* Time is counted in ticks and only relatively (how long the work or the  *)
(* wait has lasted), so behaviours are not cut off. The histories saturate *)
(* at Horizon. The loop's own statements take no time.                     *)
(***************************************************************************)
EXTENDS Integers, Backoff

CONSTANTS
  MinWorkTime,         \* Config.MinWorkTime
  MaxWorkTime,         \* Config.MaxWorkTime: the deadline of WorkFunc's context
  BackoffOnAllErrors,  \* Config.BackoffOnAllErrors
  Horizon              \* bound on the history clocks

ASSUME WorkerAssumption ==
  /\ MinWorkTime \in Nat /\ MaxWorkTime \in Nat
  /\ BackoffOnAllErrors \in BOOLEAN
  /\ Horizon \in Nat
  /\ Horizon > MinWorkTime + MaxInterval + MaxWorkTime

VARIABLES
  pc,        \* "loop" (at the for condition), "work", "wait" or "exit"
  ctx,       \* whether Run's context is cancelled
  dur,       \* how long the current WorkFunc has been running
  rest,      \* what is left on the waiter's timer
  current,   \* NoWorkBackOff: the interval it will hand out next
  elapsed,   \* NoWorkBackOff: time since its last Reset
  streak,    \* history: back-offs in a row since the last reset
  since,     \* history: time since WorkFunc was last invoked
  quiet,     \* history: time since WorkFunc last returned
  asked      \* history: the pause the last return calls for

vars == <<pc, ctx, dur, rest, current, elapsed, streak, since, quiet, asked>>

Outcomes == {"ok", "backoff", "error", "panic"}

-----------------------------------------------------------------------------
(* setDefaults and NoWorkBackOff.Reset() before the loop.                  *)
Init ==
  /\ pc = "loop"
  /\ ctx \in BOOLEAN
  /\ dur = 0 /\ rest = 0
  /\ current = InitialInterval /\ elapsed = 0
  /\ streak = 0
  /\ since = Horizon /\ quiet = Horizon /\ asked = 0

(* Mutant: the loop never looks at the context.                            *)
LoopCond_Ignored == TRUE

LoopCond == ~ctx

(* The loop condition holds: WorkFunc is invoked, with a context of its    *)
(* own that the cancellation of Run's context does not reach.              *)
Invoke ==
  /\ pc = "loop"
  /\ LoopCond
  /\ pc' = "work"
  /\ dur' = 0
  /\ since' = 0
  /\ UNCHANGED <<ctx, rest, current, elapsed, streak, quiet, asked>>

Leave ==
  /\ pc = "loop"
  /\ ~LoopCond
  /\ pc' = "exit"
  /\ UNCHANGED <<ctx, dur, rest, current, elapsed, streak, since, quiet, asked>>

(* doWork's switch: does this outcome of WorkFunc call for a back-off?     *)
(* A recovered panic is an error like any other.                           *)
Backs(o) == o = "backoff" \/ (BackoffOnAllErrors /\ o \in {"error", "panic"})

(* doWork's result: the interval to wait, or -1.                           *)
WaitFor(o) == IF Backs(o) THEN NextBackOff(current, elapsed) ELSE -1

(* Mutant: the policy is reset after every loop.                           *)
Resets_Always(wait) == TRUE

Resets(wait) == wait < 0

(* "Wait for the minimum work time".                                       *)
Throttle(d) == MinWorkTime - d

(* The loop continues at once, or goes through the waiter.                 *)
AfterWork(o, wait) == IF wait < 0 /\ dur > MinWorkTime THEN "loop" ELSE "wait"

(* The pause the documentation of the policy promises: the k-th back-off   *)
(* in a row lasts InitialInterval doubled k times, at most MaxInterval.    *)
Promised(k) ==
  LET pow[i \in 0 .. k] == IF i = 0 THEN InitialInterval ELSE 2 * pow[i - 1]
  IN  IF pow[k] > MaxInterval THEN MaxInterval ELSE pow[k]

(* WorkFunc returns (or panics), and Run decides how long to wait.         *)
WorkReturns(o) ==
  /\ pc = "work"
  /\ LET wait == WaitFor(o) IN
       /\ pc' = AfterWork(o, wait)
       /\ rest' = IF wait >= 0 THEN wait ELSE IF dur > MinWorkTime THEN 0 ELSE Throttle(dur)
       /\ current' = IF Resets(wait) THEN InitialInterval ELSE Grow(current)
       /\ elapsed' = IF Resets(wait) THEN 0 ELSE elapsed
       /\ streak' = IF wait < 0 THEN 0 ELSE IF Promised(streak) = MaxInterval THEN streak ELSE streak + 1
       /\ asked' = IF wait < 0 THEN 0 ELSE Promised(streak)
  /\ quiet' = 0
  /\ UNCHANGED <<ctx, dur, since>>

WaitDone == rest = 0 \/ ctx

(* The waiter's select: the timer fires or the context is cancelled.       *)
WaitOver ==
  /\ pc = "wait"
  /\ WaitDone
  /\ pc' = "loop"
  /\ UNCHANGED <<ctx, dur, rest, current, elapsed, streak, since, quiet, asked>>

Cancel ==
  /\ ~ctx
  /\ pc # "exit"
  /\ ctx' = TRUE
  /\ UNCHANGED <<pc, dur, rest, current, elapsed, streak, since, quiet, asked>>

Sat(n) == IF n < Horizon THEN n + 1 ELSE Horizon

(* Time passes while WorkFunc runs within its deadline, which it is        *)
(* expected to honour, or while the waiter's timer runs.                   *)
Tick ==
  /\ \/ pc = "work" /\ dur < MaxWorkTime /\ dur' = dur + 1 /\ UNCHANGED rest
     \/ pc = "wait" /\ ~WaitDone /\ rest' = rest - 1 /\ UNCHANGED dur
  /\ elapsed' = IF MaxElapsedTime = 0 THEN 0 ELSE Sat(elapsed)
  /\ since' = Sat(since)
  /\ quiet' = Sat(quiet)
  /\ UNCHANGED <<pc, ctx, current, streak, asked>>

Exited == pc = "exit" /\ UNCHANGED vars

Next ==
  \/ Invoke \/ Leave \/ WaitOver \/ Cancel \/ Tick \/ Exited
  \/ \E o \in Outcomes : WorkReturns(o)

(* The goroutine is scheduled, time passes, and WorkFunc returns at the    *)
(* latest at its deadline.                                                 *)
Fairness == WF_vars(Invoke \/ Leave \/ WaitOver \/ Tick \/ (dur = MaxWorkTime /\ \E o \in Outcomes : WorkReturns(o)))

Spec == Init /\ [][Next]_vars

FairSpec == Spec /\ Fairness

-----------------------------------------------------------------------------

(* A WorkFunc that asked to back off is not invoked again before the pause *)
(* the exponential policy promises has passed since it returned.           *)
BackoffHonoured == pc = "work" /\ dur = 0 /\ since = 0 => quiet >= asked

(* "Run exits when the context is cancelled", and only then: errors and    *)
(* panics do not stop the loop, which invokes WorkFunc again and again as  *)
(* long as the context lives.                                              *)
ExitsOnCancel ==
  /\ ctx ~> pc = "exit"
  /\ pc # "work" ~> (pc = "work" \/ ctx)
=============================================================================
