---------------------------- MODULE HTTPMetrics ----------------------------
(***************************************************************************)
(* httpmetrics.Provider: metrics are recorded into a buffer that the       *)
(* publish loop, explicit calls of Publish and the final flush of Close    *)
(* take, send and, when the call fails, put back.                          *)
(*                                                                         *)
(* A metric is its number in the order of recording. What a call to the    *)
(* receiver does to it is abstract: a failed call may have been received   *)
(* all the same (the response was lost, or an earlier attempt got through) *)
(***************************************************************************)
EXTENDS Integers, Sequences, SequencesExt

CONSTANTS
  Users,       \* callers of Publish other than the loop and Close
  MaxRecords   \* bound on the number of metrics recorded

ASSUME MetricsAssumption == MaxRecords \in Nat /\ {"loop", "close"} \cap Users = {}

VARIABLES
  data,       \* Provider.data
  batch,      \* per publisher: the metrics it is sending
  sending,    \* per publisher: whether it is in a call
  stop,       \* whether the stop channel is closed
  loop,       \* whether the loop's goroutine runs
  closed,     \* where Close is: "no", "stopping", "flushing", "returned"
  recorded,   \* history: number of metrics recorded
  received,   \* history: metrics the receiver has got
  before,     \* history: metrics recorded when Close was called
  flushed,    \* history: whether the final flush succeeded
  held        \* history: metrics that calls of Publish held as it began

histVars == <<before, flushed, held>>
vars == <<data, batch, sending, stop, loop, closed, recorded, received, histVars>>

Publishers == Users \union {"loop", "close"}

Metrics == 1 .. MaxRecords

-----------------------------------------------------------------------------
(* New: an empty buffer, and the loop started.                             *)
Init ==
  /\ data = <<>>
  /\ batch = [p \in Publishers |-> <<>>]
  /\ sending = [p \in Publishers |-> FALSE]
  /\ stop = FALSE /\ loop = TRUE
  /\ closed = "no"
  /\ recorded = 0
  /\ received = {}
  /\ before = 0 /\ flushed = FALSE /\ held = {}

(* Gauge, Histogram, TimeInMilliseconds and Count, also after Close.       *)
Record ==
  /\ recorded < MaxRecords
  /\ recorded' = recorded + 1
  /\ data' = Append(data, recorded + 1)
  /\ UNCHANGED <<batch, sending, stop, loop, closed, received, histVars>>

LeftBehind == <<>>

(* Mutant: a batch of one is taken for an empty one.                       *)
NothingToSend_OffByOne == Len(data) <= 1

NothingToSend == Len(data) = 0

(* Publish, up to its call of the client; an empty batch is not sent.      *)
Take(p) ==
  /\ ~sending[p]
  /\ data' = LeftBehind
  /\ IF NothingToSend
     THEN UNCHANGED <<batch, sending>>
     ELSE /\ batch' = [batch EXCEPT ![p] = data]
          /\ sending' = [sending EXCEPT ![p] = TRUE]

(* Mutant: what was recorded during the call is overwritten.               *)
Restore_Overwrites(b) == b

(* "reset metrics and replay anything written since backup was taken".     *)
Restore(b) == b \o data

(* The rest of Publish: the call ends. The receiver has the metrics if it  *)
(* succeeds, and may have them if it does not.                             *)
CallEnds(p, ok) ==
  /\ sending[p]
  /\ sending' = [sending EXCEPT ![p] = FALSE]
  /\ batch' = [batch EXCEPT ![p] = <<>>]
  /\ data' = IF ok THEN data ELSE Restore(batch[p])
  /\ received' \in {received \union ToSet(batch[p])} \union (IF ok THEN {} ELSE {received})

-----------------------------------------------------------------------------
UserPublish(p) ==
  /\ Take(p)
  /\ UNCHANGED <<stop, loop, closed, recorded, received, histVars>>

UserDone(p, ok) ==
  /\ CallEnds(p, ok)
  /\ UNCHANGED <<stop, loop, closed, recorded, histVars>>

(* The loop's select takes the tick; with stop closed it may do so still.  *)
LoopTick ==
  /\ loop
  /\ Take("loop")
  /\ UNCHANGED <<stop, loop, closed, recorded, received, histVars>>

LoopStops ==
  /\ loop
  /\ ~sending["loop"]
  /\ stop
  /\ loop' = FALSE
  /\ UNCHANGED <<data, batch, sending, stop, closed, recorded, received, histVars>>

(* Mutant: the loop gives up when a call fails.                            *)
LoopGoesOn_IfOk(ok) == ok

LoopGoesOn(ok) == TRUE

LoopDone(ok) ==
  /\ CallEnds("loop", ok)
  /\ loop' = LoopGoesOn(ok)
  /\ UNCHANGED <<stop, closed, recorded, histVars>>

(* Close: stop is closed once,                                             *)
Close ==
  /\ closed = "no"
  /\ stop' = TRUE
  /\ closed' = "stopping"
  /\ before' = recorded
  /\ UNCHANGED <<data, batch, sending, loop, recorded, received, flushed, held>>

(* then the buffer is published a last time,                               *)
CloseFlush ==
  /\ closed = "stopping"
  /\ Take("close")
  /\ closed' = IF NothingToSend THEN "returned" ELSE "flushing"
  /\ flushed' = NothingToSend
  /\ held' = UNION {ToSet(batch[p]) : p \in Publishers}
  /\ UNCHANGED <<stop, loop, recorded, received, before>>

(* and Close returns nil, whatever the call's outcome.                     *)
CloseDone(ok) ==
  /\ CallEnds("close", ok)
  /\ closed' = "returned"
  /\ flushed' = ok
  /\ UNCHANGED <<stop, loop, recorded, before, held>>

Next ==
  \/ Record \/ LoopTick \/ LoopStops \/ Close \/ CloseFlush
  \/ \E ok \in BOOLEAN : LoopDone(ok) \/ CloseDone(ok)
  \/ \E p \in Users : UserPublish(p) \/ \E ok \in BOOLEAN : UserDone(p, ok)

Spec == Init /\ [][Next]_vars

(* The ticker ticks, every call ends (sendTimeout), and a publisher that   *)
(* tries again and again gets through in the end; the select does not      *)
(* ignore stop.                                                            *)
Fairness ==
  /\ WF_vars(LoopTick)
  /\ WF_vars(\E ok \in BOOLEAN : LoopDone(ok)) /\ SF_vars(LoopDone(TRUE))
  /\ SF_vars(LoopStops)
  /\ WF_vars(CloseFlush) /\ WF_vars(\E ok \in BOOLEAN : CloseDone(ok))
  /\ \A p \in Users : WF_vars(\E ok \in BOOLEAN : UserDone(p, ok)) /\ SF_vars(UserDone(p, TRUE))

FairSpec == Spec /\ Fairness

-----------------------------------------------------------------------------

Buffered == ToSet(data) \union UNION {ToSet(batch[p]) : p \in Publishers}

(* No metric is lost: each one recorded waits in the buffer, is being      *)
(* sent, or has been received, whatever calls of Publish overlap, fail and *)
(* put their batches back.                                                 *)
NothingLost == 1 .. recorded \subseteq Buffered \union received

(* When Close has returned and its flush succeeded, which its result does  *)
(* not tell, everything recorded before the call of Close was received,    *)
(* except what overlapping calls of Publish held as the flush began: their *)
(* batches may fail and come back to a buffer that nobody sends.           *)
CloseFlushes == closed = "returned" /\ flushed => 1 .. before \subseteq received \union held

(* While the provider is open every metric recorded is delivered in the    *)
(* end, if the receiver does not fail for ever.                            *)
DeliveredOrClosed == \A n \in Metrics : (recorded >= n ~> n \in received \/ stop)
=============================================================================
