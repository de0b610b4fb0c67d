-------------------------- MODULE HTTPMetricsProofs --------------------------
(***************************************************************************)
(* No metric is lost, and a flush on Close that succeeds delivers what was *)
(* recorded before it, for every number of callers of Publish and of       *)
(* metrics.                                                                *)
(*                                                                         *)
(* Neither property is inductive. That nothing is lost needs that a batch  *)
(* is held only during a call: otherwise the next Publish would overwrite  *)
(* it. That Close flushes needs what its call carries while it is on.      *)
(***************************************************************************)
EXTENDS HTTPMetrics, SequenceTheorems, TLAPS

TypeInv ==
  /\ data \in Seq(Nat)
  /\ batch \in [Publishers -> Seq(Nat)]
  /\ sending \in [Publishers -> BOOLEAN]
  /\ closed \in {"no", "stopping", "flushing", "returned"}
  /\ recorded \in Nat
  /\ before \in 0 .. recorded
  /\ received \subseteq Nat

(* A publisher holds a batch only while its call lasts.                    *)
BatchInCall == \A p \in Publishers : ~sending[p] => batch[p] = <<>>

(* Close's call lasts as long as Close is flushing, and carries what was   *)
(* recorded before, not yet received and not held by another call.         *)
CloseCarries ==
  /\ sending["close"] => closed = "flushing"
  /\ closed = "flushing" => 1 .. before \subseteq ToSet(batch["close"]) \union received \union held

IInv == TypeInv /\ BatchInCall /\ NothingLost /\ CloseCarries /\ CloseFlushes

-----------------------------------------------------------------------------
(* What Append and Restore's concatenation put into the buffer.            *)

(* An empty buffer holds no metric.                                        *)
LEMMA ToSetEmpty == ToSet(<<>>) = {}
BY DEF ToSet

(* Appending to the buffer adds one metric and loses none.                 *)
LEMMA ToSetAppend ==
  ASSUME NEW s \in Seq(Nat), NEW n \in Nat
  PROVE  ToSet(Append(s, n)) = ToSet(s) \union {n}
BY AppendProperties DEF ToSet

(* Putting a batch back in front of the buffer keeps both.                 *)
LEMMA ToSetConcat ==
  ASSUME NEW s \in Seq(Nat), NEW t \in Seq(Nat)
  PROVE  ToSet(s \o t) = ToSet(s) \union ToSet(t)
<1>1. DOMAIN s = 1 .. Len(s) /\ DOMAIN t = 1 .. Len(t) /\ Len(s) \in Nat /\ Len(t) \in Nat
  BY LenProperties
<1>2. DOMAIN (s \o t) = 1 .. Len(s) + Len(t)
  BY ConcatProperties, LenProperties
<1>3. \A i \in 1 .. Len(s) + Len(t) : (s \o t)[i] = IF i <= Len(s) THEN s[i] ELSE t[i - Len(s)]
  BY ConcatProperties
<1>4. ASSUME NEW x \in ToSet(s \o t) PROVE x \in ToSet(s) \union ToSet(t)
  BY <1>1, <1>2, <1>3 DEF ToSet
<1>5. ASSUME NEW x \in ToSet(s) PROVE x \in ToSet(s \o t)
  <2>1. PICK i \in 1 .. Len(s) : x = s[i]
    BY <1>1 DEF ToSet
  <2> QED BY <1>1, <1>2, <1>3, <2>1 DEF ToSet
<1>6. ASSUME NEW x \in ToSet(t) PROVE x \in ToSet(s \o t)
  <2>1. PICK i \in 1 .. Len(t) : x = t[i]
    BY <1>1 DEF ToSet
  <2>2. Len(s) + i \in 1 .. Len(s) + Len(t) /\ (s \o t)[Len(s) + i] = t[i]
    BY <1>1, <1>3
  <2> QED BY <1>2, <2>1, <2>2 DEF ToSet
<1> QED BY <1>4, <1>5, <1>6

-----------------------------------------------------------------------------
(* The two halves of Publish, whoever calls it: what Take takes is in the  *)
(* buffer or in p's batch; what a call ends with is received or restored.  *)

(* Publish takes the whole buffer as its batch: nothing that was buffered  *)
(* disappears.                                                             *)
LEMMA TakeKeeps ==
  ASSUME TypeInv, BatchInCall, NEW p \in Publishers, Take(p)
  PROVE  /\ data' \in Seq(Nat)
         /\ batch' \in [Publishers -> Seq(Nat)]
         /\ sending' \in [Publishers -> BOOLEAN]
         /\ BatchInCall'
         /\ Buffered \subseteq Buffered'
         /\ \A q \in Publishers \ {p} : batch'[q] = batch[q] /\ sending'[q] = sending[q]
         /\ IF NothingToSend THEN ~sending'[p] ELSE sending'[p] /\ batch'[p] = data
<1>1. data' = <<>> /\ data' \in Seq(Nat)
  BY DEF Take, LeftBehind
<1>2. CASE NothingToSend
  <2>1. ToSet(data) = {}
    BY <1>2, EmptySeq, ToSetEmpty DEF TypeInv, NothingToSend
  <2>2. UNCHANGED <<batch, sending>>
    BY <1>2 DEF Take
  <2> QED BY <1>1, <1>2, <2>1, <2>2 DEF TypeInv, BatchInCall, Buffered, Take
<1>3. CASE ~NothingToSend
  <2>1. /\ ~sending[p]
        /\ batch' = [batch EXCEPT ![p] = data]
        /\ sending' = [sending EXCEPT ![p] = TRUE]
    BY <1>3 DEF Take
  <2>2. batch[p] = <<>>
    BY <2>1 DEF BatchInCall
  <2>3. \A q \in Publishers : batch'[q] = IF q = p THEN data ELSE batch[q]
    BY <2>1 DEF TypeInv
  <2>4. Buffered \subseteq Buffered'
    <3>1. ToSet(data) \subseteq Buffered'
      BY <2>3 DEF Buffered
    <3>2. ASSUME NEW q \in Publishers PROVE ToSet(batch[q]) \subseteq Buffered'
      BY <2>2, <2>3, ToSetEmpty DEF Buffered
    <3> QED BY <3>1, <3>2 DEF Buffered
  <2>5. BatchInCall'
    BY <2>1 DEF BatchInCall, TypeInv
  <2> QED BY <1>1, <1>3, <2>1, <2>3, <2>4, <2>5 DEF TypeInv
<1> QED BY <1>2, <1>3

(* When the call of a Publish ends its batch is received or back in the    *)
(* buffer.                                                                 *)
LEMMA CallEndsKeeps ==
  ASSUME TypeInv, BatchInCall, NEW p \in Publishers, NEW ok \in BOOLEAN, CallEnds(p, ok)
  PROVE  /\ data' \in Seq(Nat)
         /\ batch' \in [Publishers -> Seq(Nat)]
         /\ sending' \in [Publishers -> BOOLEAN]
         /\ received' \subseteq Nat
         /\ BatchInCall'
         /\ Buffered \union received \subseteq Buffered' \union received'
         /\ \A q \in Publishers \ {p} : batch'[q] = batch[q] /\ sending'[q] = sending[q]
         /\ received \subseteq received'
         /\ ok => ToSet(batch[p]) \subseteq received'
         /\ ~sending'[p]
<1>1. /\ sending' = [sending EXCEPT ![p] = FALSE]
      /\ batch' = [batch EXCEPT ![p] = <<>>]
      /\ data' = IF ok THEN data ELSE batch[p] \o data
      /\ received \subseteq received'
      /\ received' \subseteq received \union ToSet(batch[p])
      /\ ok => ToSet(batch[p]) \subseteq received'
  BY DEF CallEnds, Restore
<1>2. batch[p] \in Seq(Nat)
  BY DEF TypeInv
<1>3. data' \in Seq(Nat) /\ ToSet(data) \subseteq ToSet(data')
  BY <1>1, <1>2, ConcatProperties, ToSetConcat DEF TypeInv
<1>4. ToSet(batch[p]) \subseteq ToSet(data') \union received'
  BY <1>1, <1>2, ToSetConcat DEF TypeInv
<1>5. ToSet(batch[p]) \subseteq Nat
  BY <1>2, LenProperties DEF ToSet
<1>6. received' \subseteq Nat
  BY <1>1, <1>5 DEF TypeInv
<1>7. batch' \in [Publishers -> Seq(Nat)] /\ sending' \in [Publishers -> BOOLEAN]
  BY <1>1 DEF TypeInv
<1>8. \A q \in Publishers : batch'[q] = IF q = p THEN <<>> ELSE batch[q]
  BY <1>1 DEF TypeInv
<1>9. \A q \in Publishers : sending'[q] = IF q = p THEN FALSE ELSE sending[q]
  BY <1>1 DEF TypeInv
<1>10. BatchInCall'
  BY <1>8, <1>9 DEF BatchInCall
<1>11. Buffered \union received \subseteq Buffered' \union received'
  <2>1. ASSUME NEW q \in Publishers PROVE ToSet(batch[q]) \subseteq Buffered' \union received'
    BY <1>4, <1>8 DEF Buffered
  <2> QED BY <1>1, <1>3, <2>1 DEF Buffered
<1> QED BY <1>1, <1>3, <1>6, <1>7, <1>8, <1>9, <1>10, <1>11

-----------------------------------------------------------------------------
(* At first nothing is recorded.                                           *)
LEMMA Initially == Init => IInv
<1> SUFFICES ASSUME Init PROVE IInv
  OBVIOUS
<1>1. TypeInv
  <2>1. <<>> \in Seq(Nat)
    OBVIOUS
  <2>2. batch \in [Publishers -> Seq(Nat)] /\ sending \in [Publishers -> BOOLEAN]
    BY <2>1, Zenon DEF Init
  <2> QED BY <2>1, <2>2 DEF Init, TypeInv
<1>2. BatchInCall
  BY DEF Init, BatchInCall
<1>3. "close" \in Publishers
  BY DEF Publishers
<1>4. NothingLost /\ CloseFlushes
  BY DEF Init, NothingLost, CloseFlushes
<1>5. ~sending["close"] /\ closed = "no"
  BY <1>3 DEF Init
<1>6. CloseCarries
  BY <1>5 DEF CloseCarries
<1> QED BY <1>1, <1>2, <1>4, <1>6 DEF IInv

(* A Publish of the loop or of a user leaves Close's call alone.           *)
LEMMA OthersPublish ==
  ASSUME IInv, NEW p \in Publishers \ {"close"},
         UNCHANGED <<closed, recorded, histVars>>,
         \/ Take(p) /\ UNCHANGED received
         \/ \E ok \in BOOLEAN : CallEnds(p, ok)
  PROVE  IInv'
<1> USE DEF IInv
<1>1. /\ data' \in Seq(Nat)
      /\ batch' \in [Publishers -> Seq(Nat)]
      /\ sending' \in [Publishers -> BOOLEAN]
      /\ received' \subseteq Nat
      /\ BatchInCall'
      /\ Buffered \union received \subseteq Buffered' \union received'
      /\ received \subseteq received'
      /\ \A q \in Publishers \ {p} : batch'[q] = batch[q] /\ sending'[q] = sending[q]
  BY TakeKeeps, CallEndsKeeps DEF TypeInv
<1>2. TypeInv'
  BY <1>1 DEF TypeInv, histVars
<1>3. NothingLost'
  BY <1>1 DEF NothingLost
<1>4. batch'["close"] = batch["close"] /\ sending'["close"] = sending["close"]
  BY <1>1 DEF Publishers
<1>5. CloseCarries' /\ CloseFlushes'
  BY <1>1, <1>4 DEF CloseCarries, CloseFlushes, histVars
<1> QED BY <1>1, <1>2, <1>3, <1>5

(* Recording a metric appends it to the buffer.                            *)
LEMMA RecordStep ==
  ASSUME IInv, Record PROVE IInv'
<1> USE DEF IInv, Record, histVars
<1>1. data' \in Seq(Nat) /\ ToSet(data') = ToSet(data) \union {recorded + 1}
  BY AppendProperties, ToSetAppend DEF TypeInv
<1>2. TypeInv'
  BY <1>1 DEF TypeInv
<1>3. 1 .. recorded' = 1 .. recorded \union {recorded + 1}
  BY DEF TypeInv
<1>4. Buffered' = Buffered \union {recorded + 1}
  BY <1>1 DEF Buffered
<1>5. NothingLost'
  BY <1>3, <1>4 DEF NothingLost
<1>6. BatchInCall' /\ CloseCarries' /\ CloseFlushes'
  BY DEF BatchInCall, CloseCarries, CloseFlushes
<1> QED BY <1>2, <1>5, <1>6

(* Closing stop moves no metric.                                           *)
LEMMA CloseStep ==
  ASSUME IInv, Close PROVE IInv'
BY DEF Close, IInv, TypeInv, BatchInCall, NothingLost, Buffered, CloseCarries, CloseFlushes

(* The flush takes the whole buffer: what it leaves of what was recorded   *)
(* before is received or held by another call.                             *)
LEMMA CloseFlushStep ==
  ASSUME IInv, CloseFlush PROVE IInv'
<1> USE DEF IInv
<1>1. "close" \in Publishers /\ Take("close")
  BY DEF Publishers, CloseFlush
<1>2. /\ data' \in Seq(Nat)
      /\ batch' \in [Publishers -> Seq(Nat)]
      /\ sending' \in [Publishers -> BOOLEAN]
      /\ BatchInCall'
      /\ Buffered \subseteq Buffered'
      /\ IF NothingToSend THEN ~sending'["close"] ELSE sending'["close"] /\ batch'["close"] = data
  BY <1>1, TakeKeeps
<1>3. /\ UNCHANGED <<recorded, received, before>>
      /\ closed' = IF NothingToSend THEN "returned" ELSE "flushing"
      /\ Buffered = ToSet(data) \union held'
  BY DEF CloseFlush, Buffered
<1>4. TypeInv'
  BY <1>2, <1>3 DEF TypeInv
<1>5. NothingLost'
  BY <1>2, <1>3 DEF NothingLost
<1>6. 1 .. before' \subseteq ToSet(data) \union received' \union held'
  <2>1. 1 .. before \subseteq 1 .. recorded
    BY DEF TypeInv
  <2> QED BY <1>3, <2>1 DEF NothingLost
<1>7. NothingToSend => ToSet(data) = {}
  BY EmptySeq, ToSetEmpty DEF TypeInv, NothingToSend
<1>8. CloseCarries'
  BY <1>2, <1>3, <1>6 DEF CloseCarries
<1>9. CloseFlushes'
  BY <1>3, <1>6, <1>7 DEF CloseFlushes
<1> QED BY <1>2, <1>4, <1>5, <1>8, <1>9

(* Close returns after its flush, whatever the outcome of the call.        *)
LEMMA CloseDoneStep ==
  ASSUME IInv, NEW ok \in BOOLEAN, CloseDone(ok) PROVE IInv'
<1> USE DEF IInv
<1>1. "close" \in Publishers /\ CallEnds("close", ok)
  BY DEF Publishers, CloseDone
<1>2. /\ data' \in Seq(Nat)
      /\ batch' \in [Publishers -> Seq(Nat)]
      /\ sending' \in [Publishers -> BOOLEAN]
      /\ received' \subseteq Nat
      /\ BatchInCall'
      /\ Buffered \union received \subseteq Buffered' \union received'
      /\ received \subseteq received'
      /\ ok => ToSet(batch["close"]) \subseteq received'
      /\ ~sending'["close"]
  BY <1>1, CallEndsKeeps
<1>3. /\ closed' = "returned" /\ flushed' = ok
      /\ UNCHANGED <<recorded, before, held>>
  BY DEF CloseDone
<1>4. TypeInv'
  BY <1>2, <1>3 DEF TypeInv
<1>5. NothingLost'
  BY <1>2, <1>3 DEF NothingLost
<1>6. closed = "flushing"
  BY <1>1 DEF CallEnds, CloseCarries
<1>7. CloseCarries'
  BY <1>2, <1>3 DEF CloseCarries
<1>8. CloseFlushes'
  BY <1>2, <1>3, <1>6 DEF CloseCarries, CloseFlushes
<1> QED BY <1>2, <1>4, <1>5, <1>7, <1>8

(* Every step preserves the invariant.                                     *)
LEMMA Step == IInv /\ [Next]_vars => IInv'
<1> SUFFICES ASSUME IInv, [Next]_vars PROVE IInv'
  OBVIOUS
<1>0. "loop" \in Publishers \ {"close"} /\ Users \subseteq Publishers \ {"close"}
  BY MetricsAssumption DEF Publishers
<1>1. CASE Record
  BY <1>1, RecordStep
<1>2. CASE LoopTick
  BY <1>0, <1>2, OthersPublish DEF LoopTick
<1>3. CASE LoopStops
  BY <1>3 DEF LoopStops, histVars, IInv, TypeInv, BatchInCall, NothingLost, Buffered, CloseCarries, CloseFlushes
<1>4. CASE Close \/ CloseFlush
  BY <1>4, CloseStep, CloseFlushStep
<1>5. ASSUME NEW ok \in BOOLEAN, LoopDone(ok) PROVE IInv'
  BY <1>0, <1>5, OthersPublish DEF LoopDone
<1>6. ASSUME NEW ok \in BOOLEAN, CloseDone(ok) PROVE IInv'
  BY <1>6, CloseDoneStep
<1>7. ASSUME NEW p \in Users, UserPublish(p) PROVE IInv'
  BY <1>0, <1>7, OthersPublish DEF UserPublish
<1>8. ASSUME NEW p \in Users, NEW ok \in BOOLEAN, UserDone(p, ok) PROVE IInv'
  BY <1>0, <1>8, OthersPublish DEF UserDone
<1>9. CASE UNCHANGED vars
  BY <1>9 DEF vars, histVars, IInv, TypeInv, BatchInCall, NothingLost, Buffered, CloseCarries, CloseFlushes
<1> QED BY <1>1, <1>2, <1>3, <1>4, <1>5, <1>6, <1>7, <1>8, <1>9 DEF Next

(* IInv holds throughout: where the metrics of the provider are while      *)
(* calls of Publish and Close overlap.                                     *)
THEOREM Invariance == Spec => []IInv
BY Initially, Step, PTL DEF Spec

(* Provider.Publish takes the buffer, sends it and puts it back when the   *)
(* call fails: no metric recorded is ever lost, for any number of          *)
(* overlapping callers.                                                    *)
THEOREM NoMetricLost == Spec => []NothingLost
<1>1. IInv => NothingLost
  BY DEF IInv
<1> QED BY <1>1, Invariance, PTL

(* Provider.Close returned and its flush succeeded: everything recorded    *)
(* before it was called has been received, or was held by a call of        *)
(* Publish that overlapped the flush.                                      *)
THEOREM FlushedOnClose == Spec => []CloseFlushes
<1>1. IInv => CloseFlushes
  BY DEF IInv
<1> QED BY <1>1, Invariance, PTL
=============================================================================
