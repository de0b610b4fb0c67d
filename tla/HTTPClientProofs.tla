--------------------------- MODULE HTTPClientProofs ---------------------------
(***************************************************************************)
(* Proofs about HTTPClient: the circuit breaker, what is retried, how long *)
(* a call lasts and what it returns, for any number of callers and any     *)
(* time-outs, intervals and requests.                                      *)
(***************************************************************************)
EXTENDS HTTPClient, TLAPS

Under == {"attempt", "send", "flight", "wait"}

TypeInv ==
  /\ req \in Reqs
  /\ pc \in [Calls -> Under \union {"idle", "done"}]
  /\ ctx \in [Calls -> BOOLEAN]
  /\ flight \in [Calls -> Nat] /\ timer \in [Calls -> Nat]
  /\ interval \in [Calls -> Nat] /\ elapsed \in [Calls -> Nat]
  /\ result \in [Calls -> Errors] /\ last \in [Calls -> Errors]
  /\ leaks \in [Calls -> Nat] /\ sent \in [Calls -> Nat]

(* The breaker cools down as long as it must, and a request that was sent  *)
(* all the same leaves its caller with none that is decided on.            *)
BreakerInv ==
  /\ hot \in 0 .. CoolDown /\ cool = hot
  /\ ~NoRateLimitBackoff =>
       \A k \in Calls : leaks[k] > 0 => hot > 0 /\ leaks[k] = 1 /\ pc[k] # "send"

Transient(e) == e.kind = "do" \/ e.code >= 500

(* The first attempt is that of a call which has seen no response.         *)
RetryInv ==
  \A k \in Calls :
    /\ pc[k] \in {"attempt", "send"} => (last[k] = Nil /\ sent[k] = 0) \/ Transient(last[k])
    /\ pc[k] = "flight" => (last[k] = Nil /\ sent[k] <= 1) \/ Transient(last[k])
    /\ pc[k] = "wait" => Transient(last[k])

(* The policy hands out no wait that would end after the limit, so that    *)
(* every attempt begins before it.                                         *)
TimeInv ==
  \A k \in Calls :
    /\ flight[k] <= RequestTimeout
    /\ Limit(k) > 0 =>
         /\ elapsed[k] <= Limit(k) + RequestTimeout
         /\ pc[k] \in {"attempt", "send"} => elapsed[k] <= Limit(k)
         /\ pc[k] = "flight" => elapsed[k] <= Limit(k) + flight[k]
         /\ pc[k] = "wait" => elapsed[k] + timer[k] <= Limit(k)

IInv == TypeInv /\ BreakerInv /\ RetryInv /\ TimeInv /\ ResultIsLastAttempt

-----------------------------------------------------------------------------
(* The limit of a call is that of its request or of the client.            *)
LEMMA Limits ==
  ASSUME TypeInv
  PROVE  \A k \in Calls : Limit(k) \in Nat /\ maxElapsed(k) = Limit(k)
<1> SUFFICES ASSUME NEW k \in Calls PROVE Limit(k) \in Nat /\ maxElapsed(k) = Limit(k)
  OBVIOUS
<1>1. req[k].maxElapsedTime \in Nat /\ ClientTimeout \in Nat
  BY ReqAssumption DEF TypeInv
<1> QED BY <1>1 DEF Limit, maxElapsed

(* The limit of a call does not change while it lasts.                     *)
LEMMA LimitSame ==
  ASSUME UNCHANGED req PROVE \A k \in Calls : Limit(k)' = Limit(k)
BY DEF Limit

(* The errors of attempts, and what they become when the call returns.     *)
LEMMA ErrorTypes ==
  /\ \A kind \in {"nil", "nocontent", "decoder", "request", "do", "ctx", "backoff"} : Err(kind) \in Errors
  /\ Nil \in Errors
  /\ \A e \in Errors : doneRetrying(e) \in Errors
<1>1. \A kind \in {"nil", "nocontent", "decoder", "request", "do", "ctx", "backoff"} : Err(kind) \in Errors
  BY DEF Err, Errors
<1>2. Nil \in Errors
  BY <1>1 DEF Nil
<1>3. \A e \in Errors : doneRetrying(e) \in Errors
  BY DEF doneRetrying, Errors
<1> QED BY <1>1, <1>2, <1>3

(* What an attempt may end with.                                           *)
Attempted(e) ==
  e \in Errors /\ e.done = FALSE /\ e.kind # "ctx" /\ (e.code >= 500 => e.kind = "http")

(* What extractHTTPError makes of a status is an error that an attempt may *)
(* return.                                                                 *)
LEMMA Responses ==
  ASSUME NEW code \in Statuses PROVE Attempted(extractHTTPError(code))
<1>1. code \in Int
  BY ReqAssumption
<1>2. extractHTTPError(code) \in {HTTPErr(code), Err("nocontent"), Nil}
  <2>1. CASE code >= 300
    BY <2>1, Zenon DEF extractHTTPError
  <2>2. CASE ~(code >= 300) /\ code = 204
    BY <2>2, Zenon DEF extractHTTPError
  <2>3. CASE ~(code >= 300) /\ code # 204
    BY <2>3, Zenon DEF extractHTTPError
  <2> QED BY <2>1, <2>2, <2>3
<1>3. Attempted(HTTPErr(code))
  BY DEF Attempted, HTTPErr, Errors
<1>4. Attempted(Err("nocontent")) /\ Attempted(Nil)
  BY DEF Attempted, Err, Nil, Errors
<1> QED BY <1>2, <1>3, <1>4

(* backoff.Retry after an attempt: the call returns the error, or that of  *)
(* its context, or it waits within its limit after a transient error.      *)
LEMMA AttemptOutcome ==
  ASSUME TypeInv, NEW k \in Calls, NEW e \in Errors, AttemptEnds(k, e)
  PROVE  /\ last' = [last EXCEPT ![k] = e]
         /\ UNCHANGED <<ctx, flight, elapsed, leaks, sent>>
         /\ interval' \in [Calls -> Nat]
         /\ \/ /\ pc' = [pc EXCEPT ![k] = "done"] /\ timer' = timer
               /\ \/ result' = [result EXCEPT ![k] = doneRetrying(e)]
                  \/ ctx[k] /\ result' = [result EXCEPT ![k] = doneRetrying(Err("ctx"))]
            \/ /\ pc' = [pc EXCEPT ![k] = "wait"] /\ result' = result
               /\ Transient(e)
               /\ \E n \in Nat : /\ timer' = [timer EXCEPT ![k] = n]
                                 /\ Limit(k) > 0 => elapsed[k] + n <= Limit(k)
<1>1. /\ last' = [last EXCEPT ![k] = e]
      /\ UNCHANGED <<ctx, flight, elapsed, leaks, sent>>
  BY DEF AttemptEnds
<1>2. interval[k] \in Nat /\ Grow(interval[k]) \in Nat
  BY ReqAssumption DEF TypeInv, Grow
<1>3. interval' \in [Calls -> Nat]
  <2>1. interval' = interval \/ interval' = [interval EXCEPT ![k] = Grow(interval[k])]
    BY DEF AttemptEnds
  <2> QED BY <1>2, <2>1 DEF TypeInv
<1>4. ~Permanent(e) => Transient(e)
  BY DEF Permanent, Transient
<1>5. CASE \E next \in Randomised(interval[k]) :
             ~Stops(k, next) /\ pc' = [pc EXCEPT ![k] = "wait"] /\ timer' = [timer EXCEPT ![k] = next]
                /\ UNCHANGED result /\ ~Permanent(e)
  <2>1. PICK next \in Randomised(interval[k]) :
             ~Stops(k, next) /\ pc' = [pc EXCEPT ![k] = "wait"] /\ timer' = [timer EXCEPT ![k] = next]
                /\ UNCHANGED result /\ ~Permanent(e)
    BY <1>5
  <2>2. next \in Nat
    BY <1>2 DEF Randomised
  <2>3. Limit(k) > 0 => elapsed[k] + next <= Limit(k)
    BY <2>1, <2>2, Limits DEF Stops, TypeInv
  <2> QED BY <1>1, <1>3, <1>4, <2>1, <2>2, <2>3
<1>6. CASE \/ pc' = [pc EXCEPT ![k] = "done"] /\ result' = [result EXCEPT ![k] = doneRetrying(e)] /\ timer' = timer
           \/ /\ pc' = [pc EXCEPT ![k] = "done"] /\ ctx[k] /\ timer' = timer
              /\ result' = [result EXCEPT ![k] = doneRetrying(Err("ctx"))]
  BY <1>1, <1>3, <1>6
<1>7. \/ \E next \in Randomised(interval[k]) :
             ~Stops(k, next) /\ pc' = [pc EXCEPT ![k] = "wait"] /\ timer' = [timer EXCEPT ![k] = next]
                /\ UNCHANGED result /\ ~Permanent(e)
      \/ pc' = [pc EXCEPT ![k] = "done"] /\ result' = [result EXCEPT ![k] = doneRetrying(e)] /\ timer' = timer
      \/ /\ pc' = [pc EXCEPT ![k] = "done"] /\ ctx[k] /\ timer' = timer
         /\ result' = [result EXCEPT ![k] = doneRetrying(Err("ctx"))]
  BY DEF AttemptEnds, Return, CtxStops
<1> QED BY <1>5, <1>6, <1>7

(* Whatever an attempt ends with, and whether or not it was a 429, the     *)
(* invariant holds again.                                                  *)
LEMMA AttemptStep ==
  ASSUME IInv, NEW k \in Calls, NEW e, Attempted(e), AttemptEnds(k, e), pc[k] \in {"send", "flight"},
         UNCHANGED req, hot' \in 0 .. CoolDown, cool' = hot', hot <= hot'
  PROVE  IInv'
<1> USE DEF IInv
<1>0. e \in Errors
  BY DEF Attempted
<1>1. /\ last' = [last EXCEPT ![k] = e]
      /\ UNCHANGED <<ctx, flight, elapsed, leaks, sent>>
      /\ interval' \in [Calls -> Nat]
  BY <1>0, AttemptOutcome
<1>2. \/ /\ pc' = [pc EXCEPT ![k] = "done"] /\ timer' = timer
         /\ \/ result' = [result EXCEPT ![k] = doneRetrying(e)]
            \/ ctx[k] /\ result' = [result EXCEPT ![k] = doneRetrying(Err("ctx"))]
      \/ /\ pc' = [pc EXCEPT ![k] = "wait"] /\ result' = result
         /\ Transient(e)
         /\ \E n \in Nat : /\ timer' = [timer EXCEPT ![k] = n]
                           /\ Limit(k) > 0 => elapsed[k] + n <= Limit(k)
  BY <1>0, AttemptOutcome
<1>3. pc' = [pc EXCEPT ![k] = "done"] \/ (pc' = [pc EXCEPT ![k] = "wait"] /\ Transient(e))
  BY <1>2
<1>4. TypeInv'
  <2>1. pc' \in [Calls -> Under \union {"idle", "done"}]
    BY <1>3 DEF TypeInv, Under
  <2>2. timer' \in [Calls -> Nat]
    BY <1>2 DEF TypeInv
  <2>3. result' \in [Calls -> Errors] /\ last' \in [Calls -> Errors]
    BY <1>0, <1>1, <1>2, ErrorTypes DEF TypeInv
  <2> QED BY <1>1, <2>1, <2>2, <2>3 DEF TypeInv
<1>5. BreakerInv'
  BY <1>1, <1>3, ReqAssumption DEF BreakerInv, TypeInv
<1>6. RetryInv'
  BY <1>1, <1>3 DEF RetryInv, TypeInv
<1>7. TimeInv'
  <2>1. \A j \in Calls : Limit(j)' = Limit(j) /\ Limit(j) \in Nat
    BY LimitSame, Limits
  <2>2. SUFFICES ASSUME NEW j \in Calls, Limit(j) > 0
                 PROVE  /\ pc'[j] \in {"attempt", "send"} => elapsed[j] <= Limit(j)
                        /\ pc'[j] = "flight" => elapsed[j] <= Limit(j) + flight[j]
                        /\ pc'[j] = "wait" => elapsed[j] + timer'[j] <= Limit(j)
    BY <1>1, <2>1 DEF TimeInv
  <2>3. CASE j # k
    BY <1>2, <2>2, <2>3 DEF TimeInv, TypeInv
  <2>4. CASE j = k
    BY <1>2, <2>2, <2>4 DEF TypeInv
  <2> QED BY <2>3, <2>4
<1>8. ResultIsLastAttempt'
  <2>1. SUFFICES ASSUME NEW j \in Calls, pc'[j] = "done"
                 PROVE  /\ result'[j].kind \notin {"ctx", "backoff", "request"} => [result'[j] EXCEPT !.done = FALSE] = last'[j]
                        /\ result'[j].kind = "ctx" => ctx'[j]
                        /\ result'[j].code >= 500 => ~IsWarning(result'[j])
    BY DEF ResultIsLastAttempt, IsWarning
  <2>2. CASE j # k
    <3>1. pc[j] = "done" /\ result'[j] = result[j] /\ last'[j] = last[j] /\ ctx'[j] = ctx[j]
      BY <1>1, <1>2, <2>1, <2>2 DEF TypeInv
    <3> QED BY <3>1 DEF ResultIsLastAttempt
  <2>3. CASE j = k
    <3>1. last'[k] = e
      BY <1>1 DEF TypeInv
    <3>2. result'[k] = doneRetrying(e) \/ (ctx[k] /\ result'[k] = doneRetrying(Err("ctx")))
      BY <1>2, <2>1, <2>3 DEF TypeInv
    <3>3. CASE result'[k] = doneRetrying(e)
      <4>1. [doneRetrying(e) EXCEPT !.done = FALSE] = e
        BY DEF doneRetrying, Attempted, Errors
      <4>2. e.code >= 500 => ~IsWarning(doneRetrying(e))
        BY ReqAssumption DEF doneRetrying, Attempted, Errors, IsWarning
      <4>3. doneRetrying(e).code = e.code /\ doneRetrying(e).kind = e.kind
        BY DEF doneRetrying, Attempted, Errors
      <4>4. e.kind # "ctx"
        BY DEF Attempted
      <4> QED BY <1>1, <2>3, <3>1, <3>3, <4>1, <4>2, <4>3, <4>4
    <3>4. CASE ctx[k] /\ result'[k] = doneRetrying(Err("ctx"))
      BY <1>1, <2>3, <3>4 DEF doneRetrying, Err
    <3> QED BY <3>2, <3>3, <3>4
  <2> QED BY <2>2, <2>3
<1> QED BY <1>4, <1>5, <1>6, <1>7, <1>8

-----------------------------------------------------------------------------
(* Call begins anew.                                                       *)
LEMMA StartStep ==
  ASSUME IInv, NEW k \in Calls, UNCHANGED req, Start(k) PROVE IInv'
<1> USE DEF IInv, Start
<1>0. Nil \in Errors /\ InitialInterval \in Nat
  BY ErrorTypes, ReqAssumption
<1>1. TypeInv'
  <2>1. ctx' \in [Calls -> BOOLEAN]
    BY Zenon DEF TypeInv
  <2>2. pc' \in [Calls -> Under \union {"idle", "done"}]
    BY DEF TypeInv, Under
  <2> QED BY <1>0, <2>1, <2>2 DEF TypeInv
<1>2. BreakerInv'
  BY DEF BreakerInv, TypeInv
<1>3. RetryInv'
  BY DEF RetryInv, TypeInv
<1>4. TimeInv'
  <2>1. \A j \in Calls : Limit(j)' = Limit(j) /\ Limit(j) \in Nat
    BY LimitSame, Limits
  <2> QED BY <2>1, ReqAssumption DEF TimeInv, TypeInv
<1>5. ResultIsLastAttempt'
  <2>1. SUFFICES ASSUME NEW j \in Calls, pc'[j] = "done"
                 PROVE  /\ result'[j].kind \notin {"ctx", "backoff", "request"} => [result'[j] EXCEPT !.done = FALSE] = last'[j]
                        /\ result'[j].kind = "ctx" => ctx'[j]
                        /\ result'[j].code >= 500 => ~IsWarning(result'[j])
    BY DEF ResultIsLastAttempt, IsWarning
  <2>2. j # k
    BY <2>1 DEF TypeInv
  <2>3. pc[j] = "done" /\ result'[j] = result[j] /\ last'[j] = last[j] /\ ctx'[j] = ctx[j]
    BY <2>1, <2>2 DEF TypeInv
  <2> QED BY <2>3 DEF ResultIsLastAttempt
<1> QED BY <1>1, <1>2, <1>3, <1>4, <1>5

(* The call returns without an attempt: the breaker refused it, its        *)
(* request could not be built, or its context was cancelled while it       *)
(* waited.                                                                 *)
LEMMA ReturnStep ==
  ASSUME IInv, NEW k \in Calls, UNCHANGED req,
         AttemptRefused(k) \/ NewReqFails(k) \/ WaitCancelled(k)
  PROVE  IInv'
<1> USE DEF IInv
<1>0. /\ pc' = [pc EXCEPT ![k] = "done"]
      /\ UNCHANGED <<cool, ctx, flight, timer, interval, elapsed, last, hot, leaks, sent>>
      /\ \/ result' = [result EXCEPT ![k] = doneRetrying(Err("backoff"))]
         \/ result' = [result EXCEPT ![k] = doneRetrying(Err("request"))]
         \/ ctx[k] /\ result' = [result EXCEPT ![k] = doneRetrying(Err("ctx"))]
  BY DEF AttemptRefused, NewReqFails, WaitCancelled, Return, clocks, CtxStops
<1>1. TypeInv'
  <2>1. pc' \in [Calls -> Under \union {"idle", "done"}]
    BY <1>0 DEF TypeInv
  <2>2. result' \in [Calls -> Errors]
    BY <1>0, ErrorTypes DEF TypeInv
  <2> QED BY <1>0, <2>1, <2>2 DEF TypeInv
<1>2. BreakerInv' /\ RetryInv'
  BY <1>0 DEF BreakerInv, RetryInv, TypeInv
<1>3. TimeInv'
  <2>1. \A j \in Calls : Limit(j)' = Limit(j)
    BY LimitSame
  <2> QED BY <1>0, <2>1 DEF TimeInv, TypeInv
<1>4. ResultIsLastAttempt'
  <2>1. SUFFICES ASSUME NEW j \in Calls, pc'[j] = "done"
                 PROVE  /\ result'[j].kind \notin {"ctx", "backoff", "request"} => [result'[j] EXCEPT !.done = FALSE] = last'[j]
                        /\ result'[j].kind = "ctx" => ctx'[j]
                        /\ result'[j].code >= 500 => ~IsWarning(result'[j])
    BY DEF ResultIsLastAttempt, IsWarning
  <2>2. CASE j # k
    <3>1. pc[j] = "done" /\ result'[j] = result[j] /\ last'[j] = last[j] /\ ctx'[j] = ctx[j]
      BY <1>0, <2>1, <2>2 DEF TypeInv
    <3> QED BY <3>1 DEF ResultIsLastAttempt
  <2>3. CASE j = k
    <3>1. \/ result'[k] = Err("backoff") \/ result'[k] = Err("request")
          \/ ctx'[k] /\ result'[k] = Err("ctx")
      BY <1>0 DEF TypeInv, doneRetrying, Err
    <3> QED BY <2>3, <3>1 DEF Err
  <2> QED BY <2>2, <2>3
<1> QED BY <1>1, <1>2, <1>3, <1>4

(* The call goes on: an attempt passes the breaker, the request goes out,  *)
(* the back-off is over.                                                   *)
LEMMA GoesOnStep ==
  ASSUME IInv, NEW k \in Calls, UNCHANGED req, NewReq(k) \/ Do(k) \/ TimerFires(k)
  PROVE  IInv'
<1> USE DEF IInv
<1>0. UNCHANGED <<cool, hot, ctx, timer, interval, elapsed, result, last>>
  BY DEF NewReq, Do, TimerFires, clocks
<1>1. \/ /\ pc[k] = "attempt" /\ pc' = [pc EXCEPT ![k] = "send"]
         /\ UNCHANGED <<flight, leaks, sent>> /\ (NoRateLimitBackoff \/ ~(cool > 0))
      \/ /\ pc[k] = "send" /\ pc' = [pc EXCEPT ![k] = "flight"]
         /\ flight' = [flight EXCEPT ![k] = 0]
         /\ leaks' = [leaks EXCEPT ![k] = IF hot > 0 THEN @ + 1 ELSE @]
         /\ sent' = [sent EXCEPT ![k] = IF @ < 2 THEN @ + 1 ELSE @]
      \/ /\ pc[k] = "wait" /\ timer[k] = 0 /\ pc' = [pc EXCEPT ![k] = "attempt"]
         /\ UNCHANGED <<flight, leaks, sent>>
  BY DEF NewReq, Do, TimerFires, clocks, shouldBackoff
<1>2. TypeInv'
  <2>1. pc' \in [Calls -> Under \union {"idle", "done"}]
    BY <1>1 DEF TypeInv, Under
  <2>2. flight' \in [Calls -> Nat] /\ leaks' \in [Calls -> Nat] /\ sent' \in [Calls -> Nat]
    BY <1>1 DEF TypeInv
  <2> QED BY <1>0, <2>1, <2>2 DEF TypeInv
<1>3. BreakerInv'
  BY <1>0, <1>1 DEF BreakerInv, TypeInv
<1>4. RetryInv'
  BY <1>0, <1>1 DEF RetryInv, TypeInv
<1>5. TimeInv'
  <2>1. \A j \in Calls : Limit(j)' = Limit(j) /\ Limit(j) \in Nat
    BY LimitSame, Limits
  <2> QED BY <1>0, <1>1, <2>1, ReqAssumption DEF TimeInv, TypeInv
<1>6. ResultIsLastAttempt'
  <2>1. \A j \in Calls : pc'[j] = "done" => pc[j] = "done"
    BY <1>1 DEF TypeInv
  <2> QED BY <1>0, <2>1 DEF ResultIsLastAttempt, IsWarning
<1> QED BY <1>2, <1>3, <1>4, <1>5, <1>6

(* Cancelling the context changes nothing else.                            *)
LEMMA CancelStep ==
  ASSUME IInv, NEW k \in Calls, UNCHANGED req, Cancel(k) PROVE IInv'
<1> USE DEF IInv
<1>0. /\ UNCHANGED <<cool, pc, flight, timer, interval, elapsed, result, last, hot, leaks, sent>>
      /\ ctx' = [ctx EXCEPT ![k] = TRUE] /\ pc[k] # "done"
  BY DEF Cancel, clocks
<1>1. ctx' \in [Calls -> BOOLEAN]
  BY <1>0, Zenon DEF TypeInv
<1>2. TypeInv'
  BY <1>0, <1>1 DEF TypeInv
<1>3. BreakerInv' /\ RetryInv'
  BY <1>0 DEF BreakerInv, RetryInv
<1>4. TimeInv'
  BY <1>0, LimitSame DEF TimeInv
<1>5. ResultIsLastAttempt'
  <2>1. \A j \in Calls : pc[j] = "done" => ctx'[j] = ctx[j]
    BY <1>0 DEF TypeInv
  <2> QED BY <1>0, <2>1 DEF ResultIsLastAttempt, IsWarning
<1> QED BY <1>2, <1>3, <1>4, <1>5

(* Time passes, for every call at once.                                    *)
LEMMA TickStep ==
  ASSUME IInv, Tick PROVE IInv'
<1> USE DEF IInv
<1>0. /\ UNCHANGED <<req, pc, ctx, interval, result, last, sent>>
      /\ cool' = IF cool > 0 THEN cool - 1 ELSE 0
      /\ hot' = IF hot > 0 THEN hot - 1 ELSE 0
      /\ leaks' = [k \in Calls |-> IF hot <= 1 THEN 0 ELSE leaks[k]]
      /\ flight' = [k \in Calls |-> IF pc[k] = "flight" THEN flight[k] + 1 ELSE flight[k]]
      /\ timer' = [k \in Calls |-> IF pc[k] = "wait" THEN timer[k] - 1 ELSE timer[k]]
      /\ elapsed' = [k \in Calls |-> IF pc[k] \in {"flight", "wait"} /\ Limit(k) > 0 /\ elapsed[k] < Horizon
                                      THEN elapsed[k] + 1 ELSE elapsed[k]]
  BY DEF Tick
<1>1. /\ \A k \in Calls : pc[k] \notin {"attempt", "send"}
      /\ \A k \in Calls : pc[k] = "flight" => flight[k] < RequestTimeout
      /\ \A k \in Calls : pc[k] = "wait" => timer[k] > 0
  BY DEF Tick, Idles
<1>2. TypeInv'
  <2>1. flight' \in [Calls -> Nat] /\ elapsed' \in [Calls -> Nat] /\ leaks' \in [Calls -> Nat]
    BY <1>0 DEF TypeInv
  <2>2. timer' \in [Calls -> Nat]
    <3>1. ASSUME NEW k \in Calls PROVE (IF pc[k] = "wait" THEN timer[k] - 1 ELSE timer[k]) \in Nat
      <4>1. timer[k] \in Nat /\ (pc[k] = "wait" => timer[k] > 0)
        BY <1>1 DEF TypeInv
      <4> QED BY <4>1
    <3> QED BY <1>0, <3>1
  <2> QED BY <1>0, <2>1, <2>2 DEF TypeInv
<1>3. BreakerInv'
  BY <1>0, ReqAssumption DEF BreakerInv, TypeInv
<1>4. RetryInv'
  BY <1>0 DEF RetryInv
<1>5. TimeInv'
  <2>1. \A j \in Calls : Limit(j)' = Limit(j) /\ Limit(j) \in Nat
    BY <1>0, LimitSame, Limits
  <2>2. RequestTimeout \in Nat
    BY ReqAssumption
  <2>3. SUFFICES ASSUME NEW j \in Calls
                 PROVE  /\ flight'[j] <= RequestTimeout
                        /\ Limit(j) > 0 =>
                             /\ elapsed'[j] <= Limit(j) + RequestTimeout
                             /\ pc[j] = "flight" => elapsed'[j] <= Limit(j) + flight'[j]
                             /\ pc[j] = "wait" => elapsed'[j] + timer'[j] <= Limit(j)
    BY <1>0, <1>1, <2>1 DEF TimeInv
  <2>4. /\ flight[j] \in Nat /\ timer[j] \in Nat /\ elapsed[j] \in Nat
        /\ flight'[j] = IF pc[j] = "flight" THEN flight[j] + 1 ELSE flight[j]
        /\ timer'[j] = IF pc[j] = "wait" THEN timer[j] - 1 ELSE timer[j]
        /\ elapsed'[j] = elapsed[j] \/ (pc[j] \in {"flight", "wait"} /\ elapsed'[j] = elapsed[j] + 1)
    BY <1>0 DEF TypeInv
  <2>5. /\ flight[j] <= RequestTimeout /\ Limit(j) \in Nat
        /\ pc[j] = "flight" => flight[j] < RequestTimeout
        /\ Limit(j) > 0 =>
             /\ elapsed[j] <= Limit(j) + RequestTimeout
             /\ pc[j] = "flight" => elapsed[j] <= Limit(j) + flight[j]
             /\ pc[j] = "wait" => elapsed[j] + timer[j] <= Limit(j)
    BY <1>1, <2>1 DEF TimeInv
  <2>6. CASE pc[j] = "flight"
    BY <2>2, <2>4, <2>5, <2>6
  <2>7. CASE pc[j] = "wait"
    <3>1. timer[j] > 0
      BY <1>1, <2>7
    <3> QED BY <2>2, <2>4, <2>5, <2>7, <3>1
  <2>8. CASE pc[j] \notin {"flight", "wait"}
    BY <2>4, <2>5, <2>8
  <2> QED BY <2>6, <2>7, <2>8
<1>6. ResultIsLastAttempt'
  BY <1>0 DEF ResultIsLastAttempt, IsWarning
<1> QED BY <1>2, <1>3, <1>4, <1>5, <1>6

-----------------------------------------------------------------------------
(* Initially no call was made.                                             *)
LEMMA Initially == Init => IInv
<1> SUFFICES ASSUME Init PROVE IInv
  OBVIOUS
<1>1. TypeInv
  <2>1. ctx \in [Calls -> BOOLEAN]
    BY Zenon DEF Init
  <2>2. pc \in [Calls -> Under \union {"idle", "done"}]
    BY DEF Init
  <2> QED BY <2>1, <2>2, ErrorTypes, ReqAssumption DEF Init, TypeInv
<1>2. BreakerInv /\ RetryInv /\ ResultIsLastAttempt
  BY ReqAssumption DEF Init, BreakerInv, RetryInv, ResultIsLastAttempt
<1>3. TimeInv
  <2>1. \A k \in Calls : Limit(k) \in Nat /\ flight[k] = 0 /\ elapsed[k] = 0 /\ pc[k] = "idle"
    BY <1>1, Limits DEF Init
  <2>2. RequestTimeout \in Nat
    BY ReqAssumption
  <2>3. ASSUME NEW k \in Calls
        PROVE  flight[k] <= RequestTimeout /\ (Limit(k) > 0 => elapsed[k] <= Limit(k) + RequestTimeout)
    BY <2>1, <2>2
  <2> QED BY <2>1, <2>3 DEF TimeInv
<1> QED BY <1>1, <1>2, <1>3 DEF IInv

(* Every step of every call keeps the invariant.                           *)
LEMMA NextStep == IInv /\ [Next]_vars => IInv'
<1> SUFFICES ASSUME IInv, [Next]_vars PROVE IInv'
  OBVIOUS
<1>1. CASE UNCHANGED vars
  <2>1. /\ UNCHANGED <<req, cool, pc, ctx, flight, timer, interval, elapsed, result, last, hot, leaks, sent>>
        /\ \A k \in Calls : Limit(k)' = Limit(k)
    BY <1>1, LimitSame DEF vars
  <2> QED BY <2>1 DEF IInv, TypeInv, BreakerInv, RetryInv, TimeInv, ResultIsLastAttempt, IsWarning
<1>2. ASSUME NEW k \in Calls, UNCHANGED req, DoFails(k) PROVE IInv'
  <2>1. Attempted(Err("do"))
    BY DEF Attempted, Err, Errors
  <2>2. /\ AttemptEnds(k, Err("do")) /\ pc[k] \in {"send", "flight"}
        /\ UNCHANGED <<cool, hot>>
    BY <1>2 DEF DoFails
  <2>3. hot' \in 0 .. CoolDown /\ cool' = hot' /\ hot <= hot'
    BY <2>2, ReqAssumption DEF IInv, BreakerInv
  <2> QED BY <1>2, <2>1, <2>2, <2>3, AttemptStep
<1>3. ASSUME NEW k \in Calls, NEW code \in Statuses, UNCHANGED req, Response(k, code) PROVE IInv'
  <2>1. Attempted(Err("decoder")) /\ Attempted(extractHTTPError(code))
    <3>1. Attempted(Err("decoder"))
      BY DEF Attempted, Err, Errors
    <3> QED BY <3>1, Responses
  <2>2. /\ pc[k] = "flight"
        /\ cool' = (IF code = 429 THEN CoolDown ELSE cool) /\ hot' = (IF code = 429 THEN CoolDown ELSE hot)
        /\ AttemptEnds(k, extractHTTPError(code)) \/ AttemptEnds(k, Err("decoder"))
    BY <1>3 DEF Response, setLast429
  <2>3. hot' \in 0 .. CoolDown /\ cool' = hot' /\ hot <= hot'
    BY <2>2, ReqAssumption DEF IInv, BreakerInv
  <2> QED BY <1>3, <2>1, <2>2, <2>3, AttemptStep
<1> QED BY <1>1, <1>2, <1>3, TickStep, StartStep, CancelStep, ReturnStep, GoesOnStep DEF Next, Step

(* IInv holds throughout: what retryRequest, the back-off policy and the   *)
(* circuit breaker keep between two steps of concurrent Calls.             *)
THEOREM Invariance == Spec => []IInv
BY Initially, NextStep, PTL DEF Spec

(* shouldBackoff and setLast429: after a 429, no caller sends more than    *)
(* the request it had decided on, however the calls interleave.            *)
THEOREM BreakerHolds == Spec => []BreakerStopsCalls
<1>1. IInv => BreakerStopsCalls
  BY DEF IInv, BreakerInv, TypeInv, BreakerStopsCalls
<1> QED BY <1>1, Invariance, PTL

(* retryRequest: a call that is in another attempt saw only failed         *)
(* exchanges and 5XX responses.                                            *)
THEOREM OnlyTransient == Spec => []RetriesOnlyTransient
<1>1. IInv => RetriesOnlyTransient
  BY DEF IInv, RetryInv, Transient, TypeInv, RetriesOnlyTransient
<1> QED BY <1>1, Invariance, PTL

(* The policy's MaxElapsedTime and the attempt's deadline bound a call.    *)
THEOREM BoundedCalls == Spec => []CallBounded
<1>1. IInv => CallBounded
  BY DEF IInv, TimeInv, CallBounded
<1> QED BY <1>1, Invariance, PTL

(* Call returns what its last attempt saw, and a final 5XX is no warning.  *)
THEOREM ReturnsLastAttempt == Spec => []ResultIsLastAttempt
<1>1. IInv => ResultIsLastAttempt
  BY DEF IInv
<1> QED BY <1>1, Invariance, PTL
===============================================================================
