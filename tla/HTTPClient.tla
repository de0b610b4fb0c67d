----------------------------- MODULE HTTPClient -----------------------------
(***************************************************************************)
(* httpclient.Client.Call: the attempts of a request, their retries with   *)
(* an exponential back-off, the per-attempt timeout, the cancellation of   *)
(* the caller's context, and the circuit breaker that a 429 response opens *)
(* for every call of the client.                                           *)
(*                                                                         *)
(* Several calls share one client. Time is counted in ticks and only       *)
(* relatively; statements take no time, so a tick passes only while every  *)
(* call waits for a response, for its back-off timer, or is over.          *)
(***************************************************************************)
EXTENDS Integers, Sequences

CONSTANTS
  Calls,            \* callers of the client; each makes one call after another
  Reqs,             \* what the callers may request, see ReqAssumption
  Statuses,         \* status codes the server answers with
  ClientTimeout,    \* Config.Timeout; 0: retry indefinitely
  NoRateLimitBackoff,
  RequestTimeout,   \* the deadline of one attempt
  CoolDown,         \* 10 seconds after a 429
  InitialInterval, MaxInterval,  \* of the back-off policy
  Horizon           \* bound on the clock of a call

ASSUME ReqAssumption ==
  /\ \A r \in Reqs, k \in Calls : /\ r[k].retry \in BOOLEAN
                                   /\ r[k].maxElapsedTime \in Nat
                                   /\ r[k].decoders \subseteq Statuses \union {-1}
  /\ Statuses \subseteq 200 .. 599
  /\ ClientTimeout \in Nat /\ RequestTimeout \in Nat /\ CoolDown \in Nat
  /\ NoRateLimitBackoff \in BOOLEAN
  /\ InitialInterval \in Nat \ {0} /\ MaxInterval \in Nat /\ MaxInterval >= InitialInterval
  /\ Horizon \in Nat
  /\ Horizon > ClientTimeout + RequestTimeout
  /\ \A r \in Reqs, k \in Calls : Horizon > r[k].maxElapsedTime + RequestTimeout

VARIABLES
  req,       \* per call: its request
  cool,      \* last429: what is left of its CoolDown
  pc,        \* per call: "idle", "attempt", "send", "flight", "wait", "done"
  ctx,       \* per call: whether the caller's context is cancelled
  flight,    \* per call: how long Do has been running
  timer,     \* per call: what is left of the back-off
  interval,  \* per call: the policy's current interval
  elapsed,   \* per call: time since the call began
  result,    \* per call: the error it returned
  last,      \* history: the error of the call's last attempt
  hot,       \* history: what is left of CoolDown since a 429 arrived
  leaks,     \* history: requests sent while hot
  sent       \* history: requests sent by the call, counted to 2

vars == <<req, cool, pc, ctx, flight, timer, interval, elapsed, result, last, hot, leaks, sent>>

clocks == <<flight, timer, interval, elapsed>>

(* Errors. "done" is HTTPError.doneRetrying.                               *)
Err(kind) == [kind |-> kind, code |-> 0, done |-> FALSE]

HTTPErr(code) == [kind |-> "http", code |-> code, done |-> FALSE]

Nil == Err("nil")

Errors == [kind : {"nil", "http", "nocontent", "decoder", "request", "do", "ctx", "backoff"},
           code : Statuses \union {0}, done : BOOLEAN]

-----------------------------------------------------------------------------
Init ==
  /\ req \in Reqs
  /\ cool = 0
  /\ pc = [k \in Calls |-> "idle"]
  /\ ctx = [k \in Calls |-> FALSE]
  /\ flight = [k \in Calls |-> 0]
  /\ timer = [k \in Calls |-> 0]
  /\ interval = [k \in Calls |-> InitialInterval]
  /\ elapsed = [k \in Calls |-> 0]
  /\ result = [k \in Calls |-> Nil]
  /\ last = [k \in Calls |-> Nil]
  /\ hot = 0
  /\ leaks = [k \in Calls |-> 0]
  /\ sent = [k \in Calls |-> 0]

(* Call, up to retryRequest's first attempt; the policy is reset.          *)
Start(k) ==
  /\ pc[k] \in {"idle", "done"}
  /\ pc' = [pc EXCEPT ![k] = "attempt"]
  /\ ctx' = [ctx EXCEPT ![k] = FALSE]
  /\ interval' = [interval EXCEPT ![k] = InitialInterval]
  /\ elapsed' = [elapsed EXCEPT ![k] = 0]
  /\ result' = [result EXCEPT ![k] = Nil]
  /\ last' = [last EXCEPT ![k] = Nil]
  /\ sent' = [sent EXCEPT ![k] = 0]
  /\ UNCHANGED <<cool, flight, timer, hot, leaks>>

(* Mutant: the flag that makes a 5XX a mere warning is never removed.      *)
doneRetrying_Kept(e) == e

doneRetrying(e) == IF e.kind = "http" THEN [e EXCEPT !.done = TRUE] ELSE e

(* The call returns e, leaving the back-off loop.                          *)
Return(k, e) ==
  /\ pc' = [pc EXCEPT ![k] = "done"]
  /\ result' = [result EXCEPT ![k] = doneRetrying(e)]

(* Mutant: the breaker is only consulted before the first attempt.         *)
shouldBackoff_Once(k) == ~NoRateLimitBackoff /\ cool > 0 /\ sent[k] = 0

shouldBackoff(k) == ~NoRateLimitBackoff /\ cool > 0

(* The head of an attempt: the breaker, then the request is built, which   *)
(* may fail for good.                                                      *)
AttemptRefused(k) ==
  /\ pc[k] = "attempt"
  /\ shouldBackoff(k)
  /\ Return(k, Err("backoff"))
  /\ UNCHANGED <<cool, ctx, clocks, last, hot, leaks, sent>>

NewReqFails(k) ==
  /\ pc[k] = "attempt"
  /\ ~shouldBackoff(k)
  /\ sent[k] = 0
  /\ Return(k, Err("request"))
  /\ UNCHANGED <<cool, ctx, clocks, last, hot, leaks, sent>>

NewReq(k) ==
  /\ pc[k] = "attempt"
  /\ ~shouldBackoff(k)
  /\ pc' = [pc EXCEPT ![k] = "send"]
  /\ UNCHANGED <<cool, ctx, clocks, result, last, hot, leaks, sent>>

(* httpClient.Do: with a live context the request goes out.                *)
Do(k) ==
  /\ pc[k] = "send"
  /\ ~ctx[k]
  /\ pc' = [pc EXCEPT ![k] = "flight"]
  /\ flight' = [flight EXCEPT ![k] = 0]
  /\ leaks' = [leaks EXCEPT ![k] = IF hot > 0 THEN @ + 1 ELSE @]
  /\ sent' = [sent EXCEPT ![k] = IF @ < 2 THEN @ + 1 ELSE @]
  /\ UNCHANGED <<cool, ctx, timer, interval, elapsed, result, last, hot>>

-----------------------------------------------------------------------------
(* What follows an attempt: backoff.Retry around it.                       *)

(* Mutant: 4XX responses are retried like 5XX ones.                        *)
Permanent_5XXOnly(e) == ~(e.kind = "do" \/ (e.kind = "http" /\ e.code >= 400))

(* backoff.Permanent around what extractHTTPError, newReq and the decoder  *)
(* return: only failed exchanges and 5XX responses may be retried.         *)
Permanent(e) == ~(e.kind = "do" \/ (e.kind = "http" /\ e.code >= 500))

(* Mutant: the request's own limit is not handed to the policy.            *)
maxElapsed_ClientOnly(k) == ClientTimeout

maxElapsed(k) == IF req[k].maxElapsedTime > 0 THEN req[k].maxElapsedTime ELSE ClientTimeout

(* The randomised interval NextBackOff may hand out, and its growth.       *)
Grow(i) == IF 3 * i >= 2 * MaxInterval THEN MaxInterval ELSE (3 * i + 1) \div 2

Randomised(i) == (i + 1) \div 2 .. (3 * i) \div 2

Stops(k, next) == maxElapsed(k) > 0 /\ elapsed[k] + next > maxElapsed(k)

(* Mutant: retryRequest hands the policy to Retry without the context.     *)
CtxStops_Ignored(k) == FALSE

(* backoff.WithContext: a cancelled context makes NextBackOff return Stop. *)
CtxStops(k) == ctx[k]

Retries(k) == req[k].retry

(* The attempt of call k ended with error e.                               *)
AttemptEnds(k, e) ==
  /\ last' = [last EXCEPT ![k] = e]
  /\ \/ /\ e.kind = "nil" \/ Permanent(e) \/ ~Retries(k)
        /\ Return(k, e)
        /\ UNCHANGED <<timer, interval>>
     \/ /\ ~(e.kind = "nil" \/ Permanent(e)) /\ Retries(k)
        /\ CtxStops(k)
        /\ Return(k, Err("ctx"))
        /\ UNCHANGED <<timer, interval>>
     \/ /\ ~(e.kind = "nil" \/ Permanent(e)) /\ Retries(k)
        /\ ~CtxStops(k)
        /\ interval' = [interval EXCEPT ![k] = Grow(@)]
        /\ \E next \in Randomised(interval[k]) :
             \/ /\ Stops(k, next)
                /\ Return(k, e)
                /\ UNCHANGED timer
             \/ /\ ~Stops(k, next)
                /\ pc' = [pc EXCEPT ![k] = "wait"]
                /\ timer' = [timer EXCEPT ![k] = next]
                /\ UNCHANGED result
  /\ UNCHANGED <<ctx, flight, elapsed, leaks, sent>>

(* Do fails: the connection, the attempt's deadline, or a cancellation     *)
(* before or during the exchange.                                          *)
DoFails(k) ==
  /\ pc[k] = "flight" \/ (pc[k] = "send" /\ ctx[k])
  /\ AttemptEnds(k, Err("do"))
  /\ UNCHANGED <<cool, hot>>

(* extractHTTPError.                                                       *)
extractHTTPError(code) ==
  CASE code >= 300 -> HTTPErr(code)
    [] code = 204  -> Err("nocontent")
    [] OTHER       -> Nil

(* decodeBody: the status codes a decoder is called for; -1 stands for     *)
(* successDecodeStatus.                                                    *)
Decodes(k, code, success) == code \in req[k].decoders \/ (success /\ -1 \in req[k].decoders)

setLast429(code) == IF code = 429 THEN CoolDown ELSE cool

(* A response arrives. An HTTP error keeps its place when its decoder      *)
(* fails, a successful response whose decoder fails becomes an error.      *)
Response(k, code) ==
  LET err == extractHTTPError(code)
      success == err.kind = "nil"
      dec == Decodes(k, code, success)
  IN  /\ pc[k] = "flight"
      /\ cool' = setLast429(code)
      /\ hot' = IF code = 429 THEN CoolDown ELSE hot
      /\ \/ AttemptEnds(k, err)
         \/ success /\ dec /\ AttemptEnds(k, Err("decoder"))

(* Retry's select: the timer fires, or the context is cancelled.           *)
TimerFires(k) ==
  /\ pc[k] = "wait"
  /\ timer[k] = 0
  /\ pc' = [pc EXCEPT ![k] = "attempt"]
  /\ UNCHANGED <<cool, ctx, clocks, result, last, hot, leaks, sent>>

WaitCancelled(k) ==
  /\ pc[k] = "wait"
  /\ CtxStops(k)
  /\ Return(k, Err("ctx"))
  /\ UNCHANGED <<cool, ctx, clocks, last, hot, leaks, sent>>

Cancel(k) ==
  /\ pc[k] \notin {"idle", "done"}
  /\ ~ctx[k]
  /\ ctx' = [ctx EXCEPT ![k] = TRUE]
  /\ UNCHANGED <<cool, pc, clocks, result, last, hot, leaks, sent>>

-----------------------------------------------------------------------------
(* No time passes while a call has a statement to execute.                 *)
Idles(k) ==
  \/ pc[k] \in {"idle", "done"}
  \/ pc[k] = "flight" /\ flight[k] < RequestTimeout /\ ~ctx[k]
  \/ pc[k] = "wait" /\ timer[k] > 0 /\ ~CtxStops(k)

(* The documented limit of a call: elapsed is only counted under one.      *)
Limit(k) == IF req[k].maxElapsedTime = 0 THEN ClientTimeout ELSE req[k].maxElapsedTime

Tick ==
  /\ \A k \in Calls : Idles(k)
  /\ cool' = IF cool > 0 THEN cool - 1 ELSE 0
  /\ flight' = [k \in Calls |-> IF pc[k] = "flight" THEN flight[k] + 1 ELSE flight[k]]
  /\ timer' = [k \in Calls |-> IF pc[k] = "wait" THEN timer[k] - 1 ELSE timer[k]]
  /\ elapsed' = [k \in Calls |-> IF pc[k] \in {"flight", "wait"} /\ Limit(k) > 0 /\ elapsed[k] < Horizon
                                 THEN elapsed[k] + 1 ELSE elapsed[k]]
  /\ hot' = IF hot > 0 THEN hot - 1 ELSE 0
  /\ leaks' = [k \in Calls |-> IF hot <= 1 THEN 0 ELSE leaks[k]]
  /\ UNCHANGED <<req, pc, ctx, interval, result, last, sent>>

Step(k) ==
  \/ AttemptRefused(k) \/ NewReq(k) \/ NewReqFails(k) \/ Do(k) \/ DoFails(k)
  \/ TimerFires(k) \/ WaitCancelled(k)
  \/ \E code \in Statuses : Response(k, code)

Next ==
  \/ Tick
  \/ \E k \in Calls : UNCHANGED req /\ (Start(k) \/ Cancel(k) \/ Step(k))

Spec == Init /\ [][Next]_vars

(* Statements are executed, and an attempt ends at the latest at its       *)
(* deadline: a call that cannot let time pass takes a step, and time       *)
(* passes however many calls are made (strong fairness: calls that are     *)
(* refused at once disable Tick again and again).                          *)
Fairness == SF_vars(Tick) /\ \A k \in Calls : WF_vars(~Idles(k) /\ UNCHANGED req /\ Step(k))

FairSpec == Spec /\ Fairness

-----------------------------------------------------------------------------

(* The circuit breaker: within the cool-down after a 429 received by any   *)
(* call of the client, a caller sends at most the one request it had       *)
(* already decided to send when the 429 was recorded; retries and new      *)
(* calls are refused.                                                      *)
BreakerStopsCalls == \A k \in Calls : ~NoRateLimitBackoff => leaks[k] <= 1

(* Only failed exchanges and 5XX responses are retried: a call in another  *)
(* attempt has not seen a response that settles it.                        *)
RetriesOnlyTransient ==
  \A k \in Calls : pc[k] \in {"attempt", "send", "flight", "wait"} =>
    \/ last[k] = Nil /\ sent[k] <= 1
    \/ last[k].kind = "do"
    \/ last[k].code >= 500

(* With a limit on the elapsed time, a call lasts no longer than the limit *)
(* and the timeout of one attempt.                                         *)
CallBounded ==
  \A k \in Calls : Limit(k) > 0 => elapsed[k] <= Limit(k) + RequestTimeout

(* HTTPError.Is(o11y.ErrWarning), and ErrNoContent.                        *)
IsWarning(e) ==
  \/ e.kind = "nocontent"
  \/ e.kind = "http" /\ (~e.done \/ (e.code > 400 /\ e.code <= 404))

(* What Call returns is what its last attempt saw, unless the breaker or   *)
(* the context ended it; a 5XX error is final and hence never a warning    *)
(* (HTTPError.Is), however many attempts treated it as one.                *)
ResultIsLastAttempt ==
  \A k \in Calls : pc[k] = "done" =>
    /\ result[k].kind \notin {"ctx", "backoff", "request"} => [result[k] EXCEPT !.done = FALSE] = last[k]
    /\ result[k].kind = "ctx" => ctx[k]
    /\ result[k].code >= 500 => ~IsWarning(result[k])

(* A cancelled call returns, also when it may retry indefinitely.          *)
CancelEndsCall == \A k \in Calls : (ctx[k] ~> pc[k] = "done")
=============================================================================
