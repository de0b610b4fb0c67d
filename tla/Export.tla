-------------------------------- MODULE Export --------------------------------
(***************************************************************************)
(* What becomes of a span once it ends, for both providers: config/o11y    *)
(* sets one up, every span that ends has its metrics sent, is sampled and  *)
(* goes to several destinations, and Close flushes what is left.           *)
(*   otel: metrics in End, the SDK's batch processor, then multipleExporter*)
(*         which samples by span id and calls its exporters in turn.       *)
(*   honeycomb: beeline's hooks send the metrics and sample by trace id,   *)
(*         then MultiSender adds the event to its senders in turn.         *)
(* The SDK, beeline and the network exporters are external. A configuration*)
(* is one that Validate accepts, outside tests (conf.Test exports each     *)
(* span as it ends). What the fields of a flattened span become is in      *)
(* Spans.                                                                  *)
(***************************************************************************)
EXTENDS Integers, Sequences, FiniteSets

CONSTANTS
  SpanIDs,     \* the spans, each ended by a goroutine of its own
  TraceOf,     \* [SpanIDs -> the trace of the span]
  Confs,       \* configurations: [kind, remotes, noText, sampling, rates, statsd]
  Bits,        \* width of the checksum and of uint32; uint has twice as many
  MaxRetries,  \* retries to make a statsd client (30 in the code)
  QueueSize,   \* of the batch processor (2048)
  Responses    \* capacity of a TextSender's response channel (100)

MaxUint == 2 ^ Bits - 1

(* Conversions of an int. A negative rate becomes a large one.             *)
uint32(n) == n % 2 ^ Bits
uint(n) == n % 2 ^ (2 * Bits)

(* The rate of a span is that of its key, an int nobody checks. honeycomb  *)
(* divides by its low 32 bits: if they are all zero the hook panics.       *)
ASSUME ExportAssumption ==
  /\ Bits \in Nat /\ 2 ^ Bits \in Nat \ {0} /\ 2 ^ (2 * Bits) \in Nat \ {0}
  /\ Confs \subseteq [kind : {"otel", "honeycomb"}, remotes : Seq(STRING), noText : BOOLEAN,
                      sampling : BOOLEAN, rates : [SpanIDs -> Int], statsd : BOOLEAN]
  /\ \A c \in Confs : c.kind = "honeycomb" => \A s \in SpanIDs : uint32(c.rates[s]) # 0

VARIABLES
  conf,      \* the configuration
  hash,      \* the checksum of each sampled id
  up,        \* where the provider is, from Setup to Close
  retries,   \* retries so far to make a statsd client
  metricsUp, \* whether the metrics provider is open
  span,      \* [SpanIDs -> where the span is]
  flat,      \* spans that were flattened (otel)
  counted,   \* history: [SpanIDs -> how often its metrics reached an open provider]
  keep,      \* history: the spans sampled in
  next,      \* [SpanIDs -> the sender its event goes to next] (honeycomb)
  queue,     \* spans the batch processor holds (otel)
  batch,     \* spans being exported (otel)
  at,        \* the exporter being called, 0 if none
  got,       \* [destinations -> the spans it accepted]
  responses, \* responses nobody has read from the text sender
  stopped,   \* destinations that were shut down
  lost,      \* history: <<destination, span>> that a drop or a failure cost
  late,      \* history: spans that had not ended when Close was called
  cut        \* the context of Close ended before the flush did

setupVars == <<conf, hash, up, retries, metricsUp>>
spanVars  == <<span, flat, counted, keep, next>>
destVars  == <<got, responses, stopped>>
histVars  == <<lost, late, cut>>
vars == <<setupVars, spanVars, queue, batch, at, destVars, histVars>>

-----------------------------------------------------------------------------
(* Configuration and sampling.                                             *)

IsOtel == conf.kind = "otel"

(* With nothing configured, otel writes text all the same; MultiSender     *)
(* refuses to start, and beeline, given no client, makes one of its own.   *)
NoneConfigured == IF IsOtel THEN "text" ELSE "beeline"

Destinations ==
  LET configured == IF conf.noText THEN conf.remotes ELSE Append(conf.remotes, "text")
  IN  IF configured = <<>> THEN <<NoneConfigured>> ELSE configured

Below(v, rate) == v < MaxUint \div rate

(* config/o11y bounds the rates it hands to otel, not those for honeycomb. *)
clampToUintMax(n) == IF n >= MaxUint THEN MaxUint - 1 ELSE uint(n)

(* otel: a rate below two keeps everything.                                *)
shouldKeep(v, rate) ==
  rate < 2 \/ Below(v, IF rate > MaxUint THEN MaxUint ELSE rate)

(* honeycomb, whose Static sampler has 1 as its default. A rate of more    *)
(* than 32 bits wraps.                                                     *)
shouldSample(v, rate) == rate = 1 \/ Below(v, uint32(rate))

(* Mutant: honeycomb samples every span of a trace by itself.              *)
Determinant_Span(s) == s

(* The otel sampler hashes the span id, TraceSampler.Hook the trace id.    *)
Determinant(s) == IF IsOtel THEN s ELSE TraceOf[s]

SampledIn(s) ==
  conf.sampling =>
    LET v == hash[Determinant(s)]
        rate == conf.rates[s]
    IN  IF IsOtel THEN shouldKeep(v, clampToUintMax(rate)) ELSE shouldSample(v, rate)

Init ==
  /\ conf \in Confs
  /\ hash \in [{Determinant(s) : s \in SpanIDs} ->
                 IF conf.sampling THEN 0 .. MaxUint ELSE {0}]
  /\ up = (IF conf.statsd THEN "statsd" ELSE "new")
  /\ retries = 0
  /\ metricsUp = ~conf.statsd
  /\ span = [s \in SpanIDs |-> "none"]
  /\ flat = {}
  /\ counted = [s \in SpanIDs |-> 0]
  /\ keep = {}
  /\ next = [s \in SpanIDs |-> 0]
  /\ queue = {} /\ batch = {} /\ at = 0
  /\ got = [i \in DOMAIN Destinations |-> {}]
  /\ responses = 0 /\ stopped = {}
  /\ lost = {} /\ late = {} /\ cut = FALSE

-----------------------------------------------------------------------------
(* Setup and Otel: make the metrics provider, then the provider itself.    *)

StatsdFails ==
  /\ up = "statsd"
  /\ IF retries < MaxRetries
       THEN retries' = retries + 1 /\ UNCHANGED up
       ELSE up' = "failed" /\ UNCHANGED retries
  /\ UNCHANGED <<conf, hash, metricsUp, spanVars, queue, batch, at, destVars, histVars>>

SetupCtxDone ==
  /\ up = "statsd"
  /\ up' = "failed"
  /\ UNCHANGED <<conf, hash, retries, metricsUp, spanVars, queue, batch, at, destVars, histVars>>

StatsdReady ==
  /\ up = "statsd"
  /\ up' = "new" /\ metricsUp' = TRUE
  /\ UNCHANGED <<conf, hash, retries, spanVars, queue, batch, at, destVars, histVars>>

(* An otel exporter cannot be made: the metrics provider stays open.       *)
NewFails ==
  /\ up = "new"
  /\ IsOtel /\ conf.remotes # <<>>
  /\ up' = "failed"
  /\ UNCHANGED <<conf, hash, retries, metricsUp, spanVars, queue, batch, at, destVars, histVars>>

New ==
  /\ up = "new"
  /\ up' = "up"
  /\ UNCHANGED <<conf, hash, retries, metricsUp, spanVars, queue, batch, at, destVars, histVars>>

StartSpan(s) ==
  /\ up = "up"
  /\ span[s] = "none"
  /\ span' = [span EXCEPT ![s] = "open"]
  /\ UNCHANGED <<setupVars, flat, counted, keep, next, queue, batch, at, destVars, histVars>>

(* extractAndSendMetrics run n times, on a provider that may be closed.    *)
SendMetrics(s, n) ==
  counted' = [counted EXCEPT ![s] = IF metricsUp THEN @ + n ELSE @]

-----------------------------------------------------------------------------
(* otel.                                                                   *)

(* honeycomb's Flatten does nothing.                                       *)
Flatten(s) ==
  /\ IsOtel
  /\ span[s] = "open"
  /\ flat' = flat \union {s}
  /\ UNCHANGED <<setupVars, span, counted, keep, next, queue, batch, at, destVars, histVars>>

(* span.End sends the metrics, then ends the SDK's span unless it is       *)
(* flattened,                                                              *)
End(s) ==
  /\ IsOtel
  /\ span[s] = "open"
  /\ span' = [span EXCEPT ![s] = IF s \in flat THEN "ended" ELSE "ending"]
  /\ SendMetrics(s, 1)
  /\ UNCHANGED <<setupVars, flat, keep, next, queue, batch, at, destVars, histVars>>

(* which goes to the batch processor: it takes none once Shutdown was      *)
(* called, and drops what its queue has no room for.                       *)
OnEnd(s) ==
  /\ IsOtel
  /\ span[s] = "ending"
  /\ span' = [span EXCEPT ![s] = "ended"]
  /\ IF up = "up" /\ Cardinality(queue) < QueueSize
       THEN queue' = queue \union {s} /\ UNCHANGED lost
       ELSE lost' = lost \union ((DOMAIN got) \X {s}) /\ UNCHANGED queue
  /\ UNCHANGED <<setupVars, flat, counted, keep, next, batch, at, destVars, late, cut>>

(* The processor's worker hands a batch to ExportSpans, which samples it   *)
ExportSpans ==
  /\ IsOtel
  /\ up \in {"up", "closing"}
  /\ at = 0 /\ queue # {}
  /\ batch' = {s \in queue : SampledIn(s)}
  /\ keep' = keep \union batch'
  /\ queue' = {} /\ at' = 1
  /\ UNCHANGED <<setupVars, span, flat, counted, next, destVars, histVars>>

(* and calls the exporters in order, until one fails.                      *)
AfterExport(i, err) == IF err \/ i = Len(Destinations) THEN 0 ELSE i + 1

ExporterReturns(err) ==
  /\ up \in {"up", "closing"}
  /\ at # 0
  /\ err => Destinations[at] # "text"
  /\ at' = AfterExport(at, err)
  /\ batch' = IF at' = 0 THEN {} ELSE batch
  /\ IF err
       THEN lost' = lost \union ((at .. Len(got)) \X batch) /\ UNCHANGED got
       ELSE got' = [got EXCEPT ![at] = @ \union batch] /\ UNCHANGED lost
  /\ UNCHANGED <<setupVars, spanVars, queue, responses, stopped, late, cut>>

-----------------------------------------------------------------------------
(* honeycomb.                                                              *)

(* The metrics go out with the sampling decision if there is one, so that  *)
(* they are sent for a span that is dropped,                               *)
SamplerHook == conf.sampling

(* Mutant: the presend hook is installed beside the sampler's.             *)
PresendHook_Always == TRUE

(* and otherwise just before the event is sent.                            *)
PresendHook == ~SamplerHook

Hooked(s) ==
  (IF SamplerHook THEN 1 ELSE 0) + (IF SampledIn(s) /\ PresendHook THEN 1 ELSE 0)

(* The metrics a span recorded are removed from its fields when they are   *)
(* sent; its error, warning and failure are counted by every hook.         *)
extractAndSendMetrics(s) == SendMetrics(s, Hooked(s))

(* beeline's Send: both hooks, and MultiSender.Add for an event it keeps.  *)
Send(s) ==
  /\ ~IsOtel
  /\ span[s] = "open"
  /\ extractAndSendMetrics(s)
  /\ IF SampledIn(s)
       THEN /\ keep' = keep \union {s}
            /\ next' = [next EXCEPT ![s] = 1]
            /\ span' = [span EXCEPT ![s] = "ending"]
       ELSE /\ span' = [span EXCEPT ![s] = "ended"]
            /\ UNCHANGED <<keep, next>>
  /\ UNCHANGED <<setupVars, flat, queue, batch, at, destVars, histVars>>

(* Mutant: the text sender waits for room in its response channel.         *)
SendResponse_Blocks ==
  /\ responses < Responses
  /\ responses' = responses + 1

(* TextSender.SendResponse drops a response the channel has no room for.   *)
SendResponse ==
  responses' = IF responses < Responses THEN responses + 1 ELSE responses

(* MultiSender.Add: one sender after the other.                            *)
NextSender(i) == IF i = Len(Destinations) THEN 0 ELSE i + 1

(* A sender that is stopped or whose queue is full drops the event. Text   *)
(* is written at once, also after Stop, which does nothing to it.          *)
Add(s, drop) ==
  LET i == next[s] IN
    /\ ~IsOtel
    /\ span[s] = "ending"
    /\ i \in stopped /\ Destinations[i] # "text" => drop
    /\ drop => Destinations[i] # "text"
    /\ IF drop
         THEN lost' = lost \union {<<i, s>>} /\ UNCHANGED <<got, responses>>
         ELSE /\ got' = [got EXCEPT ![i] = @ \union {s}]
              /\ IF Destinations[i] = "text" THEN SendResponse ELSE UNCHANGED responses
              /\ UNCHANGED lost
    /\ next' = [next EXCEPT ![s] = NextSender(i)]
    /\ span' = [span EXCEPT ![s] = IF next'[s] = 0 THEN "ended" ELSE "ending"]
    /\ UNCHANGED <<setupVars, flat, counted, keep, queue, batch, at, stopped, late, cut>>

(* TxResponses is the channel of the first sender only.                    *)
ReadResponse ==
  /\ ~IsOtel
  /\ Destinations[1] = "text"
  /\ responses > 0
  /\ responses' = responses - 1
  /\ UNCHANGED <<setupVars, spanVars, queue, batch, at, got, stopped, histVars>>

-----------------------------------------------------------------------------
(* Close.                                                                  *)

(* Both begin by stopping the trace side; beeline has nothing to drain.    *)
CloseBegins ==
  /\ up = "up"
  /\ up' = (IF IsOtel THEN "closing" ELSE "stopping")
  /\ at' = IF IsOtel THEN at ELSE 1
  /\ late' = {s \in SpanIDs : span[s] # "ended"}
  /\ UNCHANGED <<conf, hash, retries, metricsUp, spanVars, queue, batch, destVars, lost, cut>>

(* The batch processor's worker has exported the rest of the queue.        *)
Drained ==
  /\ up = "closing"
  /\ queue = {} /\ at = 0
  /\ up' = "stopping" /\ at' = 1
  /\ UNCHANGED <<conf, hash, retries, metricsUp, spanVars, queue, batch, destVars, histVars>>

(* multipleExporter.Shutdown ends at the first error, MultiSender.Stop     *)
(* stops every sender.                                                     *)
AfterStop(i, err) ==
  IF i = Len(Destinations) \/ (err /\ IsOtel) THEN 0 ELSE i + 1

StopReturns(err) ==
  /\ up = "stopping"
  /\ stopped' = stopped \union {at}
  /\ at' = AfterStop(at, err)
  /\ up' = (IF at' = 0 THEN "stopped" ELSE up)
  /\ UNCHANGED <<conf, hash, retries, metricsUp, spanVars, queue, batch, got, responses, histVars>>

(* tp.Shutdown returns early; the worker goes on.                          *)
CloseCtxDone ==
  /\ IsOtel
  /\ up \in {"closing", "stopping"} /\ ~cut
  /\ cut' = TRUE
  /\ UNCHANGED <<setupVars, spanVars, queue, batch, at, destVars, lost, late>>

(* Mutant: the metrics provider is closed before the spans are flushed.    *)
FlushReturned_Early == up \in {"closing", "stopping", "stopped"}

FlushReturned == up = "stopped" \/ cut

(* The metrics provider is closed last, then rollbar's client; Close       *)
(* returns.                                                                *)
CloseReturns ==
  /\ FlushReturned
  /\ metricsUp
  /\ metricsUp' = FALSE
  /\ UNCHANGED <<conf, hash, up, retries, spanVars, queue, batch, at, destVars, histVars>>

-----------------------------------------------------------------------------
Closed == up \in {"closing", "stopping", "stopped"} /\ ~metricsUp

(* A process that failed to start, or that closed everything, stops.       *)
Over ==
  /\ up = "failed" \/ (Closed /\ up = "stopped")
  /\ UNCHANGED vars

(* Until Close is called nothing need happen.                              *)
Waits == up = "up" /\ UNCHANGED vars

EndSteps(s) == End(s) \/ OnEnd(s) \/ Send(s) \/ \E drop \in BOOLEAN : Add(s, drop)

WorkerSteps == ExportSpans \/ \E err \in BOOLEAN : ExporterReturns(err)

StopSteps == Drained \/ \E err \in BOOLEAN : StopReturns(err)

SetupSteps == StatsdFails \/ StatsdReady \/ New

Next ==
  \/ SetupSteps \/ SetupCtxDone \/ NewFails
  \/ \E s \in SpanIDs : StartSpan(s) \/ Flatten(s) \/ EndSteps(s)
  \/ WorkerSteps
  \/ ReadResponse
  \/ CloseBegins \/ StopSteps \/ CloseCtxDone \/ CloseReturns
  \/ Over \/ Waits

(* Every goroutine that has work to do gets to run: Setup, a span's End    *)
(* once it was called, the batch processor's worker, and Close.            *)
Fairness ==
  /\ WF_vars(SetupSteps)
  /\ WF_vars(WorkerSteps) /\ WF_vars(StopSteps) /\ WF_vars(CloseReturns)
  /\ \A s \in SpanIDs :
       WF_vars(OnEnd(s)) /\ WF_vars(\E drop \in BOOLEAN : Add(s, drop))

Spec == Init /\ [][Next]_vars /\ Fairness

-----------------------------------------------------------------------------
(* Properties.                                                             *)

(* The metrics of every span that ended before Close reached an open       *)
(* metrics provider exactly once, whether the span was flattened, sampled  *)
(* in or out, lost or delivered (New's SamplerHook and PresendHook, span.End).   *)
MetricsOnce ==
  \A s \in SpanIDs \ late : span[s] = "ended" => counted[s] = 1

(* s has at most the rate of t, as honeycomb's sampler reads them: a rate  *)
(* of one keeps everything, of any other only the low 32 bits count.       *)
SampledNoLess(s, t) ==
  LET p == conf.rates[s]
      q == conf.rates[t]
  IN  p = 1 \/ (q # 1 /\ uint32(p) <= uint32(q))

(* honeycomb samples traces whole: if a span of a trace was kept, so was   *)
(* every span of it that has ended and has at most its rate, whatever int  *)
(* the rates are, compared at the width the sampler uses                   *)
(* (TraceSampler.Hook, shouldSample).                                      *)
TraceSampledWhole ==
  \A s, t \in SpanIDs :
    (/\ ~IsOtel
     /\ TraceOf[s] = TraceOf[t] /\ SampledNoLess(s, t)
     /\ t \in keep /\ span[s] \in {"ending", "ended"})
      => s \in keep

(* When Close returned, and not because its context ended, every exporter  *)
(* and sender has exactly the spans that ended before Close, were not      *)
(* flattened, were sampled in and were not lost to it by a full queue or a *)
(* failed export                                                           *)
(* (Provider.Close, multipleExporter, MultiSender).                        *)
CloseDelivers ==
  Closed /\ ~cut =>
    \A s \in SpanIDs \ late, i \in DOMAIN got :
      s \in got[i] <=> s \notin flat /\ SampledIn(s) /\ <<i, s>> \notin lost

(* A call of End returns, even if nobody reads the responses of the text   *)
(* sender; Setup returns too, and so does Close of either provider,        *)
(* whatever statsd, the exporters and the senders answer.                  *)
CallsReturn ==
  /\ \A s \in SpanIDs : (span[s] = "ending") ~> (span[s] = "ended")
  /\ (up \in {"statsd", "new"}) ~> (up \in {"up", "failed"})
  /\ (up \in {"closing", "stopping"}) ~> Closed

===============================================================================
