----------------------------- MODULE ExportProofs -----------------------------
(***************************************************************************)
(* Proofs about Export: metrics are counted once, traces are sampled whole *)
(* and Close delivers, for any spans, rates, configurations and bounds.    *)
(***************************************************************************)
EXTENDS Export, TLAPS

NumDests == Len(Destinations)

TypeInv ==
  /\ conf \in Confs
  /\ \A s \in SpanIDs : hash[Determinant(s)] \in Nat
  /\ up \in {"statsd", "new", "up", "closing", "stopping", "stopped", "failed"}
  /\ metricsUp \in BOOLEAN /\ cut \in BOOLEAN
  /\ span \in [SpanIDs -> {"none", "open", "ending", "ended"}]
  /\ flat \subseteq SpanIDs /\ queue \subseteq SpanIDs /\ batch \subseteq SpanIDs
  /\ counted \in [SpanIDs -> Nat]
  /\ next \in [SpanIDs -> 0 .. NumDests]
  /\ at \in 0 .. NumDests
  /\ got \in [1 .. NumDests -> SUBSET SpanIDs]

Began == {"closing", "stopping", "stopped"}

(* Where the provider is tells which spans there are, and whether the      *)
(* metrics provider is open.                                               *)
LifeInv ==
  /\ up \notin Began => late = {} /\ ~cut
  /\ up \in {"new", "up"} => metricsUp
  /\ up \in {"statsd", "new", "failed"} => \A s \in SpanIDs : span[s] = "none"
  /\ up \in Began => \A s \in SpanIDs \ late : span[s] = "ended"
  /\ up \in Began /\ ~metricsUp => up = "stopped" \/ cut

(* The batch processor holds spans only while its worker runs, and a batch *)
(* only during an export; honeycomb has none.                              *)
WorkerInv ==
  /\ up \in {"statsd", "new"} => at = 0
  /\ at = 0 => batch = {}
  /\ up \notin {"up", "closing"} => queue = {} /\ batch = {}
  /\ up = "stopping" => at # 0
  /\ ~IsOtel => /\ queue = {} /\ batch = {} /\ flat = {}
                /\ up # "closing" /\ (up = "up" => at = 0)

CountInv ==
  \A s \in SpanIDs \ late : counted[s] = IF span[s] \in {"none", "open"} THEN 0 ELSE 1

(* honeycomb decides for a span as it ends.                                *)
KeepInv ==
  ~IsOtel => \A s \in SpanIDs :
               /\ s \in keep => SampledIn(s)
               /\ span[s] \in {"ending", "ended"} /\ SampledIn(s) => s \in keep

(* The first destination a span has not been offered to yet.               *)
Reached(s) ==
  IF span[s] \in {"none", "open"} THEN 1
  ELSE IF span[s] = "ending" THEN IF IsOtel THEN 1 ELSE next[s]
  ELSE IF s \in queue THEN 1
  ELSE IF s \in batch THEN at
  ELSE NumDests + 1

(* Every destination a span has been offered to has it unless it was lost; *)
(* the others have neither got nor lost it.                                *)
Routed(s, i) ==
  IF i < Reached(s)
    THEN s \in got[i] <=> s \notin flat /\ SampledIn(s) /\ <<i, s>> \notin lost
    ELSE s \notin got[i] /\ <<i, s>> \notin lost

RouteInv == \A s \in SpanIDs, i \in 1 .. NumDests : Routed(s, i)

(* What is on its way is not flattened, and was sampled in once the        *)
(* sampler has seen it.                                                    *)
OnWayInv ==
  \A s \in SpanIDs :
    /\ span[s] = "none" => s \notin flat
    /\ span[s] = "ending" => s \notin flat /\ (~IsOtel => SampledIn(s) /\ next[s] # 0)
    /\ s \in queue => span[s] = "ended" /\ s \notin flat /\ s \notin batch
    /\ s \in batch => span[s] = "ended" /\ s \notin flat /\ SampledIn(s)

IInv == TypeInv /\ LifeInv /\ WorkerInv /\ CountInv /\ KeepInv /\ RouteInv /\ OnWayInv

-----------------------------------------------------------------------------
(* The configuration.                                                      *)

(* There is at least one destination.                                      *)
LEMMA Dests ==
  ASSUME conf \in Confs
  PROVE  /\ Destinations \in Seq(STRING \union {"text", "beeline"})
         /\ NumDests \in Nat \ {0}
<1> DEFINE T == STRING \union {"text", "beeline"}
           configured == IF conf.noText THEN conf.remotes ELSE Append(conf.remotes, "text")
<1>1. conf.remotes \in Seq(STRING)
  BY ExportAssumption
<1>2. conf.remotes \in Seq(T)
  BY <1>1
<1>3. Append(conf.remotes, "text") \in Seq(T)
  BY <1>2
<1>4. configured \in Seq(T)
  BY <1>2, <1>3
<1>5. NoneConfigured \in T
  BY DEF NoneConfigured
<1> HIDE DEF T, configured
<1>6. <<NoneConfigured>> \in Seq(T) /\ Len(<<NoneConfigured>>) = 1
  BY <1>5
<1>7. configured # <<>> => Len(configured) \in Nat \ {0}
  BY <1>4
<1>8. Destinations = IF configured = <<>> THEN <<NoneConfigured>> ELSE configured
  BY DEF Destinations, configured
<1>9. Destinations \in Seq(T)
  BY <1>4, <1>6, <1>8
<1>10. Len(Destinations) \in Nat \ {0}
  BY <1>6, <1>7, <1>8
<1> QED BY <1>9, <1>10 DEF NumDests, T

(* No step changes the configuration or a checksum, so none changes where  *)
(* spans go or what the sampler says of them.                              *)
LEMMA ConfSame ==
  ASSUME [Next]_vars
  PROVE  /\ UNCHANGED <<conf, hash>>
         /\ IsOtel' = IsOtel /\ Destinations' = Destinations /\ NumDests' = NumDests
         /\ \A s : hash'[Determinant(s)'] = hash[Determinant(s)]
         /\ \A s : SampledIn(s)' = SampledIn(s)
<1>1. UNCHANGED <<conf, hash>>
  BY DEF Next, SetupSteps, StatsdFails, StatsdReady, New, SetupCtxDone, NewFails, StartSpan, Flatten,
         EndSteps, End, OnEnd, Send, Add, WorkerSteps, ExportSpans, ExporterReturns, ReadResponse,
         CloseBegins, StopSteps, Drained, StopReturns, CloseCtxDone, CloseReturns, Over, Waits,
         vars, setupVars
<1>2. IsOtel' = IsOtel /\ Destinations' = Destinations
  BY <1>1 DEF IsOtel, Destinations, NoneConfigured
<1>3. NumDests' = NumDests
  BY <1>2 DEF NumDests
<1>4. \A s : SampledIn(s)' = SampledIn(s)
  BY <1>1, <1>2 DEF SampledIn, Determinant
<1>5. \A s : hash'[Determinant(s)'] = hash[Determinant(s)]
  BY <1>1, <1>2 DEF Determinant
<1> QED BY <1>1, <1>2, <1>3, <1>4, <1>5

(* With a lower rate, a larger part of the checksums is kept.              *)
LEMMA BelowMonotone ==
  ASSUME NEW v \in Nat, NEW p \in Nat \ {0}, NEW q \in Nat \ {0}, p <= q, Below(v, q)
  PROVE  Below(v, p)
<1> DEFINE M == MaxUint
           a == M \div p
           b == M \div q
<1>0. M \in Nat
  BY ExportAssumption DEF MaxUint
<1> HIDE DEF M
<1>1. a \in Nat /\ M < (a + 1) * p
  BY <1>0
<1>2. b \in Nat /\ b * q <= M
  BY <1>0
<1> HIDE DEF a, b
<1>3. b <= a
  <2>1. SUFFICES ASSUME a + 1 <= b PROVE FALSE
    BY <1>1, <1>2
  <2>2. (a + 1) * p <= (a + 1) * q
    BY <1>1
  <2>3. (a + 1) * q <= b * q
    BY <1>1, <1>2, <2>1
  <2> QED BY <1>0, <1>1, <1>2, <2>2, <2>3
<1>4. v < b
  BY DEF Below, b, M
<1>5. v < a
  BY <1>1, <1>2, <1>3, <1>4
<1> QED BY <1>5 DEF Below, a, M

-----------------------------------------------------------------------------
(* Initially nothing has happened to any span.                             *)
LEMMA Initially == Init => IInv
<1> SUFFICES ASSUME Init PROVE IInv
  OBVIOUS
<1>0. conf \in Confs /\ conf.statsd \in BOOLEAN
  BY ExportAssumption DEF Init
<1>1. NumDests \in Nat /\ DOMAIN Destinations = 1 .. NumDests
  BY <1>0, Dests DEF NumDests
<1>2. TypeInv
  <2>1. metricsUp \in BOOLEAN /\ cut \in BOOLEAN
    BY <1>0 DEF Init
  <2>2. got \in [1 .. NumDests -> SUBSET SpanIDs]
    BY <1>1 DEF Init
  <2>3. at \in 0 .. NumDests /\ next \in [SpanIDs -> 0 .. NumDests]
    BY <1>1 DEF Init
  <2>4. \A s \in SpanIDs : hash[Determinant(s)] \in Nat
    BY DEF Init
  <2> QED BY <1>0, <2>1, <2>2, <2>3, <2>4 DEF Init, TypeInv
<1>3. LifeInv
  BY <1>0 DEF Init, LifeInv, Began
<1>4. WorkerInv
  BY DEF Init, WorkerInv
<1>5. CountInv /\ KeepInv /\ OnWayInv
  BY DEF Init, CountInv, KeepInv, OnWayInv
<1>6. RouteInv
  BY <1>1 DEF Init, RouteInv, Routed, Reached
<1> QED BY <1>2, <1>3, <1>4, <1>5, <1>6 DEF IInv

-----------------------------------------------------------------------------
(* Steps that leave spans alone: those of Setup and Close, and stuttering. *)
SetupOrClose ==
  \/ SetupSteps \/ SetupCtxDone \/ NewFails \/ ReadResponse
  \/ CloseBegins \/ StopSteps \/ CloseCtxDone \/ CloseReturns
  \/ UNCHANGED vars

(* The steps, split by whether they touch a span.                          *)
LEMMA Steps ==
  ASSUME [Next]_vars
  PROVE  \/ SetupOrClose
         \/ \E s \in SpanIDs : StartSpan(s) \/ Flatten(s) \/ End(s) \/ OnEnd(s) \/ Send(s)
         \/ \E s \in SpanIDs, drop \in BOOLEAN : Add(s, drop)
         \/ ExportSpans
         \/ \E err \in BOOLEAN : ExporterReturns(err)
BY DEF Next, SetupOrClose, EndSteps, WorkerSteps, Over, Waits

(* They change the place of the provider and of the worker only.           *)
LEMMA SetupOrCloseKeeps ==
  ASSUME SetupOrClose
  PROVE  UNCHANGED <<conf, hash, span, flat, counted, keep, next, queue, batch, got, lost>>
BY DEF SetupOrClose, SetupSteps, StatsdFails, StatsdReady, New, SetupCtxDone, NewFails, ReadResponse,
       CloseBegins, StopSteps, Drained, StopReturns, CloseCtxDone, CloseReturns,
       vars, setupVars, spanVars, destVars, histVars

(* Every step preserves the types.                                         *)
LEMMA TypeStep == TypeInv /\ [Next]_vars => TypeInv'
<1> SUFFICES ASSUME TypeInv, [Next]_vars PROVE TypeInv'
  OBVIOUS
<1> USE DEF TypeInv, setupVars, spanVars, destVars, histVars
<1>0. /\ NumDests' = NumDests /\ conf' = conf
      /\ \A s \in SpanIDs : hash'[Determinant(s)'] \in Nat
  BY ConfSame
<1>1. NumDests \in Nat \ {0} /\ NumDests = Len(Destinations)
  BY Dests DEF NumDests
<1>2. CASE SetupOrClose
  <2>1. /\ up' \in {"statsd", "new", "up", "closing", "stopping", "stopped", "failed"}
        /\ metricsUp' \in BOOLEAN /\ cut' \in BOOLEAN
    BY <1>2 DEF SetupOrClose, SetupSteps, StatsdFails, StatsdReady, New, SetupCtxDone, NewFails, ReadResponse,
                CloseBegins, StopSteps, Drained, StopReturns, CloseCtxDone, CloseReturns, vars
  <2>2. at' \in 0 .. NumDests
    BY <1>1, <1>2 DEF SetupOrClose, SetupSteps, StatsdFails, StatsdReady, New, SetupCtxDone, NewFails, ReadResponse,
                CloseBegins, StopSteps, Drained, StopReturns, AfterStop, CloseCtxDone, CloseReturns, vars
  <2> QED BY <1>0, <1>2, <2>1, <2>2, SetupOrCloseKeeps
<1>3. ASSUME NEW s \in SpanIDs, StartSpan(s) \/ Flatten(s) PROVE TypeInv'
  BY <1>0, <1>3 DEF StartSpan, Flatten
<1>4. ASSUME NEW s \in SpanIDs, End(s) PROVE TypeInv'
  BY <1>0, <1>4 DEF End, SendMetrics
<1>5. ASSUME NEW s \in SpanIDs, OnEnd(s) PROVE TypeInv'
  BY <1>0, <1>5 DEF OnEnd
<1>6. ASSUME NEW s \in SpanIDs, Send(s) PROVE TypeInv'
  <2>1. counted' \in [SpanIDs -> Nat]
    <3>1. Hooked(s) \in Nat
      BY DEF Hooked
    <3> QED BY <1>6, <3>1 DEF Send, extractAndSendMetrics, SendMetrics
  <2>2. span' \in [SpanIDs -> {"none", "open", "ending", "ended"}]
    BY <1>6 DEF Send
  <2>3. next' \in [SpanIDs -> 0 .. NumDests]
    BY <1>1, <1>6 DEF Send
  <2> QED BY <1>0, <1>6, <2>1, <2>2, <2>3 DEF Send
<1>7. ASSUME NEW s \in SpanIDs, NEW drop \in BOOLEAN, Add(s, drop) PROVE TypeInv'
  <2>1. next' \in [SpanIDs -> 0 .. NumDests]
    BY <1>1, <1>7 DEF Add, NextSender
  <2>2. got' \in [1 .. NumDests -> SUBSET SpanIDs]
    BY <1>7 DEF Add
  <2>3. span' \in [SpanIDs -> {"none", "open", "ending", "ended"}]
    BY <1>7 DEF Add
  <2> QED BY <1>0, <1>7, <2>1, <2>2, <2>3 DEF Add
<1>8. CASE ExportSpans
  BY <1>0, <1>1, <1>8 DEF ExportSpans
<1>9. ASSUME NEW err \in BOOLEAN, ExporterReturns(err) PROVE TypeInv'
  <2>1. at' \in 0 .. NumDests
    BY <1>1, <1>9 DEF ExporterReturns, AfterExport
  <2>2. got' \in [1 .. NumDests -> SUBSET SpanIDs] /\ batch' \subseteq SpanIDs
    BY <1>9 DEF ExporterReturns
  <2> QED BY <1>0, <1>9, <2>1, <2>2 DEF ExporterReturns
<1> QED BY <1>2, <1>3, <1>4, <1>5, <1>6, <1>7, <1>8, <1>9, Steps

(* A step of a span is of one that is under way, or starts one while the   *)
(* provider is up; it moves no other span.                                 *)
LEMMA SpanSteps ==
  ASSUME TypeInv, NEW s \in SpanIDs,
         \/ StartSpan(s) \/ Flatten(s) \/ End(s) \/ OnEnd(s) \/ Send(s)
         \/ \E drop \in BOOLEAN : Add(s, drop)
  PROVE  /\ UNCHANGED <<up, metricsUp, at, batch, late, cut>>
         /\ span[s] \in {"open", "ending"} \/ (span[s] = "none" /\ up = "up")
         /\ \A t \in SpanIDs \ {s} : span'[t] = span[t] /\ next'[t] = next[t] /\ counted'[t] = counted[t]
         /\ flat' \ {s} = flat \ {s} /\ queue' \ {s} = queue \ {s} /\ keep' \ {s} = keep \ {s}
<1> USE DEF TypeInv, setupVars, spanVars, destVars, histVars
<1>1. /\ UNCHANGED <<up, metricsUp, at, batch, late, cut>>
      /\ span[s] \in {"open", "ending"} \/ (span[s] = "none" /\ up = "up")
  BY DEF StartSpan, Flatten, End, OnEnd, Send, Add
<1>2. \A t \in SpanIDs \ {s} : span'[t] = span[t]
  BY DEF StartSpan, Flatten, End, OnEnd, Send, Add
<1>3. \A t \in SpanIDs \ {s} : next'[t] = next[t]
  BY DEF StartSpan, Flatten, End, OnEnd, Send, Add
<1>4. \A t \in SpanIDs \ {s} : counted'[t] = counted[t]
  BY DEF StartSpan, Flatten, End, OnEnd, Send, Add, extractAndSendMetrics, SendMetrics
<1>5. flat' \ {s} = flat \ {s} /\ queue' \ {s} = queue \ {s} /\ keep' \ {s} = keep \ {s}
  BY DEF StartSpan, Flatten, End, OnEnd, Send, Add
<1> QED BY <1>1, <1>2, <1>3, <1>4, <1>5

(* The worker's steps move no span.                                        *)
LEMMA WorkerKeeps ==
  ASSUME ExportSpans \/ \E err \in BOOLEAN : ExporterReturns(err)
  PROVE  /\ UNCHANGED <<up, metricsUp, span, flat, counted, next, late, cut>>
         /\ up \in {"up", "closing"}
BY DEF ExportSpans, ExporterReturns, setupVars, spanVars, histVars

(* Setup and Close move the provider on, and a span begins and ends while  *)
(* it is up or is late.                                                    *)
LEMMA LifeStep == TypeInv /\ LifeInv /\ [Next]_vars => LifeInv'
<1> SUFFICES ASSUME TypeInv, LifeInv, [Next]_vars PROVE LifeInv'
  OBVIOUS
<1> USE DEF LifeInv, Began
<1>1. CASE SetupOrClose
  <2> USE DEF histVars
  <2>0. span' = span
    BY <1>1, SetupOrCloseKeeps
  <2>1. CASE SetupSteps \/ SetupCtxDone \/ NewFails
    BY <2>0, <2>1 DEF SetupSteps, StatsdFails, StatsdReady, New, SetupCtxDone, NewFails
  <2>2. CASE CloseBegins
    BY <2>0, <2>2 DEF CloseBegins
  <2>3. CASE StopSteps
    BY <2>0, <2>3 DEF StopSteps, Drained, StopReturns
  <2>4. CASE CloseCtxDone \/ CloseReturns
    BY <2>0, <2>4 DEF CloseCtxDone, CloseReturns, FlushReturned, setupVars, TypeInv
  <2>5. CASE ReadResponse \/ UNCHANGED vars
    BY <2>0, <2>5 DEF ReadResponse, vars, setupVars
  <2> QED BY <1>1, <2>1, <2>2, <2>3, <2>4, <2>5 DEF SetupOrClose
<1>2. ASSUME NEW s \in SpanIDs,
             \/ StartSpan(s) \/ Flatten(s) \/ End(s) \/ OnEnd(s) \/ Send(s)
             \/ \E drop \in BOOLEAN : Add(s, drop)
      PROVE  LifeInv'
  <2>1. /\ UNCHANGED <<up, metricsUp, late, cut>>
        /\ span[s] \in {"open", "ending"} \/ (span[s] = "none" /\ up = "up")
        /\ \A t \in SpanIDs \ {s} : span'[t] = span[t]
    BY <1>2, SpanSteps
  <2>2. up \notin {"statsd", "new", "failed"}
    BY <2>1
  <2>3. up \in Began => s \in late
    BY <2>1
  <2> QED BY <2>1, <2>2, <2>3
<1>3. CASE ExportSpans \/ \E err \in BOOLEAN : ExporterReturns(err)
  BY <1>3, WorkerKeeps
<1> QED BY <1>1, <1>2, <1>3, Steps

(* The batch processor's worker takes the queue, exports it and stops      *)
(* after draining it.                                                      *)
LEMMA WorkerStep == TypeInv /\ LifeInv /\ WorkerInv /\ [Next]_vars => WorkerInv'
<1> SUFFICES ASSUME TypeInv, LifeInv, WorkerInv, [Next]_vars PROVE WorkerInv'
  OBVIOUS
<1> USE DEF WorkerInv
<1>0. IsOtel' = IsOtel /\ NumDests \in Nat \ {0} /\ NumDests = Len(Destinations) /\ at \in 0 .. NumDests
  BY ConfSame, Dests DEF TypeInv, NumDests
<1>1. CASE SetupOrClose
  <2>0. UNCHANGED <<queue, batch, flat>>
    BY <1>1, SetupOrCloseKeeps
  <2>1. CASE SetupSteps \/ SetupCtxDone \/ NewFails
    BY <1>0, <2>0, <2>1 DEF SetupSteps, StatsdFails, StatsdReady, New, SetupCtxDone, NewFails
  <2>2. CASE CloseBegins
    BY <1>0, <2>0, <2>2 DEF CloseBegins
  <2>3. CASE StopSteps
    BY <1>0, <2>0, <2>3 DEF StopSteps, Drained, StopReturns, AfterStop
  <2>4. CASE CloseCtxDone \/ CloseReturns
    BY <1>0, <2>0, <2>4 DEF CloseCtxDone, CloseReturns, setupVars
  <2>5. CASE ReadResponse \/ UNCHANGED vars
    BY <1>0, <2>0, <2>5 DEF ReadResponse, vars, setupVars
  <2> QED BY <1>1, <2>1, <2>2, <2>3, <2>4, <2>5 DEF SetupOrClose
<1>2. ASSUME NEW s \in SpanIDs,
             \/ StartSpan(s) \/ Flatten(s) \/ End(s) \/ OnEnd(s) \/ Send(s)
             \/ \E drop \in BOOLEAN : Add(s, drop)
      PROVE  WorkerInv'
  <2>1. UNCHANGED <<up, at, batch>>
    BY <1>2, SpanSteps
  <2>2. queue' = queue \/ (IsOtel /\ up = "up")
    BY <1>2 DEF StartSpan, Flatten, End, OnEnd, Send, Add
  <2>3. flat' = flat \/ IsOtel
    BY <1>2 DEF StartSpan, Flatten, End, OnEnd, Send, Add
  <2> QED BY <1>0, <2>1, <2>2, <2>3
<1>3. CASE ExportSpans
  BY <1>0, <1>3 DEF ExportSpans, setupVars
<1>4. ASSUME NEW err \in BOOLEAN, ExporterReturns(err) PROVE WorkerInv'
  <2>1. UNCHANGED <<up, queue, flat>> /\ up \in {"up", "closing"} /\ at # 0
    BY <1>4 DEF ExporterReturns, setupVars, spanVars
  <2>2. at' = 0 => batch' = {}
    BY <1>4 DEF ExporterReturns
  <2>3. IsOtel
    BY <2>1
  <2> QED BY <1>0, <2>1, <2>2, <2>3
<1> QED BY <1>1, <1>2, <1>3, <1>4, Steps

(* End sends the metrics of a span as it leaves the open ones, while the   *)
(* metrics provider is open.                                               *)
LEMMA CountStep == TypeInv /\ LifeInv /\ CountInv /\ [Next]_vars => CountInv'
<1> SUFFICES ASSUME TypeInv, LifeInv, CountInv, [Next]_vars PROVE CountInv'
  OBVIOUS
<1> USE DEF CountInv
<1>1. CASE SetupOrClose
  <2>1. UNCHANGED <<span, counted>>
    BY <1>1, SetupOrCloseKeeps
  <2>2. late \subseteq late'
    BY <1>1 DEF SetupOrClose, SetupSteps, StatsdFails, StatsdReady, New, SetupCtxDone, NewFails, ReadResponse,
                CloseBegins, StopSteps, Drained, StopReturns, CloseCtxDone, CloseReturns, vars, histVars, LifeInv, Began
  <2> QED BY <2>1, <2>2
<1>2. ASSUME NEW s \in SpanIDs,
             \/ StartSpan(s) \/ Flatten(s) \/ End(s) \/ OnEnd(s) \/ Send(s)
             \/ \E drop \in BOOLEAN : Add(s, drop)
      PROVE  CountInv'
  <2>1. /\ late' = late
        /\ span[s] \in {"open", "ending"} \/ (span[s] = "none" /\ up = "up")
        /\ \A t \in SpanIDs \ {s} : span'[t] = span[t] /\ counted'[t] = counted[t]
    BY <1>2, SpanSteps
  <2>2. SUFFICES ASSUME s \notin late
                 PROVE  counted'[s] = IF span'[s] \in {"none", "open"} THEN 0 ELSE 1
    BY <2>1
  <2>3. up = "up" /\ metricsUp
    BY <2>1, <2>2 DEF LifeInv, Began, TypeInv
  <2>4. CASE StartSpan(s) \/ Flatten(s)
    BY <2>2, <2>4 DEF StartSpan, Flatten, TypeInv, spanVars
  <2>5. CASE End(s)
    BY <2>2, <2>3, <2>5 DEF End, SendMetrics, TypeInv
  <2>6. CASE OnEnd(s)
    BY <2>2, <2>6 DEF OnEnd, TypeInv
  <2>7. CASE Send(s)
    <3>1. Hooked(s) = 1
      BY DEF Hooked, SamplerHook, PresendHook, SampledIn
    <3>2. counted'[s] = counted[s] + 1 /\ span[s] = "open"
      BY <2>3, <2>7, <3>1 DEF Send, extractAndSendMetrics, SendMetrics, TypeInv
    <3>3. span'[s] \in {"ending", "ended"}
      BY <2>7 DEF Send, TypeInv
    <3> QED BY <2>2, <3>2, <3>3
  <2>8. CASE \E drop \in BOOLEAN : Add(s, drop)
    BY <2>2, <2>8 DEF Add, TypeInv
  <2> QED BY <1>2, <2>4, <2>5, <2>6, <2>7, <2>8
<1>3. CASE ExportSpans \/ \E err \in BOOLEAN : ExporterReturns(err)
  BY <1>3, WorkerKeeps
<1> QED BY <1>1, <1>2, <1>3, Steps

(* The sampler hook decides for a span once, as it ends.                   *)
LEMMA KeepStep == TypeInv /\ KeepInv /\ [Next]_vars => KeepInv'
<1> SUFFICES ASSUME TypeInv, KeepInv, [Next]_vars, ~IsOtel PROVE KeepInv'
  BY ConfSame DEF KeepInv
<1> USE DEF KeepInv
<1>0. ~IsOtel' /\ \A s : SampledIn(s)' = SampledIn(s)
  BY ConfSame
<1>1. CASE SetupOrClose
  BY <1>0, <1>1, SetupOrCloseKeeps
<1>2. ASSUME NEW s \in SpanIDs,
             \/ StartSpan(s) \/ Flatten(s) \/ End(s) \/ OnEnd(s) \/ Send(s)
             \/ \E drop \in BOOLEAN : Add(s, drop)
      PROVE  KeepInv'
  <2>1. (\A t \in SpanIDs \ {s} : span'[t] = span[t]) /\ keep' \ {s} = keep \ {s}
    BY <1>2, SpanSteps
  <2>2. SUFFICES /\ s \in keep' => SampledIn(s)
                 /\ span'[s] \in {"ending", "ended"} /\ SampledIn(s) => s \in keep'
    BY <1>0, <2>1
  <2>3. CASE StartSpan(s)
    BY <2>3 DEF StartSpan, TypeInv
  <2>4. CASE Send(s)
    BY <2>4 DEF Send, TypeInv
  <2>5. CASE \E drop \in BOOLEAN : Add(s, drop)
    BY <2>5 DEF Add, TypeInv
  <2> QED BY <1>2, <2>3, <2>4, <2>5 DEF Flatten, End, OnEnd
<1>3. CASE ExportSpans
  BY <1>3 DEF ExportSpans
<1>4. ASSUME NEW err \in BOOLEAN, ExporterReturns(err) PROVE KeepInv'
  BY <1>0, <1>4 DEF ExporterReturns, spanVars
<1> QED BY <1>1, <1>2, <1>3, <1>4, Steps

(* OnEnd queues a span that is not flattened, and the sampler precedes the *)
(* batch and the senders.                                                  *)
LEMMA OnWayStep == TypeInv /\ WorkerInv /\ OnWayInv /\ [Next]_vars => OnWayInv'
<1> SUFFICES ASSUME TypeInv, WorkerInv, OnWayInv, [Next]_vars PROVE OnWayInv'
  OBVIOUS
<1> USE DEF OnWayInv
<1>0. IsOtel' = IsOtel /\ \A s : SampledIn(s)' = SampledIn(s)
  BY ConfSame
<1>1. CASE SetupOrClose
  BY <1>0, <1>1, SetupOrCloseKeeps
<1>2. ASSUME NEW s \in SpanIDs,
             \/ StartSpan(s) \/ Flatten(s) \/ End(s) \/ OnEnd(s) \/ Send(s)
             \/ \E drop \in BOOLEAN : Add(s, drop)
      PROVE  OnWayInv'
  <2>1. /\ batch' = batch
        /\ \A t \in SpanIDs \ {s} : span'[t] = span[t] /\ next'[t] = next[t]
        /\ flat' \ {s} = flat \ {s} /\ queue' \ {s} = queue \ {s}
        /\ span[s] # "ended"
    BY <1>2, SpanSteps
  <2>2. s \notin queue /\ s \notin batch
    BY <2>1
  <2>3. SUFFICES /\ span'[s] = "none" => s \notin flat'
                 /\ span'[s] = "ending" => s \notin flat' /\ (~IsOtel => SampledIn(s) /\ next'[s] # 0)
                 /\ s \in queue' => span'[s] = "ended" /\ s \notin flat'
    BY <1>0, <2>1, <2>2
  <2>4. CASE StartSpan(s) \/ Flatten(s)
    BY <2>2, <2>4 DEF StartSpan, Flatten, TypeInv, spanVars
  <2>5. CASE End(s)
    BY <2>2, <2>5 DEF End, TypeInv
  <2>6. CASE OnEnd(s)
    BY <2>2, <2>6 DEF OnEnd, TypeInv
  <2>7. CASE Send(s)
    BY <2>2, <2>7 DEF Send, TypeInv, WorkerInv
  <2>8. CASE \E drop \in BOOLEAN : Add(s, drop)
    BY <2>2, <2>8 DEF Add, TypeInv
  <2> QED BY <1>2, <2>4, <2>5, <2>6, <2>7, <2>8
<1>3. CASE ExportSpans
  BY <1>0, <1>3 DEF ExportSpans, TypeInv
<1>4. ASSUME NEW err \in BOOLEAN, ExporterReturns(err) PROVE OnWayInv'
  <2>1. UNCHANGED <<span, flat, next, queue>> /\ batch' \subseteq batch
    BY <1>4 DEF ExporterReturns, spanVars
  <2> QED BY <1>0, <2>1
<1> QED BY <1>1, <1>2, <1>3, <1>4, Steps

(* A span that no part of the step is about stays where it was.            *)
LEMMA RoutedSame ==
  ASSUME [Next]_vars, NEW t \in SpanIDs, NEW i \in 1 .. NumDests, Routed(t, i),
         Reached(t)' = Reached(t), t \in flat' <=> t \in flat,
         t \in got'[i] <=> t \in got[i], <<i, t>> \in lost' <=> <<i, t>> \in lost
  PROVE  Routed(t, i)'
BY ConfSame DEF Routed

(* The steps of Setup and Close offer no span to a destination.            *)
LEMMA RouteSetupOrClose ==
  ASSUME TypeInv, WorkerInv, RouteInv, [Next]_vars, SetupOrClose PROVE RouteInv'
<1>1. UNCHANGED <<span, flat, next, queue, batch, got, lost>>
  BY SetupOrCloseKeeps
<1>2. at' = at \/ batch = {}
  BY DEF SetupOrClose, SetupSteps, StatsdFails, StatsdReady, New, SetupCtxDone, NewFails, ReadResponse,
         CloseBegins, StopSteps, Drained, StopReturns, CloseCtxDone, CloseReturns, vars, WorkerInv
<1>3. \A t \in SpanIDs : Reached(t)' = Reached(t)
  BY <1>1, <1>2, ConfSame DEF Reached
<1> SUFFICES ASSUME NEW t \in SpanIDs, NEW i \in 1 .. NumDests PROVE Routed(t, i)'
  BY ConfSame DEF RouteInv
<1> QED BY <1>1, <1>3, RoutedSame DEF RouteInv

(* A span starts, is flattened or ends: no destination has been offered it *)
(* before, and none gets it in this step.                                  *)
LEMMA RouteEnd ==
  ASSUME TypeInv, WorkerInv, OnWayInv, RouteInv, [Next]_vars, NEW s \in SpanIDs,
         StartSpan(s) \/ Flatten(s) \/ End(s) \/ OnEnd(s) \/ Send(s)
  PROVE  RouteInv'
<1>0. /\ IsOtel' = IsOtel /\ NumDests' = NumDests /\ (\A t : SampledIn(t)' = SampledIn(t))
      /\ NumDests \in Nat \ {0}
  BY ConfSame, Dests DEF TypeInv
<1>1. /\ UNCHANGED <<at, batch>>
      /\ \A t \in SpanIDs \ {s} : span'[t] = span[t] /\ next'[t] = next[t]
      /\ flat' \ {s} = flat \ {s} /\ queue' \ {s} = queue \ {s}
      /\ span[s] # "ended"
  BY SpanSteps
<1>2. s \notin queue /\ s \notin batch
  BY <1>1 DEF OnWayInv
<1>3. /\ got' = got
      /\ lost' = lost \/ lost' = lost \union ((DOMAIN got) \X {s})
  BY DEF StartSpan, Flatten, End, OnEnd, Send, destVars, histVars
<1>4. SUFFICES ASSUME NEW t \in SpanIDs, NEW i \in 1 .. NumDests PROVE Routed(t, i)'
  BY <1>0 DEF RouteInv
<1>5. CASE t # s
  <2>1. Reached(t)' = Reached(t)
    BY <1>0, <1>1, <1>5 DEF Reached
  <2>2. <<i, t>> \in lost' <=> <<i, t>> \in lost
    BY <1>3, <1>5
  <2> QED BY <1>1, <1>3, <1>5, <2>1, <2>2, RoutedSame DEF RouteInv
<1>6. CASE t = s
  <2>1. Reached(s) = 1 /\ s \notin got[i] /\ <<i, s>> \notin lost
    <3>1. span[s] \in {"none", "open"} \/ (span[s] = "ending" /\ IsOtel)
      BY DEF StartSpan, Flatten, End, OnEnd, Send
    <3>2. Reached(s) = 1
      BY <3>1 DEF Reached
    <3> QED BY <1>6, <3>2 DEF RouteInv, Routed
  <2>2. CASE Reached(s)' = 1 /\ lost' = lost
    BY <1>3, <1>6, <2>1, <2>2 DEF Routed
  <2>3. CASE s \in flat' \/ ~SampledIn(s) \/ <<i, s>> \in lost'
    <3>1. CASE Reached(s)' = NumDests + 1
      BY <1>0, <1>3, <1>6, <2>1, <2>3, <3>1 DEF Routed
    <3>2. CASE Reached(s)' # NumDests + 1
      BY <1>0, <1>1, <1>2, <1>3, <1>6, <2>1, <2>2, <2>3, <3>2
      DEF Reached, StartSpan, Flatten, End, OnEnd, Send, histVars, TypeInv
    <3> QED BY <3>1, <3>2
  <2>4. CASE ~(s \in flat' \/ ~SampledIn(s) \/ <<i, s>> \in lost')
    <3>1. DOMAIN got = 1 .. NumDests
      BY DEF TypeInv
    <3>2. lost' = lost
      BY <1>3, <2>4, <3>1
    <3>3. Reached(s)' = 1
      <4>1. CASE StartSpan(s) \/ Flatten(s)
        BY <4>1 DEF StartSpan, Flatten, Reached, TypeInv
      <4>2. CASE End(s)
        BY <1>0, <2>4, <4>2 DEF End, Reached, TypeInv
      <4>3. CASE OnEnd(s)
        <5>1. s \in queue' /\ span'[s] = "ended"
          BY <2>4, <3>1, <4>3 DEF OnEnd, TypeInv
        <5> QED BY <5>1 DEF Reached
      <4>4. CASE Send(s)
        BY <1>0, <2>4, <4>4 DEF Send, Reached, TypeInv
      <4> QED BY <4>1, <4>2, <4>3, <4>4
    <3> QED BY <2>2, <3>2, <3>3
  <2> QED BY <2>3, <2>4
<1> QED BY <1>5, <1>6

(* MultiSender.Add: the span's next sender gets it or loses it.            *)
LEMMA RouteAdd ==
  ASSUME TypeInv, OnWayInv, RouteInv, [Next]_vars,
         NEW s \in SpanIDs, NEW drop \in BOOLEAN, Add(s, drop)
  PROVE  RouteInv'
<1> DEFINE n == next[s]
<1>0. /\ IsOtel' = IsOtel /\ NumDests' = NumDests /\ (\A t : SampledIn(t)' = SampledIn(t))
      /\ NumDests \in Nat \ {0} /\ NumDests = Len(Destinations)
  BY ConfSame, Dests DEF TypeInv, NumDests
<1>1. /\ UNCHANGED <<at, batch, flat, queue>>
      /\ \A t \in SpanIDs \ {s} : span'[t] = span[t] /\ next'[t] = next[t]
      /\ span[s] = "ending" /\ ~IsOtel
  BY SpanSteps DEF Add
<1>2. /\ s \notin queue /\ s \notin batch /\ s \notin flat /\ SampledIn(s)
      /\ n \in 1 .. NumDests
  BY <1>0, <1>1 DEF OnWayInv, TypeInv
<1>3. \/ lost' = lost \union {<<n, s>>} /\ got' = got
      \/ lost' = lost /\ got' = [got EXCEPT ![n] = @ \union {s}]
  BY DEF Add
<1>4. Reached(s) = n
  BY <1>1 DEF Reached
<1>5. Reached(s)' = n + 1
  <2>1. /\ next'[s] = IF n = NumDests THEN 0 ELSE n + 1
        /\ span'[s] = IF next'[s] = 0 THEN "ended" ELSE "ending"
    BY <1>0 DEF Add, NextSender, TypeInv
  <2>2. CASE n = NumDests
    <3>1. span'[s] = "ended" /\ s \notin queue' /\ s \notin batch'
      BY <1>1, <1>2, <2>1, <2>2
    <3> QED BY <1>0, <2>2, <3>1 DEF Reached
  <2>3. CASE n # NumDests
    <3>1. span'[s] = "ending" /\ next'[s] = n + 1
      BY <1>0, <1>2, <2>1, <2>3
    <3> QED BY <1>0, <1>1, <3>1 DEF Reached
  <2> QED BY <2>2, <2>3
<1>6. SUFFICES ASSUME NEW t \in SpanIDs, NEW i \in 1 .. NumDests PROVE Routed(t, i)'
  BY <1>0 DEF RouteInv
<1>7. Routed(t, i)
  BY DEF RouteInv
<1>8. CASE t # s \/ i # n
  <2>0. got'[i] = got[i] \/ (i = n /\ got'[i] = got[i] \union {s})
    BY <1>2, <1>3 DEF TypeInv
  <2>1. (t \in got'[i] <=> t \in got[i]) /\ (<<i, t>> \in lost' <=> <<i, t>> \in lost)
    BY <1>3, <1>8, <2>0
  <2>2. CASE t # s
    <3>1. Reached(t)' = Reached(t)
      BY <1>0, <1>1, <2>2 DEF Reached
    <3> QED BY <1>1, <1>7, <2>1, <3>1, RoutedSame
  <2>3. CASE t = s
    <3>1. i < n + 1 <=> i < n
      BY <1>2, <1>8, <2>3
    <3> QED BY <1>0, <1>1, <1>4, <1>5, <1>7, <2>1, <2>3, <3>1 DEF Routed
  <2> QED BY <2>2, <2>3
<1>9. CASE t = s /\ i = n
  <2>1. s \notin got[n] /\ <<n, s>> \notin lost
    BY <1>2, <1>4, <1>7, <1>9 DEF Routed
  <2>2. s \in got'[n] <=> <<n, s>> \notin lost'
    BY <1>2, <1>3, <2>1 DEF TypeInv
  <2>3. n < Reached(s)'
    BY <1>2, <1>5
  <2> QED BY <1>0, <1>1, <1>2, <1>9, <2>2, <2>3 DEF Routed
<1> QED BY <1>8, <1>9

(* ExportSpans samples the queue: what is left of it goes to the first     *)
(* exporter next.                                                          *)
LEMMA RouteExport ==
  ASSUME TypeInv, WorkerInv, OnWayInv, RouteInv, [Next]_vars, ExportSpans
  PROVE  RouteInv'
<1>0. /\ IsOtel' = IsOtel /\ NumDests' = NumDests /\ (\A t : SampledIn(t)' = SampledIn(t))
      /\ NumDests \in Nat \ {0}
  BY ConfSame, Dests DEF TypeInv
<1>1. /\ batch = {} /\ batch' = {s \in queue : SampledIn(s)}
      /\ queue' = {} /\ at' = 1
      /\ UNCHANGED <<span, flat, next, got, lost>>
  BY DEF ExportSpans, destVars, histVars, WorkerInv
<1>2. SUFFICES ASSUME NEW t \in SpanIDs, NEW i \in 1 .. NumDests PROVE Routed(t, i)'
  BY <1>0 DEF RouteInv
<1>3. CASE t \in queue /\ ~SampledIn(t)
  <2>1. Reached(t) = 1 /\ Reached(t)' = NumDests + 1
    BY <1>0, <1>1, <1>3 DEF Reached, OnWayInv
  <2>2. t \notin got[i]
    <3>1. Routed(t, i) /\ ~(i < 1)
      BY DEF RouteInv
    <3> QED BY <2>1, <3>1 DEF Routed
  <2> QED BY <1>0, <1>1, <1>3, <2>1, <2>2 DEF Routed
<1>4. CASE ~(t \in queue /\ ~SampledIn(t))
  <2>1. Reached(t)' = Reached(t)
    BY <1>0, <1>1, <1>4 DEF Reached, OnWayInv
  <2> QED BY <1>1, <2>1, RoutedSame DEF RouteInv
<1> QED BY <1>3, <1>4

(* An exporter returns: it and those after it lose the batch if it failed, *)
(* or it has the batch and the next one is called.                         *)
LEMMA RouteReturns ==
  ASSUME TypeInv, WorkerInv, OnWayInv, RouteInv, [Next]_vars, NEW err \in BOOLEAN, ExporterReturns(err)
  PROVE  RouteInv'
<1>0. /\ IsOtel' = IsOtel /\ NumDests' = NumDests /\ (\A t : SampledIn(t)' = SampledIn(t))
      /\ NumDests \in Nat \ {0} /\ NumDests = Len(Destinations)
      /\ at \in 1 .. NumDests
  BY ConfSame, Dests DEF TypeInv, NumDests, ExporterReturns
<1>1. UNCHANGED <<span, flat, next, queue>>
  BY DEF ExporterReturns, spanVars
<1>2. /\ at' = IF err \/ at = NumDests THEN 0 ELSE at + 1
      /\ batch' = IF at' = 0 THEN {} ELSE batch
  BY <1>0 DEF ExporterReturns, AfterExport
<1>3. Len(got) = NumDests
  BY <1>0 DEF TypeInv
<1>4. \/ err /\ lost' = lost \union ((at .. NumDests) \X batch) /\ got' = got
      \/ ~err /\ lost' = lost /\ got' = [got EXCEPT ![at] = @ \union batch]
  BY <1>3 DEF ExporterReturns
<1>5. SUFFICES ASSUME NEW t \in SpanIDs, NEW i \in 1 .. NumDests PROVE Routed(t, i)'
  BY <1>0 DEF RouteInv
<1>6. Routed(t, i)
  BY DEF RouteInv
<1>7. CASE t \notin batch
  <2>1. Reached(t)' = Reached(t)
    BY <1>0, <1>1, <1>2, <1>7 DEF Reached
  <2>2. t \in got'[i] <=> t \in got[i]
    BY <1>0, <1>4, <1>7 DEF TypeInv
  <2>3. <<i, t>> \in lost' <=> <<i, t>> \in lost
    BY <1>4, <1>7
  <2> QED BY <1>1, <1>6, <2>1, <2>2, <2>3, RoutedSame
<1>8. CASE t \in batch
  <2>1. /\ span[t] = "ended" /\ t \notin queue /\ t \notin flat /\ SampledIn(t)
        /\ Reached(t) = at
    BY <1>8 DEF OnWayInv, Reached
  <2>2. Reached(t)' = IF err THEN NumDests + 1 ELSE at + 1
    BY <1>0, <1>1, <1>2, <1>8, <2>1 DEF Reached
  <2>3. CASE i < at
    <3>1. t \in got[i] <=> <<i, t>> \notin lost
      BY <1>6, <2>1, <2>3 DEF Routed
    <3>2. t \in got'[i] <=> t \in got[i]
      BY <1>0, <1>4, <2>3 DEF TypeInv
    <3>3. <<i, t>> \in lost' <=> <<i, t>> \in lost
      BY <1>0, <1>4, <2>3
    <3>4. i < Reached(t)'
      BY <1>0, <2>2, <2>3
    <3> QED BY <1>0, <1>1, <2>1, <3>1, <3>2, <3>3, <3>4 DEF Routed
  <2>4. CASE ~(i < at)
    <3>1. t \notin got[i] /\ <<i, t>> \notin lost
      BY <1>6, <2>1, <2>4 DEF Routed
    <3>2. CASE err
      <4>1. i \in at .. NumDests
        BY <1>0, <2>4
      <4>2. <<i, t>> \in lost' /\ t \notin got'[i] /\ i < Reached(t)'
        BY <1>0, <1>4, <1>8, <2>2, <3>1, <3>2, <4>1
      <4> QED BY <4>2 DEF Routed
    <3>3. CASE ~err /\ i = at
      <4>1. t \in got'[i] /\ <<i, t>> \notin lost' /\ i < Reached(t)'
        BY <1>0, <1>4, <1>8, <2>2, <3>1, <3>3 DEF TypeInv
      <4> QED BY <1>0, <1>1, <2>1, <4>1 DEF Routed
    <3>4. CASE ~err /\ i # at
      <4>1. t \notin got'[i] /\ <<i, t>> \notin lost' /\ ~(i < Reached(t)')
        BY <1>0, <1>4, <2>2, <2>4, <3>1, <3>4 DEF TypeInv
      <4> QED BY <4>1 DEF Routed
    <3> QED BY <3>2, <3>3, <3>4
  <2> QED BY <2>3, <2>4
<1> QED BY <1>7, <1>8

-----------------------------------------------------------------------------
(* The inductive invariant.                                                *)
THEOREM Invariance == Spec => []IInv
<1>1. IInv /\ [Next]_vars => IInv'
  <2> SUFFICES ASSUME IInv, [Next]_vars PROVE IInv'
    OBVIOUS
  <2>1. RouteInv'
    BY Steps, RouteSetupOrClose, RouteEnd, RouteAdd, RouteExport, RouteReturns DEF IInv
  <2> QED BY <2>1, TypeStep, LifeStep, WorkerStep, CountStep, KeepStep, OnWayStep DEF IInv
<1> QED BY <1>1, Initially, PTL DEF Spec

(* span.End, and the hooks New installs for honeycomb: whatever the        *)
(* sampler says and however Close interleaves, the metrics of a span that  *)
(* ended before Close reach an open metrics provider exactly once.         *)
THEOREM CountedOnce == Spec => []MetricsOnce
<1>1. IInv => MetricsOnce
  BY DEF IInv, CountInv, MetricsOnce
<1> QED BY <1>1, Invariance, PTL

(* TraceSampler.Hook and shouldSample: a trace is kept whole down to the   *)
(* rates of its spans, for every checksum, every width, and every int as a *)
(* rate that does not wrap to zero.                                        *)
THEOREM WholeTraces == Spec => []TraceSampledWhole
<1>1. IInv => TraceSampledWhole
  <2> SUFFICES ASSUME IInv, NEW s \in SpanIDs, NEW t \in SpanIDs, ~IsOtel, TraceOf[s] = TraceOf[t],
                      SampledNoLess(s, t), t \in keep, span[s] \in {"ending", "ended"}
               PROVE  s \in keep
    BY DEF TraceSampledWhole
  <2> DEFINE p == uint32(conf.rates[s])
             q == uint32(conf.rates[t])
             v == hash[Determinant(t)]
  <2>1. SampledIn(t)
    BY DEF IInv, KeepInv
  <2>2. SampledIn(s)
    <3>1. p \in Nat \ {0} /\ q \in Nat \ {0}
      <4>1. conf \in Confs /\ conf.kind = "honeycomb"
        BY ExportAssumption DEF IInv, TypeInv, IsOtel
      <4>2. conf.rates[s] \in Int /\ conf.rates[t] \in Int
        BY <4>1, ExportAssumption
      <4>3. p # 0 /\ q # 0
        BY <4>1, ExportAssumption
      <4> QED BY <4>2, <4>3, ExportAssumption DEF uint32
    <3>2. Determinant(s) = Determinant(t) /\ v \in Nat
      BY DEF Determinant, IInv, TypeInv
    <3>3. CASE conf.rates[s] = 1
      BY <3>3 DEF SampledIn, shouldSample
    <3>4. CASE conf.sampling /\ conf.rates[s] # 1
      <4>1. conf.rates[t] # 1 /\ p <= q
        BY <3>4 DEF SampledNoLess
      <4>2. Below(v, q)
        BY <2>1, <3>4, <4>1 DEF SampledIn, shouldSample
      <4>3. Below(v, p)
        BY <3>1, <3>2, <4>1, <4>2, BelowMonotone
      <4> QED BY <3>2, <4>3 DEF SampledIn, shouldSample
    <3> QED BY <3>3, <3>4 DEF SampledIn
  <2> QED BY <2>2 DEF IInv, KeepInv
<1> QED BY <1>1, Invariance, PTL

(* Provider.Close, multipleExporter and MultiSender: when Close returned,  *)
(* and was not cut short, every destination has exactly the spans that     *)
(* ended before it, were sampled in and were not lost on the way there.    *)
THEOREM Delivered == Spec => []CloseDelivers
<1>1. IInv => CloseDelivers
  <2> SUFFICES ASSUME IInv, Closed, ~cut, NEW s \in SpanIDs \ late, NEW i \in DOMAIN got
               PROVE  s \in got[i] <=> s \notin flat /\ SampledIn(s) /\ <<i, s>> \notin lost
    BY DEF CloseDelivers
  <2>1. up = "stopped" /\ span[s] = "ended"
    BY DEF IInv, Closed, LifeInv, Began
  <2>2. queue = {} /\ batch = {}
    BY <2>1 DEF IInv, WorkerInv
  <2>3. Reached(s) = NumDests + 1
    BY <2>1, <2>2 DEF Reached
  <2>4. NumDests \in Nat /\ i \in 1 .. NumDests
    BY Dests DEF IInv, TypeInv
  <2>5. Routed(s, i) /\ i < Reached(s)
    BY <2>3, <2>4 DEF IInv, RouteInv
  <2> QED BY <2>5 DEF Routed
<1> QED BY <1>1, Invariance, PTL
===============================================================================
