------------------------------- MODULE Spans -------------------------------
(***************************************************************************)
(* The spans of o11y/otel as requests use them: the server span that the   *)
(* middlewares start, spans of the handlers and of goroutines that outlive *)
(* them, fields of spans and traces, flattened spans, whose fields go to   *)
(* their parent instead of the collector, golden spans, which repeat a     *)
(* span in a second trace, and calls from service to service, which carry  *)
(* trace, flatten depth and golden trace in their headers.                 *)
(*                                                                         *)
(* Tasks are goroutines.  A context carries a span, a golden spec and the  *)
(* extras in its baggage; a task has a stack of them, the lowest inherited *)
(* and the others of spans that it has to end.  Values of fields are left  *)
(* out: a field is its key, the sequence of its prefixes and its name.     *)
(***************************************************************************)
EXTENDS Naturals, FiniteSets, SequencesExt

CONSTANTS
  Tasks,        \* goroutines, of any service
  MaxSpans,     \* bound: spans started
  Errors        \* what operations end with: members of ErrorKinds

VARIABLES
  spans,        \* the wrapper's spans in the order of their creation
  specs,        \* the golden specs that contexts point to
  ctxs,         \* the stack of contexts of every task
  pc,           \* where in an operation a task is
  tmp,          \* the spec and the span that MakeSpanGolden works on
  late,         \* history: spans flattened into a parent that had ended
  added         \* history: fields added to the trace of a root span

vars == <<spans, specs, ctxs, pc, tmp, late, added>>

none == 0
NoExtras == [flatten |-> 0, golden |-> none]

(* History: the golden trace that the context descends from, and whether a *)
(* golden member of the baggage could not be set on the way.               *)
Background == [span |-> none, spec |-> none, bag |-> NoExtras, gold |-> none, lossy |-> FALSE]

(* An error as errors.Is sees it: the kinds of the errors that it wraps or *)
(* joins, and whether AllWarning wraps the lot.  No kinds: nil.            *)
ErrorKinds == [kinds : SUBSET {"warning", "canceled", "other"}, all : BOOLEAN]

IsWarning(err) ==
  IF err.all THEN err.kinds = {"warning"} ELSE "warning" \in err.kinds

(* The keys that tell results apart: "result" itself is always set. *)
AddResultToSpan(err) ==
  IF IsWarning(err) \/ "canceled" \in err.kinds THEN {<<"warning">>}
  ELSE IF err.kinds # {} THEN {<<"error">>} ELSE {}

(***************************************************************************)
(* Starting spans.                                                         *)
(***************************************************************************)
New == Len(spans) + 1
Room(n) == Len(spans) + n <= MaxSpans
Top(t) == Last(ctxs[t])
Cur(t) == Top(t).span

Level(d) == <<"l1", "l2", "l3", "l4", "l5", "l6">>[d]

flatten(s, parentDepth, prefix) ==
  [s EXCEPT !.depth = parentDepth + 1,
            !.prefix = IF prefix = "" THEN Level(parentDepth + 1) ELSE prefix,
            !.fields = @ \union {<<"flattened">>}]

(* Mutant: every span has trace fields of its own. *)
traceOf_Own(id, p) == id

(* The span that holds the fields of the trace. *)
traceOf(id, p) == IF p = none THEN id ELSE spans[p].tr

wrapSpan(id, p, trace) ==
  LET s == [parent |-> p, tr |-> traceOf(id, p), trace |-> trace,
            root |-> IF p = none THEN id ELSE spans[p].root,
            depth |-> 0, prefix |-> "", golden |-> none,
            fields |-> {}, traceFields |-> {},
            closed |-> FALSE, sent |-> {}, due |-> {}, twin |-> none]
  IN IF p # none /\ spans[p].prefix # "" THEN flatten(s, spans[p].depth, "") ELSE s

Push(t, id, c) == ctxs' = [ctxs EXCEPT ![t] = Append(@, [c EXCEPT !.span = id])]

StartSpan(t) ==
  /\ pc[t] = "run" /\ Room(1)
  /\ spans' = Append(spans, wrapSpan(New, Cur(t), spans[Cur(t)].trace))
  /\ Push(t, New, Top(t))
  /\ UNCHANGED <<specs, pc, tmp, late, added>>

(* A request without propagation headers reaches a service: it comes from  *)
(* elsewhere, or its client sends none (Propagation, disableW3c), or the   *)
(* service does not read them (disableW3c).                                *)
Request(t) ==
  /\ pc[t] = "idle" /\ Room(1)
  /\ spans' = Append(spans, wrapSpan(New, none, New))
  /\ ctxs' = [ctxs EXCEPT ![t] = <<Background, [Background EXCEPT !.span = New]>>]
  /\ pc' = [pc EXCEPT ![t] = "run"]
  /\ UNCHANGED <<specs, tmp, late, added>>

(* The members that AddExtrasToBaggage sets.                               *)
Extras(c) ==
  (IF spans[c.span].depth > 0 THEN {"flatten"} ELSE {}) \union (IF c.spec # none THEN {"golden"} ELSE {})

(* They replace those that the context has from the hop before; one that   *)
(* cannot be set leaves the old one.                                       *)
WithBaggage(bag, extras, set) == [m \in DOMAIN bag |-> IF m \in set THEN extras[m] ELSE bag[m]]

(* What is sent: the baggage of the context with the extras, of which some *)
(* failed.                                                                 *)
ExtractPropagation(c, failed) ==
  WithBaggage(c.bag,
              [flatten |-> spans[c.span].depth, golden |-> IF c.spec = none THEN none ELSE specs[c.spec].trace],
              Extras(c) \ failed)

(* Mutant: the golden headers are not found in the baggage. *)
ExtrasFromBaggage_NoGold(bag) == [flatten |-> bag.flatten, gold |-> none]

(* What the callee finds in the baggage of its request. *)
ExtrasFromBaggage(bag) == [flatten |-> bag.flatten, gold |-> bag.golden]

(* The caller's span after members of the baggage failed. *)
BaggageErrors(s, failed) ==
  IF failed = {} THEN spans ELSE [spans EXCEPT ![s].fields = @ \union {<<"baggage_error">>}]

(* Bound: a task that is done serves again only for a further hop of a     *)
(* call that carries extras.                                               *)
Serves(u, c) == pc[u] = "idle" \/ (pc[u] = "done" /\ c.bag # NoExtras)

(* t's service calls another one, whose middleware runs as task u.  The    *)
(* golden context that InjectPropagation builds still carries the server   *)
(* span, so golden spans started from it have the server span as parent.   *)
Call(t, u, failed) ==
  LET bag == ExtractPropagation(Top(t), failed)
      extras == ExtrasFromBaggage(bag)
      s == wrapSpan(New, none, spans[Cur(t)].trace)
      found == extras.gold # none
  IN /\ pc[t] = "run" /\ Serves(u, Top(t)) /\ Room(1)
     /\ failed \subseteq Extras(Top(t))
     /\ spans' = Append(BaggageErrors(Cur(t), failed),
                        IF extras.flatten > 0 THEN flatten(s, extras.flatten, "") ELSE s)
     /\ specs' = IF found THEN Append(specs, [cur |-> New, trace |-> extras.gold]) ELSE specs
     /\ ctxs' = [ctxs EXCEPT ![u] =
                   <<Background, [span |-> New, spec |-> IF found THEN Len(specs) + 1 ELSE none, bag |-> bag,
                                  gold |-> Top(t).gold, lossy |-> Top(t).lossy \/ "golden" \in failed]>>]
     /\ pc' = [pc EXCEPT ![u] = "run"]
     /\ UNCHANGED <<tmp, late, added>>

(* t starts a goroutine with its context, which may outlive t's span. *)
Go(t, u) ==
  /\ pc[t] = "run" /\ pc[u] = "idle"
  /\ ctxs' = [ctxs EXCEPT ![u] = <<Top(t)>>]
  /\ pc' = [pc EXCEPT ![u] = "run"]
  /\ UNCHANGED <<spans, specs, tmp, late, added>>

(***************************************************************************)
(* Fields.                                                                 *)
(***************************************************************************)
AddField(t) ==
  /\ pc[t] = "run"
  /\ \A s \in DOMAIN spans : <<"app">> \notin spans[s].fields     \* bound: one such field
  /\ spans' = [spans EXCEPT ![Cur(t)].fields = @ \union {<<"app">>}]
  /\ UNCHANGED <<specs, ctxs, pc, tmp, late, added>>

AddFieldToTrace(t) ==
  /\ pc[t] = "run"
  /\ spans' = [spans EXCEPT ![spans[Cur(t)].tr].traceFields = @ \union {"trace"}]
  /\ added' = added \union {<<spans[Cur(t)].root, "trace">>}
  /\ UNCHANGED <<specs, ctxs, pc, tmp, late>>

(* The owner of a span flattens it, as httpclient does. *)
Flatten(t) ==
  LET s == Cur(t) IN
  /\ pc[t] = "run" /\ Len(ctxs[t]) > 1
  /\ \A o \in DOMAIN spans : spans[o].prefix # "hc"                \* bound: one such span
  /\ spans' = [spans EXCEPT ![s] =
       flatten(@, IF @.parent = none THEN 0 ELSE spans[@.parent].depth, "hc")]
  /\ UNCHANGED <<specs, ctxs, pc, tmp, late, added>>

(***************************************************************************)
(* MakeSpanGolden: the golden span is started from the spec's context,     *)
(* that context is replaced, and the golden span is read back from it.     *)
(* o11ygin.Golden drops the context that MakeSpanGolden returns.           *)
(***************************************************************************)
MakeSpanGolden(t, kept) ==
  LET fresh == Top(t).spec = none
      spec == IF fresh THEN Len(specs) + 1 ELSE Top(t).spec
      all == IF fresh THEN Append(specs, [cur |-> none, trace |-> MaxSpans + spec]) ELSE specs
  IN /\ pc[t] = "run" /\ Room(1)
     /\ specs' = all
     /\ spans' = Append(spans, wrapSpan(New, all[spec].cur, all[spec].trace))
     /\ ctxs' = IF kept /\ fresh
                THEN [ctxs EXCEPT ![t][Len(ctxs[t])] = [@ EXCEPT !.spec = spec,
                         !.gold = all[spec].trace, !.lossy = FALSE]]
                ELSE ctxs
     /\ tmp' = [tmp EXCEPT ![t] = [spec |-> spec, golden |-> New]]
     /\ pc' = [pc EXCEPT ![t] = "store"]
     /\ UNCHANGED <<late, added>>

StoreGolden(t) ==
  /\ pc[t] = "store"
  /\ specs' = [specs EXCEPT ![tmp[t].spec].cur = tmp[t].golden]
  /\ pc' = [pc EXCEPT ![t] = "bind"]
  /\ UNCHANGED <<spans, ctxs, tmp, late, added>>

BindGolden(t) ==
  LET g == specs[tmp[t].spec].cur IN
  /\ pc[t] = "bind"
  /\ spans' = [spans EXCEPT ![Cur(t)].golden = g,
                            ![g].fields = @ \union {<<"meta.golden">>}]
  /\ tmp' = [tmp EXCEPT ![t] = [spec |-> none, golden |-> none]]
  /\ pc' = [pc EXCEPT ![t] = "run"]
  /\ UNCHANGED <<specs, ctxs, late, added>>

(***************************************************************************)
(* Ending a span: results and trace fields are added and metrics sent, the *)
(* span is ended or its fields are added to its parent, then its golden    *)
(* span is ended.                                                          *)
(***************************************************************************)
(* History: what was added so far through any span of s's trace. *)
Due(s) == {<<a[2]>> : a \in {b \in added : b[1] = spans[s].root}}

TraceFields(s) == {<<f>> : f \in spans[spans[s].tr].traceFields}

(* Bound: one operation fails. *)
OneFails(result) ==
  <<"error">> \in result => \A s \in DOMAIN spans : <<"error">> \notin spans[s].fields

BeginEnd(t, s, result) ==
  LET fields == spans[s].fields \union result \union TraceFields(s) IN
  /\ OneFails(result)
  /\ spans' = [spans EXCEPT ![s].fields = fields, ![s].due = Due(s)]
  /\ pc' = [pc EXCEPT ![t] = "end"]
  /\ UNCHANGED <<specs, ctxs, tmp, late, added>>

(* The span on top of t's stack is the one of a middleware. *)
AtServer(t) == Len(ctxs[t]) = 2 /\ ctxs[t][1] = Background

(* o11y.End of a span with the error of its operation. *)
End(t, err) ==
  /\ pc[t] = "run" /\ Len(ctxs[t]) > 1 /\ ~AtServer(t)
  /\ BeginEnd(t, Cur(t), AddResultToSpan(err))

(* The middleware ends its span without a result, or with that of an       *)
(* aborted handler, which Recovery adds; to any other panic it adds fields *)
(* like those of AddField.                                                 *)
EndServer(t, recovered) ==
  /\ pc[t] = "run" /\ AtServer(t)
  /\ BeginEnd(t, Cur(t), IF recovered = "ErrAbortHandler"
                         THEN AddResultToSpan([kinds |-> {"other"}, all |-> FALSE]) ELSE {})

Pop(t) ==
  /\ ctxs' = [ctxs EXCEPT ![t] = IF AtServer(t) THEN <<>> ELSE Front(@)]
  /\ pc' = [pc EXCEPT ![t] = IF AtServer(t) THEN "done" ELSE "run"]

(* Mutant: the prefix of the flattened span is left out. *)
prefixed_Plain(s, fields) == fields

prefixed(s, fields) == {<<s.prefix>> \o f : f \in fields}

(* A span ends for the collector once: what is added later is not sent. *)
Closed(s) ==
  IF s.closed THEN s ELSE [s EXCEPT !.closed = TRUE, !.sent = s.fields, !.twin = s.golden]

(* The spans after span s of all ended: a flattened one only adds its      *)
(* fields to those of its parent.                                          *)
endSpan(all, s) ==
  LET closed == [all EXCEPT ![s] = Closed(@)]
      p == all[s].parent
  IN IF all[s].prefix = "" \/ p = none THEN closed
     ELSE [closed EXCEPT ![p].fields = @ \union prefixed(all[s], all[s].fields)]

Overtaken(s) ==
  LET p == spans[s].parent IN p # none /\ spans[s].prefix # "" /\ spans[p].closed

EndSpan(t) ==
  LET s == Cur(t) IN
  /\ pc[t] = "end"
  /\ spans' = endSpan(spans, s)
  /\ late' = IF Overtaken(s) THEN late \union {s} ELSE late
  /\ IF spans[s].prefix = "" /\ spans[s].golden # none
     THEN pc' = [pc EXCEPT ![t] = "golden"] /\ UNCHANGED ctxs
     ELSE Pop(t)
  /\ UNCHANGED <<specs, tmp, added>>

(* Mutant: the golden span is ended before the fields are copied. *)
copyAttrsFrom_Late(g, s) == spans[g].fields \union TraceFields(g)

(* name and duration_ms, which the golden span has of its own, are not     *)
(* among the fields of the model.                                          *)
copyAttrsFrom(g, s) == spans[g].fields \union spans[s].fields \union TraceFields(g)

EndGolden(t) ==
  LET s == Cur(t)
      g == spans[s].golden
      fields == copyAttrsFrom(g, s)
      copied == [spans EXCEPT ![g].fields = fields, ![g].due = Due(g)]
  IN /\ pc[t] = "golden"
     /\ spans' = endSpan(copied, g)
     /\ late' = IF Overtaken(g) THEN late \union {g} ELSE late
     /\ Pop(t)
     /\ UNCHANGED <<specs, tmp, added>>

(* A goroutine that has ended its own spans returns. *)
Return(t) ==
  /\ pc[t] = "run" /\ Len(ctxs[t]) = 1
  /\ ctxs' = [ctxs EXCEPT ![t] = <<>>]
  /\ pc' = [pc EXCEPT ![t] = "done"]
  /\ UNCHANGED <<spans, specs, tmp, late, added>>

Done == (\A t \in Tasks : pc[t] \in {"idle", "done"}) /\ UNCHANGED vars

-----------------------------------------------------------------------------
Init ==
  /\ spans = <<>> /\ specs = <<>> /\ late = {} /\ added = {}
  /\ ctxs = [t \in Tasks |-> <<>>]
  /\ pc = [t \in Tasks |-> "idle"]
  /\ tmp = [t \in Tasks |-> [spec |-> none, golden |-> none]]

Step(t) ==
  \/ StartSpan(t) \/ AddField(t) \/ AddFieldToTrace(t) \/ Flatten(t)
  \/ \E kept \in BOOLEAN : MakeSpanGolden(t, kept)
  \/ StoreGolden(t) \/ BindGolden(t)
  \/ \E err \in Errors : End(t, err)
  \/ \E recovered \in {"nil", "ErrAbortHandler"} : EndServer(t, recovered)
  \/ EndSpan(t) \/ EndGolden(t) \/ Return(t)
  \/ Request(t)
  \/ \E u \in Tasks : Go(t, u) \/ \E failed \in SUBSET {"flatten", "golden"} : Call(t, u, failed)

Next == (\E t \in Tasks : Step(t)) \/ Done

Spec == Init /\ [][Next]_vars

-----------------------------------------------------------------------------
Ids == DOMAIN spans

(* Fields of a flattened span are not lost: once it has ended, they are,   *)
(* under its prefix, on the parent, and when the parent has ended too they *)
(* are among what it sent or handed on, unless the parent ended first. The *)
(* levels in the prefixes of a field are distinct, also over calls of      *)
(* services, so that no field of an inner span takes the place of one of   *)
(* an outer span of the same flattened chain.                              *)
FlattenedReachParent ==
  \A s \in Ids :
    /\ spans[s].closed /\ spans[s].prefix # "" /\ spans[s].parent # none /\ s \notin late =>
         LET p == spans[spans[s].parent]
         IN {<<spans[s].prefix>> \o f : f \in spans[s].sent} \subseteq IF p.closed THEN p.sent ELSE p.fields
    /\ \A f \in spans[s].fields : \A i, j \in DOMAIN f : i < j => ~(f[i] = f[j] /\ f[i] # "hc")

(* A field that was added to the trace before End of a span of the trace   *)
(* read the trace's fields is on that span when it is sent, whichever task *)
(* and whichever span of the trace it was added through.                   *)
TraceFieldsOnEverySpan ==
  \A s \in Ids : spans[s].closed => spans[s].due \subseteq spans[s].sent

(* A golden span repeats its span: once End of the span is over the golden *)
(* span has ended too, with all that the span sent, as long as no other    *)
(* span was given the same golden span, the span was not given another     *)
(* while it ended, and the golden one is not itself flattened.             *)
GoldenCarriesSpan ==
  \A s \in Ids :
    LET g == spans[s].twin IN
    /\ spans[s].closed /\ spans[s].prefix = "" /\ g # none
    /\ ~\E t \in Tasks : pc[t] = "golden" /\ Cur(t) = s
    /\ spans[s].golden = g /\ spans[g].prefix = ""
    /\ \A o \in Ids \ {s} : spans[o].golden # g /\ spans[o].twin # g
    => spans[g].closed /\ spans[s].sent \subseteq spans[g].sent

(* "if propagation of the golden trace is bad - this will be 4": a context *)
(* that descends from one with a golden trace, in the same service or over *)
(* calls that send headers, has that golden trace and starts no other. It  *)
(* has none only after a hop whose golden member could not be put into the *)
(* baggage, and never that of another trace.                               *)
GoldenTraceFollows ==
  \A t \in Tasks : \A i \in DOMAIN ctxs[t] :
    LET c == ctxs[t][i]
    IN c.gold # none => \/ c.spec # none /\ specs[c.spec].trace = c.gold
                        \/ c.spec = none /\ c.lossy

=============================================================================
