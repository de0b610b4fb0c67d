------------------------------- MODULE MCExport -------------------------------
(***************************************************************************)
(* Two spans of one trace and the configurations that differ in what runs. *)
(* With three bits, nine is a rate that does not fit.                      *)
(***************************************************************************)
EXTENDS Export

MCTraceOf == [s \in SpanIDs |-> "trace"]

MCConf(kind, remotes, noText, statsd) ==
  [kind |-> kind, remotes |-> remotes, noText |-> noText, sampling |-> FALSE,
   rates |-> [s \in SpanIDs |-> 1], statsd |-> statsd]

MCSampled(c, p, q) == [c EXCEPT !.sampling = TRUE, !.rates = [s1 |-> p, s2 |-> q]]

MCConfs ==
  { MCConf("otel", <<"grpc", "http">>, FALSE, TRUE),
    MCSampled(MCConf("otel", <<"grpc">>, TRUE, FALSE), 2, 3),
    MCSampled(MCConf("otel", <<>>, TRUE, FALSE), 9, -1),
    MCConf("honeycomb", <<"remote">>, FALSE, FALSE),
    MCSampled(MCConf("honeycomb", <<"remote">>, FALSE, TRUE), 2, 3),
    MCSampled(MCConf("honeycomb", <<>>, FALSE, FALSE), 3, 10),
    MCSampled(MCConf("honeycomb", <<>>, FALSE, FALSE), 1, 9),
    MCConf("honeycomb", <<>>, TRUE, FALSE) }

===============================================================================
