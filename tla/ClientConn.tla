------------------------------ MODULE ClientConn ------------------------------
(***************************************************************************)
(* The connections of an HTTP client as its tracer sees them:              *)
(* httpclient/metrics counts round trips and estimates the number of idle  *)
(* connections from the callbacks of net/http/httptrace. The transport, a  *)
(* clone of http.DefaultTransport, is external; its steps are those at     *)
(* which it calls the tracer, or moves a connection without calling it. It *)
(* speaks HTTP/2 to a host that negotiates it: there requests share a      *)
(* connection, which is never put back. Dials go through DNSCache.         *)
(***************************************************************************)
EXTENDS Integers, DNSCache

CONSTANTS
  Conns,           \* names for MaxConnsPerHost connections
  NoConn,
  MaxSilent        \* bound on connections that come or go without a callback,
                   \* and on the reuses of one over HTTP/2

Requests == Dialers

ASSUME ConnAssumption == NoConn \notin Conns

VARIABLES
  inFlight, inFlightMax,   \* the Metrics' counters, under its mutex
  poolAvailable,           \* the Metrics' atomic estimate of idle connections
  rpc,      \* [Requests -> where the request is in RoundTrip]
  conn,     \* [Requests -> the connection it has]
  how,      \* [Requests -> how it got it: "new", "idle", "handed" or "shared"]
  traced,   \* requests in RoundTrip whose r.con the tracer has set
  own,      \* requests that wait for a dial of their own
  idle,     \* the transport's idle connections
  proto,    \* what the host speaks: "h1" or "h2"
  mux,      \* the HTTP/2 connection: "none", "dialled", "used"
  silent,   \* history: connections that became reusable without PutIdleConn
  dropped   \* history: idle connections closed by either side

tripVars == <<inFlight, inFlightMax>>
poolVars == <<conn, how, own, idle, silent, dropped>>
muxVars  == <<traced, proto, mux>>
connVars == <<dnsVars, tripVars, poolAvailable, rpc, poolVars, muxVars>>

CInit ==
  /\ DNSInit
  /\ inFlight = 0 /\ inFlightMax = 0
  /\ poolAvailable = 0
  /\ rpc = [r \in Requests |-> "off"]
  /\ conn = [r \in Requests |-> NoConn]
  /\ how = [r \in Requests |-> "none"]
  /\ own = {}
  /\ idle = {}
  /\ silent = 0 /\ dropped = 0
  /\ traced = {} /\ proto \in {"h1", "h2"} /\ mux = "none"

Dialing == {r \in Requests : dpc[r] # "off"}
InUse   == {conn[r] : r \in Requests} \ {NoConn}
Free    == Conns \ (InUse \union idle)
Shared  == IF mux = "none" THEN 0 ELSE 1
HasRoom == Cardinality(Dialing) + Shared < Cardinality(Free)

Waiters == {r \in Requests : rpc[r] = "wait"}

Step(r, place) == rpc' = [rpc EXCEPT ![r] = place]

-----------------------------------------------------------------------------
(* Metrics.RoundTrip around the transport's.                               *)

RoundTrip(r) ==
  /\ rpc[r] = "off"
  /\ Step(r, "get")
  /\ inFlight' = inFlight + 1
  /\ inFlightMax' = IF inFlight + 1 > inFlightMax THEN inFlight + 1 ELSE inFlightMax
  /\ UNCHANGED <<dnsVars, poolAvailable, poolVars, muxVars>>

(* The deferred function runs on every way out.                            *)
TripOver(err) == 1

Leaves(r, err, place) ==
  /\ Step(r, place)
  /\ inFlight' = inFlight - TripOver(err)
  /\ traced' = traced \ {r}
  /\ UNCHANGED <<inFlightMax, proto, mux>>

-----------------------------------------------------------------------------
(* Getting a connection. Trace callbacks run in the goroutine that is      *)
(* named, after the transport's own step.                                  *)

Delivers(r, c, kind) ==
  /\ conn' = [conn EXCEPT ![r] = c]
  /\ how' = [how EXCEPT ![r] = kind]

(* The callback sets r.con.                                                *)
GetConn(r) ==
  /\ traced' = traced \union {r}
  /\ UNCHANGED proto

(* GetConn, and an idle connection is there.                               *)
GetIdle(r) ==
  /\ rpc[r] = "get"
  /\ GetConn(r)
  /\ \E c \in idle : Delivers(r, c, "idle") /\ idle' = idle \ {c}
  /\ Step(r, "got")
  /\ UNCHANGED <<dnsVars, tripVars, poolAvailable, own, silent, dropped, mux>>

(* GetConn, and there is none: the request waits.                          *)
GetWaits(r) ==
  /\ rpc[r] = "get"
  /\ idle = {} /\ mux = "none"
  /\ GetConn(r)
  /\ Step(r, "wait")
  /\ UNCHANGED <<dnsVars, tripVars, poolAvailable, poolVars, mux>>

(* HTTP/2: the request gets a stream of the connection. GetConn was called *)
(* for the dial and is not called again for the first stream, which may be *)
(* another request's. The first to use the connection finds it new.        *)
GetStream(r) ==
  /\ rpc[r] = "get"
  /\ mux # "none"
  /\ IF mux = "dialled" THEN UNCHANGED <<traced, proto>> ELSE GetConn(r)
  /\ mux' = "used"
  /\ \E kind \in {"new", "shared"} : how' = [how EXCEPT ![r] = kind]
  /\ Step(r, "got")
  /\ UNCHANGED <<dnsVars, tripVars, poolAvailable, conn, own, idle, silent, dropped>>

(* A dial is started for a request that waits, as the limit allows; the    *)
(* dial goes on in the background if the request does not need it any more.*)
Dial(r) ==
  /\ rpc[r] = "wait"
  /\ HasRoom
  /\ Resolve(r)
  /\ own' = own \union {r}
  /\ UNCHANGED <<tripVars, poolAvailable, rpc, conn, how, idle, silent, dropped, muxVars>>

(* Mutant: connections handed over directly are not counted.               *)
GotReused_IdleOnly(kind) == kind = "idle"

GotReused(kind) == kind # "new"

(* gotCon: a reused connection is one less in the pool; without r.con      *)
(* nothing is counted.                                                     *)
GotConn(r) ==
  /\ rpc[r] = "got"
  /\ how[r] = "shared" => poolAvailable > -MaxSilent
  /\ poolAvailable' =
       IF r \in traced /\ GotReused(how[r]) THEN poolAvailable - 1 ELSE poolAvailable
  /\ Step(r, "sent")
  /\ UNCHANGED <<dnsVars, tripVars, poolVars, muxVars>>

(* Connection c becomes reusable: it is handed to a request that waits, or *)
(* else it is idle.                                                        *)
Reusable(c, conns, hows, places) ==
  \/ \E w \in Waiters :
       /\ conn' = [conns EXCEPT ![w] = c]
       /\ how' = [hows EXCEPT ![w] = "handed"]
       /\ own' = own \ {w}
       /\ rpc' = [places EXCEPT ![w] = "got"]
       /\ UNCHANGED idle
  \/ /\ Waiters = {}
     /\ idle' = idle \union {c}
     /\ conn' = conns
     /\ how' = hows
     /\ rpc' = places
     /\ UNCHANGED own

(* A dial succeeds: its request still waits for it,                        *)
Dialed(r) ==
  /\ dpc[r] = "connected" /\ proto = "h1"
  /\ r \in own
  /\ own' = own \ {r}
  /\ \E c \in Free : Delivers(r, c, "new")
  /\ Step(r, "got")
  /\ DialOver(r)
  /\ UNCHANGED <<tripVars, poolAvailable, idle, silent, dropped, muxVars>>

(* or does not: the connection is reusable, and no callback tells.         *)
DialedSpare(r) ==
  /\ dpc[r] = "connected" /\ proto = "h1"
  /\ r \notin own
  /\ silent < MaxSilent
  /\ \E c \in Free : Reusable(c, conn, how, rpc)
  /\ silent' = silent + 1
  /\ DialOver(r)
  /\ UNCHANGED <<tripVars, poolAvailable, dropped, muxVars>>

(* HTTP/2: the connection is for everyone who waits. A second one is not   *)
(* needed and is closed.                                                   *)
DialedShared(r) ==
  /\ dpc[r] = "connected" /\ proto = "h2"
  /\ rpc' = [s \in Requests |-> IF s \in Waiters THEN "get" ELSE rpc[s]]
  /\ own' = {}
  /\ mux' = IF mux = "none" THEN "dialled" ELSE mux
  /\ DialOver(r)
  /\ UNCHANGED <<tripVars, poolAvailable, conn, how, idle, silent, dropped, traced, proto>>

(* A dial fails; the request that waits for it fails with it.              *)
DialFailed(r) ==
  /\ dpc[r] = "failed"
  /\ own' = own \ {r}
  /\ IF r \in own THEN Leaves(r, TRUE, "off") ELSE UNCHANGED <<rpc, tripVars, muxVars>>
  /\ DialOver(r)
  /\ UNCHANGED <<poolAvailable, conn, how, idle, silent, dropped>>

(* The request's context ends while it waits.                              *)
WaitCancelled(r) ==
  /\ rpc[r] = "wait"
  /\ Leaves(r, TRUE, "off")
  /\ own' = own \ {r}
  /\ UNCHANGED <<dnsVars, poolAvailable, conn, how, idle, silent, dropped>>

-----------------------------------------------------------------------------
(* With a connection.                                                      *)

Drops(r) ==
  /\ conn' = [conn EXCEPT ![r] = NoConn]
  /\ how' = [how EXCEPT ![r] = "none"]

(* RoundTrip returns when the response's header is there; its body is read *)
(* later.                                                                  *)
Responds(r) ==
  /\ rpc[r] = "sent"
  /\ Leaves(r, FALSE, "body")
  /\ UNCHANGED <<dnsVars, poolAvailable, poolVars>>

(* The connection breaks, or the request is cancelled.                     *)
TripFails(r) ==
  /\ rpc[r] = "sent"
  /\ Leaves(r, TRUE, "off")
  /\ Drops(r)
  /\ UNCHANGED <<dnsVars, poolAvailable, own, idle, silent, dropped>>

(* A reused connection turns out to be dead, or an HTTP/2 stream was       *)
(* refused: the transport tries again within the same RoundTrip, with the  *)
(* same tracer.                                                            *)
TripRetried(r) ==
  /\ rpc[r] = "sent"
  /\ how[r] # "new" \/ proto = "h2"
  /\ Step(r, "get")
  /\ Drops(r)
  /\ UNCHANGED <<dnsVars, tripVars, poolAvailable, own, idle, silent, dropped, muxVars>>

(* The body was read to its end: the connection is put back,               *)
BodyRead(r) ==
  /\ rpc[r] = "body" /\ proto = "h1"
  /\ Reusable(conn[r], [conn EXCEPT ![r] = NoConn], [how EXCEPT ![r] = "none"], [rpc EXCEPT ![r] = "put"])
  /\ UNCHANGED <<dnsVars, tripVars, poolAvailable, silent, dropped, muxVars>>

(* or cannot be put back.                                                  *)
PutFails(r) ==
  /\ rpc[r] = "body" /\ proto = "h1"
  /\ Drops(r)
  /\ Step(r, "puterr")
  /\ UNCHANGED <<dnsVars, tripVars, poolAvailable, own, idle, silent, dropped, muxVars>>

(* HTTP/2: the stream ends, and no callback tells.                         *)
StreamEnds(r) ==
  /\ rpc[r] = "body" /\ proto = "h2"
  /\ Drops(r)
  /\ Step(r, "off")
  /\ UNCHANGED <<dnsVars, tripVars, poolAvailable, own, idle, silent, dropped, muxVars>>

Counted == {"put"}

PutIdleConn(r) ==
  /\ rpc[r] \in {"put", "puterr"}
  /\ poolAvailable' = IF rpc[r] \in Counted THEN poolAvailable + 1 ELSE poolAvailable
  /\ Step(r, "off")
  /\ UNCHANGED <<dnsVars, tripVars, poolVars, muxVars>>

(* An idle connection is closed: by its timeout, or by the server.         *)
IdleCloses ==
  /\ dropped < MaxSilent
  /\ \E c \in idle : idle' = idle \ {c}
  /\ dropped' = dropped + 1
  /\ UNCHANGED <<dnsVars, tripVars, poolAvailable, rpc, conn, how, own, silent, muxVars>>

(* HTTP/2: the connection takes no more requests.                          *)
SharedCloses ==
  /\ mux # "none"
  /\ mux' = "none"
  /\ UNCHANGED <<dnsVars, tripVars, poolAvailable, rpc, poolVars, traced, proto>>

-----------------------------------------------------------------------------
DialSteps(d) ==
  /\ Answered(d) \/ LookupFails(d) \/ CacheSet(d) \/ DialAccepted(d) \/ DialRefused(d)
  /\ UNCHANGED <<tripVars, poolAvailable, rpc, poolVars, muxVars>>

DNSSteps ==
  /\ Evict \/ ZoneChanges \/ DNSTick
  /\ UNCHANGED <<tripVars, poolAvailable, rpc, poolVars, muxVars>>

CNext ==
  \/ \E r \in Requests :
       \/ RoundTrip(r) \/ GetIdle(r) \/ GetWaits(r) \/ GetStream(r) \/ Dial(r) \/ GotConn(r)
       \/ Dialed(r) \/ DialedSpare(r) \/ DialedShared(r) \/ DialFailed(r) \/ WaitCancelled(r)
       \/ Responds(r) \/ TripFails(r) \/ TripRetried(r)
       \/ BodyRead(r) \/ PutFails(r) \/ StreamEnds(r) \/ PutIdleConn(r)
       \/ DialSteps(r)
  \/ IdleCloses \/ SharedCloses \/ DNSSteps

CSpec == CInit /\ [][CNext]_connVars

-----------------------------------------------------------------------------
InTrip == {r \in Requests : rpc[r] \in {"get", "wait", "got", "sent"}}

Owed(S) == Cardinality({r \in Requests : rpc[r] \in S})

Reusing == {r \in Requests : rpc[r] = "got" /\ how[r] # "new"}

(* Gauges never reports a negative estimate.                               *)
pool_avail_estimate == IF poolAvailable < 0 THEN 0 ELSE poolAvailable

(* What the gauges say, at any time and whatever way round trips end:      *)
(* in_flight is the number of round trips under way, and its maximum never *)
(* below it; over HTTP/1 the estimate of the pool ("based on reference     *)
(* counting") differs from the number of idle connections only by the      *)
(* callbacks still to come, by the connections dialled for a request that  *)
(* did not wait for them, and by the idle connections that were closed.    *)
(* Over HTTP/2, where nothing is put back, it only falls and the gauge is  *)
(* zero (Metrics.RoundTrip, WithTracer, Gauges).                           *)
GaugesExplained ==
  /\ inFlight = Cardinality(InTrip)
  /\ inFlight <= inFlightMax /\ inFlightMax <= Cardinality(Requests)
  /\ proto = "h1" =>
       poolAvailable = Cardinality(idle) - Owed({"put"}) + Cardinality(Reusing) - silent + dropped
  /\ proto = "h2" => pool_avail_estimate = 0
===============================================================================
