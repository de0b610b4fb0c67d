-------------------------- MODULE ClientConnProofs --------------------------
(***************************************************************************)
(* The gauges of an HTTP client are explained by the state of its          *)
(* transport, and a dial starts with addresses that DNS gave recently: for *)
(* any number of requests, connections and addresses, any TTL and any      *)
(* lookup timeout.                                                         *)
(*                                                                         *)
(* The estimate of idle connections needs that a connection has one user   *)
(* and is not idle meanwhile, and that only a waiting request owns a dial. *)
(* Over HTTP/2 one connection is shared and never put back.                *)
(* The age of addresses needs a bound on what is in the cache and on what  *)
(* is on its way to it.                                                    *)
(***************************************************************************)
EXTENDS ClientConn, FiniteSetTheorems, TLAPS

-----------------------------------------------------------------------------
(* DNSCache.                                                               *)

DNSType ==
  /\ zone \subseteq Addrs
  /\ unseen \in [Addrs -> 0 .. Oldest]
  /\ cache \in [ips : SUBSET Addrs, left : 0 .. TTL]
  /\ dpc \in [Dialers -> {"off", "lookup", "answer", "dial", "connected", "failed"}]
  /\ ips \in [Dialers -> SUBSET Addrs]
  /\ waited \in [Dialers -> 0 .. MaxLookup]

(* How old an address may be: that DNS gives now; that an answer on its    *)
(* way carries; that the cache holds.                                      *)
DNSAges ==
  /\ \A a \in zone : unseen[a] = 0
  /\ \A d \in Dialers : dpc[d] = "answer" => \A a \in ips[d] : unseen[a] <= waited[d]
  /\ cache.left > 0 => \A a \in cache.ips : unseen[a] + cache.left <= TTL + MaxLookup

DNSInv == DNSType /\ DNSAges

(* The steps of DNSCache that the composition takes.                       *)
DNSNext ==
  \/ \E d \in Dialers : \/ Resolve(d) \/ Answered(d) \/ LookupFails(d) \/ CacheSet(d)
                        \/ DialAccepted(d) \/ DialRefused(d)
                        \/ dpc[d] \in {"connected", "failed"} /\ DialOver(d)
  \/ Evict \/ ZoneChanges \/ DNSTick

(* A step of the client is one of the DNS cache's or leaves the cache and  *)
(* its dialers alone.                                                      *)
LEMMA DNSSubsteps == [CNext]_connVars => [DNSNext]_dnsVars
<1>1. ASSUME NEW r \in Requests,
             \/ RoundTrip(r) \/ GetIdle(r) \/ GetWaits(r) \/ GetStream(r) \/ GotConn(r) \/ WaitCancelled(r)
             \/ Responds(r) \/ TripFails(r) \/ TripRetried(r)
             \/ BodyRead(r) \/ PutFails(r) \/ StreamEnds(r) \/ PutIdleConn(r)
      PROVE  UNCHANGED dnsVars
  BY <1>1 DEF RoundTrip, GetIdle, GetWaits, GetStream, GotConn, WaitCancelled, Responds, TripFails,
     TripRetried, BodyRead, PutFails, StreamEnds, PutIdleConn
<1>2. ASSUME NEW r \in Requests,
             Dial(r) \/ Dialed(r) \/ DialedSpare(r) \/ DialedShared(r) \/ DialFailed(r) \/ DialSteps(r)
      PROVE  DNSNext
  BY <1>2 DEF Dial, Dialed, DialedSpare, DialedShared, DialFailed, DialSteps, DNSNext, Requests
<1>3. ASSUME IdleCloses \/ SharedCloses \/ UNCHANGED connVars PROVE UNCHANGED dnsVars
  BY <1>3 DEF IdleCloses, SharedCloses, connVars
<1>4. ASSUME DNSSteps PROVE DNSNext
  BY <1>4 DEF DNSSteps, DNSNext
<1> QED BY <1>1, <1>2, <1>3, <1>4 DEF CNext

(* The cache starts empty, with no dial under way.                         *)
LEMMA DNSInitially == DNSInit => DNSInv
<1> SUFFICES ASSUME DNSInit PROVE DNSInv
  OBVIOUS
<1> USE DNSAssumption DEF DNSInit
<1>1. DNSType
  BY DEF DNSType, NoEntry, Oldest
<1>2. DNSAges
  BY DEF DNSAges, NoEntry
<1> QED BY <1>1, <1>2 DEF DNSInv

(* The variables of the cache and the dialers keep their types.            *)
LEMMA DNSTypeStep == DNSType /\ [DNSNext]_dnsVars => DNSType'
<1> SUFFICES ASSUME DNSType, [DNSNext]_dnsVars PROVE DNSType'
  OBVIOUS
<1> USE DNSAssumption DEF DNSType
<1>1. ASSUME NEW d \in Dialers, Resolve(d) PROVE DNSType'
  BY <1>1 DEF Resolve, Goes
<1>2. ASSUME NEW d \in Dialers, Answered(d) PROVE DNSType'
  BY <1>2 DEF Answered, Goes
<1>3. ASSUME NEW d \in Dialers, LookupFails(d) PROVE DNSType'
  BY <1>3 DEF LookupFails, Goes
<1>4. ASSUME NEW d \in Dialers, CacheSet(d) PROVE DNSType'
  BY <1>4 DEF CacheSet, Goes, ExpireAt
<1>5. ASSUME NEW d \in Dialers, DialAccepted(d) PROVE DNSType'
  BY <1>5 DEF DialAccepted, Goes
<1>6. ASSUME NEW d \in Dialers, DialRefused(d) PROVE DNSType'
  BY <1>6 DEF DialRefused, Goes
<1>7. ASSUME NEW d \in Dialers, DialOver(d) PROVE DNSType'
  BY <1>7 DEF DialOver, Goes
<1>8. CASE Evict
  BY <1>8 DEF Evict, NoEntry
<1>9. CASE ZoneChanges
  BY <1>9 DEF ZoneChanges, Oldest
<1>10. CASE DNSTick
  <2>1. waited' \in [Dialers -> 0 .. MaxLookup]
    BY <1>10 DEF DNSTick
  <2>2. cache' \in [ips : SUBSET Addrs, left : 0 .. TTL]
    BY <1>10 DEF DNSTick, NoEntry
  <2>3. unseen' \in [Addrs -> 0 .. Oldest]
    BY <1>10 DEF DNSTick, Oldest
  <2> QED BY <1>10, <2>1, <2>2, <2>3 DEF DNSTick
<1>11. CASE UNCHANGED dnsVars
  BY <1>11 DEF dnsVars
<1> QED BY <1>1, <1>2, <1>3, <1>4, <1>5, <1>6, <1>7, <1>8, <1>9, <1>10, <1>11 DEF DNSNext

(* No step of Resolve, of a lookup, of the cache's clean-up or of time     *)
(* makes an address older than its place allows.                           *)
LEMMA DNSAgesStep == DNSInv /\ [DNSNext]_dnsVars => DNSAges'
<1> SUFFICES ASSUME DNSInv, [DNSNext]_dnsVars PROVE DNSAges'
  OBVIOUS
<1> USE DNSAssumption DEF DNSInv, DNSAges
<1>1. ASSUME NEW d \in Dialers, Resolve(d) PROVE DNSAges'
  BY <1>1 DEF Resolve, Goes, DNSType
<1>2. ASSUME NEW d \in Dialers, Answered(d) PROVE DNSAges'
  <2>1. /\ ips' = [ips EXCEPT ![d] = zone]
        /\ dpc' = [dpc EXCEPT ![d] = "answer"]
        /\ UNCHANGED <<zone, unseen, cache, waited>>
    BY <1>2 DEF Answered, Goes
  <2>2. waited[d] \in 0 .. MaxLookup
    BY DEF DNSType
  <2> QED BY <2>1, <2>2 DEF DNSType
<1>3. ASSUME NEW d \in Dialers, LookupFails(d) PROVE DNSAges'
  BY <1>3 DEF LookupFails, Goes, DNSType
<1>4. ASSUME NEW d \in Dialers, CacheSet(d) PROVE DNSAges'
  <2>1. /\ dpc[d] = "answer"
        /\ cache' = [ips |-> ips[d], left |-> TTL]
        /\ dpc' = [dpc EXCEPT ![d] = "dial"]
        /\ waited' = [waited EXCEPT ![d] = 0]
        /\ UNCHANGED <<zone, unseen, ips>>
    BY <1>4 DEF CacheSet, Goes, ExpireAt
  <2>2. \A a \in ips[d] : unseen[a] \in Nat /\ unseen[a] <= MaxLookup
    BY <2>1 DEF DNSType
  <2>3. cache'.left > 0 => \A a \in cache'.ips : unseen'[a] + cache'.left <= TTL + MaxLookup
    BY <2>1, <2>2
  <2> QED BY <2>1, <2>3 DEF DNSType
<1>5. ASSUME NEW d \in Dialers, DialAccepted(d) PROVE DNSAges'
  BY <1>5 DEF DialAccepted, Goes, DNSType
<1>6. ASSUME NEW d \in Dialers, DialRefused(d) PROVE DNSAges'
  BY <1>6 DEF DialRefused, Goes, DNSType
<1>7. ASSUME NEW d \in Dialers, DialOver(d) PROVE DNSAges'
  BY <1>7 DEF DialOver, Goes, DNSType
<1>8. CASE Evict
  BY <1>8 DEF Evict, NoEntry
<1>9. CASE ZoneChanges
  <2>1. /\ zone' \subseteq Addrs
        /\ unseen' = [a \in Addrs |-> IF a \in zone' THEN 0 ELSE unseen[a]]
        /\ UNCHANGED <<cache, dpc, ips, waited>>
    BY <1>9 DEF ZoneChanges
  <2>2. \A a \in Addrs : unseen[a] \in Nat /\ unseen'[a] \in Nat /\ unseen'[a] <= unseen[a]
    BY <2>1 DEF DNSType, Oldest
  <2>3. \A a \in zone' : unseen'[a] = 0
    BY <2>1
  <2>4. \A d \in Dialers : dpc'[d] = "answer" => \A a \in ips'[d] : unseen'[a] <= waited'[d]
    <3> SUFFICES ASSUME NEW d \in Dialers, dpc[d] = "answer", NEW a \in ips[d] PROVE unseen'[a] <= waited[d]
      BY <2>1
    <3>1. a \in Addrs /\ waited[d] \in Nat /\ unseen[a] <= waited[d]
      BY DEF DNSType
    <3> QED BY <2>2, <3>1
  <2>5. cache.left > 0 => \A a \in cache.ips : unseen'[a] + cache.left <= TTL + MaxLookup
    <3> SUFFICES ASSUME cache.left > 0, NEW a \in cache.ips PROVE unseen'[a] + cache.left <= TTL + MaxLookup
      OBVIOUS
    <3>1. a \in Addrs /\ cache.left \in Nat /\ unseen[a] + cache.left <= TTL + MaxLookup
      BY DEF DNSType
    <3> QED BY <2>2, <3>1
  <2> QED BY <2>1, <2>3, <2>4, <2>5
<1>10. CASE DNSTick
  <2>1. /\ UNCHANGED <<zone, dpc, ips>>
        /\ \A d \in Dialers : dpc[d] = "answer" => waited'[d] = waited[d] + 1
        /\ cache' = IF cache.left > 1 THEN [cache EXCEPT !.left = @ - 1] ELSE NoEntry
        /\ unseen' = [a \in Addrs |->
                        IF a \in zone THEN 0 ELSE IF unseen[a] < Oldest THEN unseen[a] + 1 ELSE Oldest]
    BY <1>10 DEF DNSTick, Busy
  <2>2. \A a \in Addrs : unseen[a] \in Nat /\ unseen'[a] \in Nat /\ unseen'[a] <= unseen[a] + 1
    BY <2>1 DEF DNSType, Oldest
  <2>3. \A a \in zone' : unseen'[a] = 0
    BY <2>1 DEF DNSType
  <2>4. \A d \in Dialers : dpc'[d] = "answer" => \A a \in ips'[d] : unseen'[a] <= waited'[d]
    <3> SUFFICES ASSUME NEW d \in Dialers, dpc[d] = "answer", NEW a \in ips[d] PROVE unseen'[a] <= waited[d] + 1
      BY <2>1
    <3>1. a \in Addrs /\ waited[d] \in Nat /\ unseen[a] <= waited[d]
      BY DEF DNSType
    <3> QED BY <2>2, <3>1
  <2>5. cache'.left > 0 => \A a \in cache'.ips : unseen'[a] + cache'.left <= TTL + MaxLookup
    <3> SUFFICES ASSUME cache'.left > 0, NEW a \in cache'.ips PROVE unseen'[a] + cache'.left <= TTL + MaxLookup
      OBVIOUS
    <3>1. cache.left > 1
      BY <2>1 DEF NoEntry
    <3>2. cache'.left = cache.left - 1 /\ cache'.ips = cache.ips
      BY <2>1, <3>1 DEF DNSType
    <3>3. a \in Addrs /\ cache.left \in Nat /\ unseen[a] + cache.left <= TTL + MaxLookup
      BY <3>1, <3>2 DEF DNSType
    <3> QED BY <2>2, <3>2, <3>3
  <2> QED BY <2>1, <2>3, <2>4, <2>5
<1>11. CASE UNCHANGED dnsVars
  BY <1>11 DEF dnsVars
<1> QED BY <1>1, <1>2, <1>3, <1>4, <1>5, <1>6, <1>7, <1>8, <1>9, <1>10, <1>11 DEF DNSNext

(* DNSInv holds throughout: what is in dnscache's cache, or on its way to  *)
(* it, left DNS no longer ago than its age and the lookup account for.     *)
THEOREM DNSInvariance == CSpec => []DNSInv
<1>1. CInit => DNSInv
  BY DNSInitially DEF CInit
<1>2. DNSInv /\ [CNext]_connVars => DNSInv'
  BY DNSSubsteps, DNSTypeStep, DNSAgesStep DEF DNSInv
<1> QED BY <1>1, <1>2, PTL DEF CSpec

(* dnscache's Resolve and DialContext: the addresses a dial starts with    *)
(* were in DNS at most a TTL and a lookup's timeout ago, although lookups  *)
(* overlap and a late answer may replace a newer one.                      *)
THEOREM DialsFreshAddresses == CSpec => FreshAddresses
<1> DEFINE Fresh == \A d \in Dialers : (dpc[d] # "dial" /\ dpc'[d] = "dial") =>
                      \A a \in ips'[d] : unseen[a] <= TTL + MaxLookup
<1>1. DNSInv /\ [CNext]_connVars => [Fresh]_dnsVars
  <2> SUFFICES ASSUME DNSInv, DNSNext, NEW d \in Dialers, dpc[d] # "dial", dpc'[d] = "dial", NEW a \in ips'[d]
               PROVE  unseen[a] <= TTL + MaxLookup
    BY DNSSubsteps
  <2> USE DNSAssumption DEF DNSInv
  <2>1. Resolve(d) \/ CacheSet(d)
    <3>1. ASSUME NEW e \in Dialers,
                 \/ Resolve(e) \/ Answered(e) \/ LookupFails(e) \/ CacheSet(e)
                 \/ DialAccepted(e) \/ DialRefused(e) \/ DialOver(e)
          PROVE  e = d
      <4>1. \E l : dpc' = [dpc EXCEPT ![e] = l]
        BY <3>1 DEF Resolve, Answered, LookupFails, CacheSet, DialAccepted, DialRefused, DialOver, Goes
      <4> QED BY <4>1 DEF DNSType
    <3>2. ~(Answered(d) \/ LookupFails(d) \/ DialAccepted(d) \/ DialRefused(d) \/ DialOver(d))
      BY DEF Answered, LookupFails, DialAccepted, DialRefused, DialOver, Goes, DNSType
    <3>3. ~(Evict \/ ZoneChanges \/ DNSTick)
      BY DEF Evict, ZoneChanges, DNSTick
    <3> QED BY <3>1, <3>2, <3>3 DEF DNSNext
  <2>2. CASE Resolve(d)
    <3>1. cache.left > 0 /\ ips'[d] = cache.ips
      BY <2>2 DEF Resolve, Goes, DNSType
    <3>2. a \in Addrs /\ cache.left \in Nat /\ unseen[a] \in Nat /\ unseen[a] + cache.left <= TTL + MaxLookup
      BY <3>1 DEF DNSType, DNSAges, Oldest
    <3> QED BY <3>2
  <2>3. CASE CacheSet(d)
    <3>1. dpc[d] = "answer" /\ ips'[d] = ips[d]
      BY <2>3 DEF CacheSet
    <3>2. a \in Addrs /\ unseen[a] \in Nat /\ waited[d] \in 0 .. MaxLookup /\ unseen[a] <= waited[d]
      BY <3>1 DEF DNSType, DNSAges, Oldest
    <3> QED BY <3>2
  <2> QED BY <2>1, <2>2, <2>3
<1> QED BY <1>1, DNSInvariance, PTL DEF CSpec, FreshAddresses

-----------------------------------------------------------------------------
(* ClientConn.                                                             *)

TripPlaces == {"get", "wait", "got", "sent"}

ConnType ==
  /\ rpc \in [Requests -> TripPlaces \union {"off", "body", "put", "puterr"}]
  /\ conn \in [Requests -> Conns \union {NoConn}]
  /\ how \in [Requests -> {"none", "new", "idle", "handed", "shared"}]
  /\ proto \in {"h1", "h2"}
  /\ idle \subseteq Conns /\ IsFiniteSet(idle)
  /\ inFlight \in Int /\ inFlightMax \in Int /\ poolAvailable \in Int
  /\ silent \in Nat /\ dropped \in Nat

(* Over HTTP/1 a connection has one user, from the moment it is delivered  *)
(* until it is put back or dropped, and is not idle meanwhile; only a      *)
(* request that waits owns a dial.                                         *)
ConnOwned ==
  /\ \A r \in Requests : (rpc[r] \in {"got", "sent", "body"} /\ proto = "h1") <=> conn[r] # NoConn
  /\ \A r \in Requests : conn[r] \notin idle
  /\ \A r, s \in Requests : conn[r] = conn[s] /\ conn[r] # NoConn => r = s
  /\ own \subseteq Waiters

ConnCore == ConnType /\ ConnOwned /\ GaugesExplained

(* Over HTTP/1 the tracer knows of every request that is to get a          *)
(* connection, so that each reuse is counted; over HTTP/2 nothing is put   *)
(* back.                                                                   *)
Traced ==
  /\ proto = "h1" => mux = "none" /\ \A r \in Requests : rpc[r] \in {"wait", "got"} => r \in traced
  /\ proto = "h2" => idle = {} /\ \A r \in Requests : rpc[r] \notin {"put", "puterr"}

ConnInv == ConnCore /\ Traced

Puts == {r \in Requests : rpc[r] \in {"put"}}

-----------------------------------------------------------------------------
(* Counting requests.                                                      *)

(* A set of requests is finite and at most as large as that of all of      *)
(* them.                                                                   *)
LEMMA RequestSets ==
  ASSUME NEW S \in SUBSET Requests
  PROVE  IsFiniteSet(S) /\ Cardinality(S) \in Nat /\ Cardinality(S) <= Cardinality(Requests)
<1>1. IsFiniteSet(Requests)
  BY DNSAssumption DEF Requests
<1>2. IsFiniteSet(S) /\ Cardinality(S) <= Cardinality(Requests)
  BY <1>1, FS_Subset
<1> QED BY <1>2, FS_CardinalityType

(* The number of requests in a set after one enters or leaves it.          *)
LEMMA Toggle ==
  ASSUME NEW S \in SUBSET Requests, NEW r \in Requests
  PROVE  /\ Cardinality(S \union {r}) = Cardinality(S) + (IF r \in S THEN 0 ELSE 1)
         /\ Cardinality(S \ {r}) = Cardinality(S) - (IF r \in S THEN 1 ELSE 0)
<1>1. IsFiniteSet(S) /\ Cardinality(S) \in Nat
  BY RequestSets
<1>2. Cardinality(S \union {r}) = IF r \in S THEN Cardinality(S) ELSE Cardinality(S) + 1
  BY <1>1, FS_AddElement
<1>3. Cardinality(S \ {r}) = IF r \in S THEN Cardinality(S) - 1 ELSE Cardinality(S)
  BY <1>1, FS_RemoveElement
<1> QED BY <1>1, <1>2, <1>3

(* What the gauges are compared with counts requests, before and after a   *)
(* step.                                                                   *)
LEMMA SetsOfRequests ==
  /\ InTrip \in SUBSET Requests /\ Reusing \in SUBSET Requests /\ Puts \in SUBSET Requests
  /\ InTrip' \in SUBSET Requests /\ Reusing' \in SUBSET Requests /\ Puts' \in SUBSET Requests
  /\ Owed({"put"}) = Cardinality(Puts) /\ Owed({"put"})' = Cardinality(Puts')
BY DEF InTrip, Reusing, Puts, Owed

(* A request goes to another place: what becomes of the counted sets.      *)
LEMMA OneMoves ==
  ASSUME ConnType, NEW r \in Requests, NEW l, rpc' = [rpc EXCEPT ![r] = l],
         \A s \in Requests \ {r} : how'[s] = how[s]
  PROVE  /\ InTrip' = IF l \in TripPlaces THEN InTrip \union {r} ELSE InTrip \ {r}
         /\ Puts' = IF l = "put" THEN Puts \union {r} ELSE Puts \ {r}
         /\ Reusing' = IF l = "got" /\ how'[r] # "new" THEN Reusing \union {r} ELSE Reusing \ {r}
<1>1. \A s \in Requests : rpc'[s] = IF s = r THEN l ELSE rpc[s]
  BY DEF ConnType
<1>2. InTrip' = IF l \in TripPlaces THEN InTrip \union {r} ELSE InTrip \ {r}
  BY <1>1 DEF InTrip, TripPlaces
<1>3. Puts' = IF l = "put" THEN Puts \union {r} ELSE Puts \ {r}
  BY <1>1 DEF Puts
<1>4. Reusing' = IF l = "got" /\ how'[r] # "new" THEN Reusing \union {r} ELSE Reusing \ {r}
  BY <1>1 DEF Reusing
<1> QED BY <1>2, <1>3, <1>4

(* Counting them: the change of each count by the step of one request.     *)
Moved(r, l) ==
  /\ Cardinality(InTrip') = Cardinality(InTrip) + (IF l \in TripPlaces THEN 1 ELSE 0)
                              - (IF rpc[r] \in TripPlaces THEN 1 ELSE 0)
  /\ Owed({"put"})' = Owed({"put"}) + (IF l = "put" THEN 1 ELSE 0) - (IF rpc[r] = "put" THEN 1 ELSE 0)
  /\ Cardinality(Reusing') = Cardinality(Reusing) + (IF l = "got" /\ how'[r] # "new" THEN 1 ELSE 0)
                               - (IF rpc[r] = "got" /\ how[r] # "new" THEN 1 ELSE 0)

(* When one request moves, the counts change by that request alone.        *)
LEMMA OneCounts ==
  ASSUME ConnType, NEW r \in Requests, NEW l, rpc' = [rpc EXCEPT ![r] = l],
         \A s \in Requests \ {r} : how'[s] = how[s]
  PROVE  Moved(r, l)
<1>1. r \in InTrip <=> rpc[r] \in TripPlaces
  BY DEF InTrip, TripPlaces
<1>2. r \in Puts <=> rpc[r] = "put"
  BY DEF Puts
<1>3. r \in Reusing <=> rpc[r] = "got" /\ how[r] # "new"
  BY DEF Reusing
<1>4. Cardinality(InTrip) \in Nat /\ Cardinality(Puts) \in Nat /\ Cardinality(Reusing) \in Nat
  BY SetsOfRequests, RequestSets
<1>5. Cardinality(InTrip') = Cardinality(InTrip) + (IF l \in TripPlaces THEN 1 ELSE 0) - (IF rpc[r] \in TripPlaces THEN 1 ELSE 0)
  <2>1. InTrip' = IF l \in TripPlaces THEN InTrip \union {r} ELSE InTrip \ {r}
    BY OneMoves
  <2>2. /\ Cardinality(InTrip \union {r}) = Cardinality(InTrip) + (IF r \in InTrip THEN 0 ELSE 1)
        /\ Cardinality(InTrip \ {r}) = Cardinality(InTrip) - (IF r \in InTrip THEN 1 ELSE 0)
    BY SetsOfRequests, Toggle
  <2> QED BY <1>1, <1>4, <2>1, <2>2
<1>6. Cardinality(Puts') = Cardinality(Puts) + (IF l = "put" THEN 1 ELSE 0) - (IF rpc[r] = "put" THEN 1 ELSE 0)
  <2>1. Puts' = IF l = "put" THEN Puts \union {r} ELSE Puts \ {r}
    BY OneMoves
  <2>2. /\ Cardinality(Puts \union {r}) = Cardinality(Puts) + (IF r \in Puts THEN 0 ELSE 1)
        /\ Cardinality(Puts \ {r}) = Cardinality(Puts) - (IF r \in Puts THEN 1 ELSE 0)
    BY SetsOfRequests, Toggle
  <2> QED BY <1>2, <1>4, <2>1, <2>2
<1>7. Cardinality(Reusing') = Cardinality(Reusing) + (IF l = "got" /\ how'[r] # "new" THEN 1 ELSE 0) - (IF rpc[r] = "got" /\ how[r] # "new" THEN 1 ELSE 0)
  <2>1. Reusing' = IF l = "got" /\ how'[r] # "new" THEN Reusing \union {r} ELSE Reusing \ {r}
    BY OneMoves
  <2>2. /\ Cardinality(Reusing \union {r}) = Cardinality(Reusing) + (IF r \in Reusing THEN 0 ELSE 1)
        /\ Cardinality(Reusing \ {r}) = Cardinality(Reusing) - (IF r \in Reusing THEN 1 ELSE 0)
    BY SetsOfRequests, Toggle
  <2> QED BY <1>3, <1>4, <2>1, <2>2
<1> QED BY <1>5, <1>6, <1>7, SetsOfRequests DEF Moved

(* The counts are numbers.                                                 *)
LEMMA CountTypes ==
  ASSUME ConnType
  PROVE  /\ Cardinality(InTrip) \in Nat /\ Cardinality(Reusing) \in Nat /\ Owed({"put"}) \in Nat
         /\ Cardinality(idle) \in Nat /\ Cardinality(Requests) \in Nat
<1>1. Cardinality(InTrip) \in Nat /\ Cardinality(Reusing) \in Nat /\ Owed({"put"}) \in Nat
  BY SetsOfRequests, RequestSets
<1>2. Cardinality(idle) \in Nat
  BY FS_CardinalityType DEF ConnType
<1>3. Cardinality(Requests) \in Nat
  BY RequestSets
<1> QED BY <1>1, <1>2, <1>3

-----------------------------------------------------------------------------
(* The round trips. Metrics.RoundTrip counts one more,                     *)

(* RoundTrip raises in_flight, and its maximum with it.                    *)
LEMMA RoundTripStep ==
  ASSUME ConnInv, NEW r \in Requests, RoundTrip(r) PROVE ConnCore'
<1> USE DEF ConnInv, ConnCore, RoundTrip, Step, poolVars, muxVars, pool_avail_estimate
<1>1. ConnType'
  BY DEF ConnType, TripPlaces
<1>2. ConnOwned'
  BY DEF ConnType, ConnOwned, Waiters
<1>3. /\ Cardinality(InTrip') = Cardinality(InTrip) + 1
      /\ Owed({"put"})' = Owed({"put"})
      /\ Cardinality(Reusing') = Cardinality(Reusing)
  <2>1. Moved(r, "get")
    BY OneCounts
  <2> QED BY <2>1, CountTypes DEF Moved, TripPlaces
<1>4. Cardinality(InTrip') <= Cardinality(Requests)
  BY SetsOfRequests, RequestSets
<1>5. GaugesExplained'
  BY <1>3, <1>4, CountTypes DEF GaugesExplained, ConnType
<1> QED BY <1>1, <1>2, <1>5

(* its deferred function one less, on every way out: while the request     *)
(* waits, or when it has a connection.                                     *)
LEMMA LeavesStep ==
  ASSUME ConnInv, NEW r \in Requests, NEW l \in {"off", "body"},
         rpc[r] \in {"wait", "sent"}, Leaves(r, l = "off", l),
         \/ l = "off" /\ conn' = [conn EXCEPT ![r] = NoConn] /\ how' = [how EXCEPT ![r] = "none"]
         \/ l = "body" /\ rpc[r] = "sent" /\ UNCHANGED <<conn, how>>
         \/ l = "off" /\ rpc[r] = "wait" /\ UNCHANGED <<conn, how>>,
         own' = own \ {r} \/ (own' = own /\ rpc[r] = "sent"),
         UNCHANGED <<poolAvailable, idle, silent, dropped>>
  PROVE  ConnCore'
<1> USE DEF ConnInv, ConnCore, pool_avail_estimate
<1>0. rpc' = [rpc EXCEPT ![r] = l] /\ inFlight' = inFlight - 1 /\ UNCHANGED <<inFlightMax, proto>>
  BY DEF Leaves, Step, TripOver
<1>1. ConnType'
  BY <1>0 DEF ConnType, TripPlaces
<1>2. ConnOwned'
  <2>1. /\ \A s \in Requests \ {r} : conn'[s] = conn[s] /\ rpc'[s] = rpc[s]
        /\ rpc'[r] = l /\ proto' = proto
        /\ conn'[r] = IF l = "off" THEN NoConn ELSE conn[r]
    BY <1>0 DEF ConnType, ConnOwned
  <2>2. \A s \in Requests : (rpc'[s] \in {"got", "sent", "body"} /\ proto' = "h1") <=> conn'[s] # NoConn
    BY <2>1 DEF ConnOwned
  <2>3. \A s \in Requests : conn'[s] \notin idle'
    BY <2>1, ConnAssumption DEF ConnType, ConnOwned
  <2>4. \A s, t \in Requests : conn'[s] = conn'[t] /\ conn'[s] # NoConn => s = t
    BY <2>1 DEF ConnOwned
  <2>5. own' \subseteq Waiters'
    BY <2>1 DEF ConnOwned, Waiters
  <2> QED BY <2>2, <2>3, <2>4, <2>5 DEF ConnOwned
<1>3. \A s \in Requests \ {r} : how'[s] = how[s]
  BY DEF ConnType
<1>4. /\ Cardinality(InTrip') = Cardinality(InTrip) - 1
      /\ Owed({"put"})' = Owed({"put"})
      /\ Cardinality(Reusing') = Cardinality(Reusing)
  <2>1. Moved(r, l)
    BY <1>0, <1>3, OneCounts
  <2> QED BY <2>1, CountTypes DEF Moved, TripPlaces
<1>5. GaugesExplained'
  BY <1>0, <1>4, CountTypes DEF GaugesExplained, ConnType
<1> QED BY <1>1, <1>2, <1>5

-----------------------------------------------------------------------------
(* Requests on their way to a connection.                                  *)

(* A request takes an idle connection before the tracer is told.           *)
LEMMA GetIdleStep ==
  ASSUME ConnInv, NEW r \in Requests, GetIdle(r) PROVE ConnCore'
<1> USE DEF ConnInv, ConnCore, pool_avail_estimate
<1>1. PICK c \in idle : conn' = [conn EXCEPT ![r] = c] /\ how' = [how EXCEPT ![r] = "idle"] /\ idle' = idle \ {c}
  BY DEF GetIdle, Delivers
<1>2. /\ rpc[r] = "get" /\ rpc' = [rpc EXCEPT ![r] = "got"]
      /\ UNCHANGED <<inFlight, inFlightMax, poolAvailable, own, silent, dropped, proto>>
  BY DEF GetIdle, GetConn, Step, tripVars
<1>3. IsFiniteSet(idle') /\ Cardinality(idle') = Cardinality(idle) - 1
  BY <1>1, FS_RemoveElement DEF ConnType
<1>4. ConnType'
  BY <1>1, <1>2, <1>3 DEF ConnType, TripPlaces
<1>5. c # NoConn /\ c \in Conns /\ proto = "h1"
  BY ConnAssumption DEF ConnType, Traced
<1>6. ConnOwned'
  BY <1>1, <1>2, <1>5 DEF ConnType, ConnOwned, Waiters
<1>7. /\ Cardinality(InTrip') = Cardinality(InTrip)
      /\ Owed({"put"})' = Owed({"put"})
      /\ Cardinality(Reusing') = Cardinality(Reusing) + 1
  <2>1. how'[r] = "idle" /\ \A s \in Requests \ {r} : how'[s] = how[s]
    BY <1>1 DEF ConnType
  <2>2. Moved(r, "got")
    BY <1>2, <2>1, OneCounts
  <2> QED BY <1>2, <2>1, <2>2, CountTypes DEF Moved, TripPlaces
<1>8. GaugesExplained'
  BY <1>2, <1>3, <1>7, CountTypes DEF GaugesExplained, ConnType
<1> QED BY <1>4, <1>6, <1>8

(* The GotConn callback lowers the estimate for a reused connection.       *)
LEMMA GotConnStep ==
  ASSUME ConnInv, NEW r \in Requests, GotConn(r) PROVE ConnCore'
<1> USE DEF ConnInv, ConnCore, pool_avail_estimate
<1>1. /\ rpc[r] = "got" /\ rpc' = [rpc EXCEPT ![r] = "sent"]
      /\ poolAvailable' = poolAvailable \/ poolAvailable' = poolAvailable - 1
      /\ proto = "h1" => poolAvailable' = IF how[r] # "new" THEN poolAvailable - 1 ELSE poolAvailable
      /\ UNCHANGED <<inFlight, inFlightMax, conn, how, own, idle, silent, dropped, proto>>
  BY DEF GotConn, GotReused, Step, tripVars, poolVars, muxVars, Traced
<1>2. ConnType'
  BY <1>1 DEF ConnType, TripPlaces
<1>3. ConnOwned'
  BY <1>1 DEF ConnType, ConnOwned, Waiters
<1>4. /\ Cardinality(InTrip') = Cardinality(InTrip)
      /\ Owed({"put"})' = Owed({"put"})
      /\ Cardinality(Reusing') = IF how[r] # "new" THEN Cardinality(Reusing) - 1 ELSE Cardinality(Reusing)
  <2>1. Moved(r, "sent")
    BY <1>1, OneCounts
  <2> QED BY <1>1, <2>1, CountTypes DEF Moved, TripPlaces
<1>5. GaugesExplained'
  <2>1. CASE proto = "h1"
    BY <1>1, <1>4, <2>1, CountTypes DEF GaugesExplained, ConnType
  <2>2. CASE proto = "h2"
    BY <1>1, <1>4, <2>2, CountTypes DEF GaugesExplained, ConnType
  <2> QED BY <2>1, <2>2 DEF ConnType
<1> QED BY <1>2, <1>3, <1>5

(* A dial delivers its connection to the request that owns it.             *)
LEMMA DialedStep ==
  ASSUME ConnInv, NEW r \in Requests, Dialed(r) PROVE ConnCore'
<1> USE DEF ConnInv, ConnCore, pool_avail_estimate
<1>1. PICK c \in Free : conn' = [conn EXCEPT ![r] = c] /\ how' = [how EXCEPT ![r] = "new"]
  BY DEF Dialed, Delivers
<1>2. /\ rpc[r] = "wait" /\ rpc' = [rpc EXCEPT ![r] = "got"]
      /\ own' = own \ {r} /\ proto = "h1"
      /\ UNCHANGED <<inFlight, inFlightMax, poolAvailable, idle, silent, dropped, proto>>
  BY DEF Dialed, Step, tripVars, muxVars, ConnOwned, Waiters
<1>3. ConnType'
  BY <1>1, <1>2 DEF ConnType, TripPlaces, Free
<1>4. c # NoConn /\ c \notin idle /\ \A s \in Requests : conn[s] # c
  BY <1>1, ConnAssumption DEF Free, InUse
<1>5. ConnOwned'
  BY <1>1, <1>2, <1>4 DEF ConnType, ConnOwned, Waiters
<1>6. /\ Cardinality(InTrip') = Cardinality(InTrip)
      /\ Owed({"put"})' = Owed({"put"})
      /\ Cardinality(Reusing') = Cardinality(Reusing)
  <2>1. how'[r] = "new" /\ \A s \in Requests \ {r} : how'[s] = how[s]
    BY <1>1 DEF ConnType
  <2>2. Moved(r, "got")
    BY <1>2, <2>1, OneCounts
  <2> QED BY <1>2, <2>1, <2>2, CountTypes DEF Moved, TripPlaces
<1>7. GaugesExplained'
  BY <1>2, <1>6, CountTypes DEF GaugesExplained, ConnType
<1> QED BY <1>3, <1>5, <1>7

(* A place is left for another, and nothing else changes that is counted:  *)
(* the connection, if any, stays or is dropped.                            *)
LEMMA PlaceStep ==
  ASSUME ConnInv, NEW r \in Requests, NEW l,
         \/ rpc[r] = "get" /\ l = "wait" /\ UNCHANGED <<conn, how>>
         \/ rpc[r] = "sent" /\ l = "get" /\ Drops(r)
         \/ rpc[r] = "body" /\ l = "puterr" /\ Drops(r)
         \/ rpc[r] = "body" /\ l = "off" /\ Drops(r)
         \/ rpc[r] = "puterr" /\ l = "off" /\ UNCHANGED <<conn, how>>
         \/ rpc[r] = "get" /\ l = "got" /\ proto = "h2"
            /\ conn' = conn /\ \E kind \in {"new", "shared"} : how' = [how EXCEPT ![r] = kind],
         rpc' = [rpc EXCEPT ![r] = l],
         UNCHANGED <<inFlight, inFlightMax, poolAvailable, own, idle, silent, dropped, proto>>
  PROVE  ConnCore'
<1> USE DEF ConnInv, ConnCore, pool_avail_estimate
<1>1. /\ \A s \in Requests \ {r} : conn'[s] = conn[s] /\ rpc'[s] = rpc[s] /\ how'[s] = how[s]
      /\ rpc'[r] = l
      /\ conn'[r] = NoConn
  BY DEF Drops, ConnType, ConnOwned
<1>2. ConnType'
  BY DEF ConnType, TripPlaces, Drops
<1>3. ConnOwned'
  BY <1>1, ConnAssumption DEF ConnOwned, Waiters, ConnType
<1>4. /\ Cardinality(InTrip') = Cardinality(InTrip)
      /\ Owed({"put"})' = Owed({"put"})
      /\ proto = "h1" => Cardinality(Reusing') = Cardinality(Reusing)
  <2>1. Moved(r, l)
    BY <1>1, OneCounts
  <2> QED BY <2>1, CountTypes DEF Moved, TripPlaces
<1>5. GaugesExplained'
  BY <1>4 DEF GaugesExplained
<1> QED BY <1>2, <1>3, <1>5

(* A connection becomes reusable, and goes to a request that waits or is   *)
(* idle: one that was dialled for a request that did not wait for it,      *)
LEMMA SpareStep ==
  ASSUME ConnInv, NEW r \in Requests, DialedSpare(r) PROVE ConnCore'
<1> USE DEF ConnInv, ConnCore, pool_avail_estimate
<1>1. PICK c \in Free : Reusable(c, conn, how, rpc)
  BY DEF DialedSpare
<1>2. /\ silent' = silent + 1 /\ proto = "h1"
      /\ UNCHANGED <<inFlight, inFlightMax, poolAvailable, dropped, proto>>
  BY DEF DialedSpare, tripVars, muxVars
<1>3. c \in Conns /\ c # NoConn /\ c \notin idle /\ \A s \in Requests : conn[s] # c
  BY <1>1, ConnAssumption DEF Free, InUse
<1>4. ASSUME NEW w \in Waiters,
             /\ conn' = [conn EXCEPT ![w] = c] /\ how' = [how EXCEPT ![w] = "handed"]
             /\ own' = own \ {w} /\ rpc' = [rpc EXCEPT ![w] = "got"] /\ idle' = idle
      PROVE  ConnCore'
  <2>1. w \in Requests /\ rpc[w] = "wait"
    BY DEF Waiters
  <2>2. ConnType'
    BY <1>2, <1>3, <1>4, <2>1 DEF ConnType, TripPlaces
  <2>3. ConnOwned'
    BY <1>2, <1>3, <1>4, <2>1 DEF ConnType, ConnOwned, Waiters
  <2>4. how'[w] = "handed" /\ \A s \in Requests \ {w} : how'[s] = how[s]
    BY <1>4, <2>1 DEF ConnType
  <2>5. /\ Cardinality(InTrip') = Cardinality(InTrip)
        /\ Owed({"put"})' = Owed({"put"})
        /\ Cardinality(Reusing') = Cardinality(Reusing) + 1
    <3>1. Moved(w, "got")
      BY <1>4, <2>1, <2>4, OneCounts
    <3> QED BY <2>1, <2>4, <3>1, CountTypes DEF Moved, TripPlaces
  <2>6. GaugesExplained'
    BY <1>2, <1>4, <2>5, CountTypes DEF GaugesExplained, ConnType
  <2> QED BY <2>2, <2>3, <2>6
<1>5. ASSUME idle' = idle \union {c}, UNCHANGED <<conn, how, rpc, own>>
      PROVE  ConnCore'
  <2>1. IsFiniteSet(idle') /\ Cardinality(idle') = Cardinality(idle) + 1
    BY <1>3, <1>5, FS_AddElement DEF ConnType
  <2>2. ConnType'
    BY <1>2, <1>3, <1>5, <2>1 DEF ConnType
  <2>3. ConnOwned'
    BY <1>2, <1>3, <1>5 DEF ConnOwned, Waiters
  <2>4. InTrip' = InTrip /\ Reusing' = Reusing /\ Owed({"put"})' = Owed({"put"})
    BY <1>5 DEF InTrip, Reusing, Owed
  <2>5. GaugesExplained'
    BY <1>2, <2>1, <2>4, CountTypes DEF GaugesExplained, ConnType
  <2> QED BY <2>2, <2>3, <2>5
<1> QED BY <1>1, <1>4, <1>5 DEF Reusable

(* The transport closes an idle connection, of which the tracer is not     *)
(* told.                                                                   *)
LEMMA IdleClosesStep ==
  ASSUME ConnInv, IdleCloses PROVE ConnCore'
<1> USE DEF ConnInv, ConnCore, pool_avail_estimate
<1>1. PICK c \in idle : idle' = idle \ {c}
  BY DEF IdleCloses
<1>2. /\ dropped' = dropped + 1
      /\ UNCHANGED <<inFlight, inFlightMax, poolAvailable, rpc, conn, how, own, silent, proto>>
  BY DEF IdleCloses, tripVars, muxVars
<1>3. IsFiniteSet(idle') /\ Cardinality(idle') = Cardinality(idle) - 1
  BY <1>1, FS_RemoveElement DEF ConnType
<1>4. ConnType' /\ ConnOwned'
  BY <1>1, <1>2, <1>3 DEF ConnType, ConnOwned, Waiters
<1>5. InTrip' = InTrip /\ Reusing' = Reusing /\ Owed({"put"})' = Owed({"put"})
  BY <1>2 DEF InTrip, Reusing, Owed
<1>6. GaugesExplained'
  BY <1>2, <1>3, <1>5, CountTypes DEF GaugesExplained, ConnType
<1> QED BY <1>4, <1>6

(* or one that a request puts back when it has read the response's body;   *)
(* that is the step in which two requests may move.                        *)
LEMMA BodyReadStep ==
  ASSUME ConnInv, NEW r \in Requests, BodyRead(r) PROVE ConnCore'
<1> USE DEF ConnInv, ConnCore, pool_avail_estimate
<1> DEFINE c == conn[r]
<1>1. /\ rpc[r] = "body" /\ proto = "h1"
      /\ Reusable(c, [conn EXCEPT ![r] = NoConn], [how EXCEPT ![r] = "none"], [rpc EXCEPT ![r] = "put"])
      /\ UNCHANGED <<inFlight, inFlightMax, poolAvailable, silent, dropped, proto>>
  BY DEF BodyRead, tripVars, muxVars
<1>2. c \in Conns /\ c # NoConn /\ c \notin idle /\ \A s \in Requests \ {r} : conn[s] # c
  BY <1>1 DEF ConnType, ConnOwned
<1>3. ASSUME NEW w \in Waiters,
             /\ conn' = [[conn EXCEPT ![r] = NoConn] EXCEPT ![w] = c]
             /\ how' = [[how EXCEPT ![r] = "none"] EXCEPT ![w] = "handed"]
             /\ own' = own \ {w}
             /\ rpc' = [[rpc EXCEPT ![r] = "put"] EXCEPT ![w] = "got"]
             /\ idle' = idle
      PROVE  ConnCore'
  <2>1. w \in Requests /\ rpc[w] = "wait" /\ w # r
    BY <1>1 DEF Waiters
  <2>2. /\ \A s \in Requests \ {r, w} : conn'[s] = conn[s] /\ how'[s] = how[s] /\ rpc'[s] = rpc[s]
        /\ conn'[r] = NoConn /\ rpc'[r] = "put"
        /\ conn'[w] = c /\ how'[w] = "handed" /\ rpc'[w] = "got"
    BY <1>3, <2>1 DEF ConnType
  <2>3. ConnType'
    BY <1>1, <1>2, <1>3, <2>1 DEF ConnType, TripPlaces
  <2>4. ConnOwned'
    <3>1. \A s \in Requests : (rpc'[s] \in {"got", "sent", "body"} /\ proto' = "h1") <=> conn'[s] # NoConn
      BY <1>1, <1>2, <2>2 DEF ConnOwned
    <3>2. \A s \in Requests : conn'[s] \notin idle'
      BY <1>2, <1>3, <2>2, ConnAssumption DEF ConnType, ConnOwned
    <3>3. \A s, t \in Requests : conn'[s] = conn'[t] /\ conn'[s] # NoConn => s = t
      BY <1>2, <2>2 DEF ConnOwned
    <3>4. own' \subseteq Waiters'
      BY <1>1, <1>3, <2>2 DEF ConnOwned, Waiters
    <3> QED BY <3>1, <3>2, <3>3, <3>4 DEF ConnOwned
  <2>5. InTrip' = InTrip /\ Puts' = Puts \union {r} /\ Reusing' = Reusing \union {w}
    <3>1. InTrip' = InTrip
      BY <1>1, <2>1, <2>2 DEF InTrip
    <3>2. Puts' = Puts \union {r}
      BY <1>1, <2>1, <2>2 DEF Puts
    <3>3. Reusing' = Reusing \union {w}
      BY <1>1, <2>1, <2>2 DEF Reusing
    <3> QED BY <3>1, <3>2, <3>3
  <2>6. r \notin Puts /\ w \notin Reusing
    BY <1>1, <2>1 DEF Puts, Reusing
  <2>7. /\ Owed({"put"})' = Owed({"put"}) + 1
        /\ Cardinality(Reusing') = Cardinality(Reusing) + 1
    <3>1. Cardinality(Puts \union {r}) = Cardinality(Puts) + 1
      BY <2>6, SetsOfRequests, RequestSets, Toggle
    <3>2. Cardinality(Reusing \union {w}) = Cardinality(Reusing) + 1
      BY <2>1, <2>6, SetsOfRequests, RequestSets, Toggle
    <3> QED BY <2>5, <3>1, <3>2, SetsOfRequests
  <2>8. GaugesExplained'
    BY <1>1, <1>3, <2>5, <2>7, CountTypes DEF GaugesExplained, ConnType
  <2> QED BY <2>3, <2>4, <2>8
<1>4. ASSUME /\ idle' = idle \union {c}
             /\ conn' = [conn EXCEPT ![r] = NoConn]
             /\ how' = [how EXCEPT ![r] = "none"]
             /\ rpc' = [rpc EXCEPT ![r] = "put"]
             /\ own' = own
      PROVE  ConnCore'
  <2>1. IsFiniteSet(idle') /\ Cardinality(idle') = Cardinality(idle) + 1
    BY <1>2, <1>4, FS_AddElement DEF ConnType
  <2>2. ConnType'
    BY <1>1, <1>2, <1>4, <2>1 DEF ConnType, TripPlaces
  <2>3. ConnOwned'
    BY <1>1, <1>2, <1>4, ConnAssumption DEF ConnType, ConnOwned, Waiters
  <2>4. /\ Cardinality(InTrip') = Cardinality(InTrip)
        /\ Owed({"put"})' = Owed({"put"}) + 1
        /\ Cardinality(Reusing') = Cardinality(Reusing)
    <3>1. \A s \in Requests \ {r} : how'[s] = how[s]
      BY <1>4 DEF ConnType
    <3>2. Moved(r, "put")
      BY <1>4, <3>1, OneCounts
    <3> QED BY <1>1, <3>2, CountTypes DEF Moved, TripPlaces
  <2>5. GaugesExplained'
    BY <1>1, <2>1, <2>4, CountTypes DEF GaugesExplained, ConnType
  <2> QED BY <2>2, <2>3, <2>5
<1> QED BY <1>1, <1>3, <1>4 DEF Reusable

(* The callback comes: the connection put back is counted.                 *)
LEMMA PutIdleConnStep ==
  ASSUME ConnInv, NEW r \in Requests, PutIdleConn(r) PROVE ConnCore'
<1> USE DEF ConnInv, ConnCore, pool_avail_estimate
<1>1. /\ rpc' = [rpc EXCEPT ![r] = "off"]
      /\ rpc[r] \in {"put", "puterr"}
      /\ poolAvailable' = (IF rpc[r] = "put" THEN poolAvailable + 1 ELSE poolAvailable)
      /\ proto = "h1"
      /\ UNCHANGED <<inFlight, inFlightMax, conn, how, own, idle, silent, dropped, proto>>
  BY DEF PutIdleConn, Counted, Step, tripVars, poolVars, muxVars, Traced, ConnType
<1>2. CASE rpc[r] = "puterr"
  BY <1>1, <1>2, PlaceStep
<1>3. CASE rpc[r] = "put"
  <2>1. ConnType'
    BY <1>1, <1>3 DEF ConnType, TripPlaces
  <2>2. ConnOwned'
    BY <1>1, <1>3 DEF ConnType, ConnOwned, Waiters
  <2>3. /\ Cardinality(InTrip') = Cardinality(InTrip)
        /\ Owed({"put"})' = Owed({"put"}) - 1
        /\ Cardinality(Reusing') = Cardinality(Reusing)
    <3>1. Moved(r, "off")
      BY <1>1, OneCounts
    <3> QED BY <1>3, <3>1, CountTypes DEF Moved, TripPlaces
  <2>4. GaugesExplained'
    BY <1>1, <1>3, <2>3, CountTypes DEF GaugesExplained, ConnType
  <2> QED BY <2>1, <2>2, <2>4
<1> QED BY <1>1, <1>2, <1>3

(* An HTTP/2 connection is there for everyone who waits: they are still in *)
(* their round trips.                                                      *)
LEMMA SharedStep ==
  ASSUME ConnInv, NEW r \in Requests, DialedShared(r) PROVE ConnCore'
<1> USE DEF ConnInv, ConnCore, pool_avail_estimate
<1>1. /\ rpc' = [s \in Requests |-> IF s \in Waiters THEN "get" ELSE rpc[s]]
      /\ own' = {} /\ proto = "h2"
      /\ UNCHANGED <<inFlight, inFlightMax, poolAvailable, conn, how, idle, silent, dropped, proto>>
  BY DEF DialedShared, tripVars
<1>2. ConnType'
  BY <1>1 DEF ConnType, TripPlaces
<1>3. ConnOwned'
  BY <1>1 DEF ConnOwned
<1>4. InTrip' = InTrip
  BY <1>1 DEF InTrip, Waiters
<1>5. GaugesExplained'
  BY <1>1, <1>4 DEF GaugesExplained
<1> QED BY <1>2, <1>3, <1>5

-----------------------------------------------------------------------------
(* Initially no request is under way and nothing is counted.               *)
LEMMA ConnInitially == CInit => ConnInv
<1> SUFFICES ASSUME CInit PROVE ConnInv
  OBVIOUS
<1>1. ConnType
  BY FS_EmptySet DEF CInit, ConnType
<1>2. ConnOwned /\ Traced
  BY DEF CInit, ConnOwned, Waiters, Traced
<1>3. InTrip = {} /\ Reusing = {} /\ Puts = {}
  BY DEF CInit, InTrip, Reusing, Puts
<1>4. Cardinality({}) = 0
  BY FS_EmptySet
<1>5. Owed({"put"}) = 0
  BY <1>3, <1>4, SetsOfRequests
<1>6. GaugesExplained
  BY <1>3, <1>4, <1>5, CountTypes, <1>1 DEF CInit, GaugesExplained, pool_avail_estimate
<1> QED BY <1>1, <1>2, <1>6 DEF ConnInv, ConnCore

(* A step that is not counted leaves the counts alone.                     *)
LEMMA UncountedStep ==
  ASSUME ConnInv, UNCHANGED <<tripVars, poolAvailable, rpc, conn, how, idle, silent, dropped, proto>>,
         own' \subseteq Waiters
  PROVE  ConnCore'
<1> USE DEF ConnInv, ConnCore
<1>1. UNCHANGED <<inFlight, inFlightMax>>
  BY DEF tripVars
<1>2. InTrip' = InTrip /\ Reusing' = Reusing /\ Owed({"put"})' = Owed({"put"})
  BY DEF InTrip, Reusing, Owed
<1>3. ConnType'
  BY <1>1 DEF ConnType
<1>4. ConnOwned'
  BY DEF ConnOwned, Waiters
<1>5. GaugesExplained'
  BY <1>1, <1>2 DEF GaugesExplained, pool_avail_estimate
<1> QED BY <1>3, <1>4, <1>5

(* Every step of the client, its transport and its dials keeps the counts. *)
LEMMA ConnStep == ConnInv /\ [CNext]_connVars => ConnCore'
<1> SUFFICES ASSUME ConnInv, [CNext]_connVars PROVE ConnCore'
  OBVIOUS
<1>0. own \subseteq Waiters /\ \A r \in Waiters : rpc[r] = "wait"
  BY DEF ConnInv, ConnCore, ConnOwned, Waiters
<1>1. ASSUME NEW r \in Requests, GetWaits(r) PROVE ConnCore'
  BY <1>1, PlaceStep DEF GetWaits, GetConn, Step, tripVars, poolVars
<1>2. ASSUME NEW r \in Requests, GetStream(r) PROVE ConnCore'
  <2>1. proto = "h2" /\ UNCHANGED proto
    BY <1>2 DEF ConnInv, ConnCore, ConnType, Traced, GetStream, GetConn
  <2> QED BY <1>2, <2>1, PlaceStep DEF GetStream, Step, tripVars
<1>3. ASSUME NEW r \in Requests, Dial(r) PROVE ConnCore'
  BY <1>0, <1>3, UncountedStep DEF Dial, Waiters, muxVars
<1>4. ASSUME NEW r \in Requests, DialFailed(r) PROVE ConnCore'
  <2>1. CASE r \in own
    BY <1>0, <1>4, <2>1, LeavesStep DEF DialFailed, Leaves, TripOver
  <2>2. CASE r \notin own
    BY <1>0, <1>4, <2>2, UncountedStep DEF DialFailed, muxVars
  <2> QED BY <2>1, <2>2
<1>5. ASSUME NEW r \in Requests, WaitCancelled(r) PROVE ConnCore'
  BY <1>5, LeavesStep DEF WaitCancelled, Leaves, TripOver
<1>6. ASSUME NEW r \in Requests, Responds(r) PROVE ConnCore'
  BY <1>6, LeavesStep DEF Responds, Leaves, TripOver, poolVars
<1>7. ASSUME NEW r \in Requests, TripFails(r) PROVE ConnCore'
  BY <1>7, LeavesStep DEF TripFails, Leaves, TripOver, Drops
<1>8. ASSUME NEW r \in Requests, TripRetried(r) PROVE ConnCore'
  BY <1>8, PlaceStep DEF TripRetried, Step, tripVars, muxVars
<1>9. ASSUME NEW r \in Requests, PutFails(r) \/ StreamEnds(r) PROVE ConnCore'
  BY <1>9, PlaceStep DEF PutFails, StreamEnds, Step, tripVars, muxVars
<1>10. ASSUME NEW r \in Requests, DialSteps(r) PROVE ConnCore'
  BY <1>0, <1>10, UncountedStep DEF DialSteps, poolVars, muxVars
<1>11. ASSUME DNSSteps PROVE ConnCore'
  BY <1>0, <1>11, UncountedStep DEF DNSSteps, poolVars, muxVars
<1>12. ASSUME SharedCloses \/ UNCHANGED connVars PROVE ConnCore'
  BY <1>0, <1>12, UncountedStep DEF SharedCloses, connVars, poolVars, muxVars
<1> QED BY <1>1, <1>2, <1>3, <1>4, <1>5, <1>6, <1>7, <1>8, <1>9, <1>10, <1>11, <1>12,
           RoundTripStep, GetIdleStep, GotConnStep, DialedStep, SpareStep, SharedStep,
           BodyReadStep, PutIdleConnStep, IdleClosesStep DEF CNext

-----------------------------------------------------------------------------
(* A place is taken that the tracer need not know of, or has been told of. *)
LEMMA PlaceTraced ==
  ASSUME ConnInv, NEW r \in Requests, NEW l, rpc' = [rpc EXCEPT ![r] = l],
         UNCHANGED <<proto, mux>>, idle' = idle \/ proto = "h1" \/ idle' \subseteq idle,
         traced \ {r} \subseteq traced',
         proto = "h1" /\ l \in {"wait", "got"} => r \in traced',
         proto = "h2" => l \notin {"put", "puterr"}
  PROVE  Traced'
BY DEF ConnInv, ConnCore, ConnType, Traced

(* The callbacks of the tracer come in the order that Traced needs.        *)
LEMMA TracedStep == ConnInv /\ [CNext]_connVars => Traced'
<1> SUFFICES ASSUME ConnInv, [CNext]_connVars PROVE Traced'
  OBVIOUS
<1>0. own \subseteq Waiters /\ proto \in {"h1", "h2"} /\ (mux # "none" => proto = "h2")
      /\ \A r \in Requests : rpc[r] \in {"wait", "got"} /\ proto = "h1" => r \in traced
  BY DEF ConnInv, ConnCore, ConnOwned, ConnType, Traced
<1>1. ASSUME NEW r \in Requests, RoundTrip(r) PROVE Traced'
  BY <1>1, PlaceTraced DEF RoundTrip, Step, poolVars, muxVars
<1>2. ASSUME NEW r \in Requests, GetIdle(r) \/ GetWaits(r) PROVE Traced'
  BY <1>2, PlaceTraced DEF GetIdle, GetWaits, GetConn, Step, poolVars
<1>3. ASSUME NEW r \in Requests, GetStream(r) PROVE Traced'
  <2>1. proto = "h2" /\ proto' = proto /\ rpc' = [rpc EXCEPT ![r] = "got"] /\ idle' = idle
    BY <1>0, <1>3 DEF GetStream, GetConn, Step
  <2> QED BY <2>1 DEF ConnInv, ConnCore, ConnType, Traced
<1>4. ASSUME NEW r \in Requests, GotConn(r) \/ PutIdleConn(r) PROVE Traced'
  BY <1>4, PlaceTraced DEF GotConn, PutIdleConn, Step, poolVars, muxVars
<1>5. ASSUME NEW r \in Requests, TripRetried(r) \/ PutFails(r) \/ StreamEnds(r) PROVE Traced'
  BY <1>0, <1>5, PlaceTraced DEF TripRetried, PutFails, StreamEnds, Step, muxVars
<1>6. ASSUME NEW r \in Requests, WaitCancelled(r) \/ Responds(r) \/ TripFails(r) PROVE Traced'
  BY <1>6, PlaceTraced DEF WaitCancelled, Responds, TripFails, Leaves, Step, poolVars
<1>7. ASSUME NEW r \in Requests, Dialed(r) PROVE Traced'
  <2>1. rpc[r] = "wait" /\ proto = "h1"
    BY <1>0, <1>7 DEF Dialed, Waiters
  <2>2. r \in traced
    BY <1>0, <2>1
  <2> QED BY <1>7, <2>1, <2>2, PlaceTraced DEF Dialed, Step, muxVars
<1>8. ASSUME NEW r \in Requests, DialFailed(r) PROVE Traced'
  <2>1. CASE r \in own
    BY <1>8, <2>1, PlaceTraced DEF DialFailed, Leaves, Step
  <2>2. CASE r \notin own
    BY <1>8, <2>2 DEF DialFailed, muxVars, ConnInv, Traced
  <2> QED BY <2>1, <2>2
<1>9. ASSUME NEW r \in Requests, DialedShared(r) PROVE Traced'
  BY <1>9 DEF DialedShared, ConnInv, Traced
<1>10. ASSUME NEW r \in Requests, DialedSpare(r) \/ BodyRead(r) PROVE Traced'
  <2>1. /\ proto = "h1" /\ UNCHANGED <<proto, mux, traced>>
        /\ \A s \in Requests : s \in Waiters \/ rpc'[s] \in {rpc[s], "put"}
    <3>1. CASE DialedSpare(r)
      BY <3>1 DEF DialedSpare, Reusable, muxVars, ConnInv, ConnCore, ConnType
    <3>2. CASE BodyRead(r)
      BY <3>2 DEF BodyRead, Reusable, muxVars, ConnInv, ConnCore, ConnType
    <3> QED BY <1>10, <3>1, <3>2
  <2> QED BY <1>0, <1>10, <2>1 DEF Traced, Waiters
<1>11. ASSUME IdleCloses PROVE Traced'
  BY <1>11 DEF IdleCloses, muxVars, ConnInv, Traced
<1>12. ASSUME SharedCloses PROVE Traced'
  BY <1>12 DEF SharedCloses, poolVars, ConnInv, Traced
<1>13. ASSUME NEW r \in Requests, Dial(r) \/ DialSteps(r) PROVE Traced'
  BY <1>13 DEF Dial, DialSteps, poolVars, muxVars, ConnInv, Traced
<1>14. ASSUME DNSSteps \/ UNCHANGED connVars PROVE Traced'
  BY <1>14 DEF DNSSteps, connVars, poolVars, muxVars, ConnInv, Traced
<1> QED BY <1>1, <1>2, <1>3, <1>4, <1>5, <1>6, <1>7, <1>8, <1>9, <1>10, <1>11, <1>12, <1>13, <1>14 DEF CNext

(* httpclient/metrics: in any number of overlapping round trips, retries,  *)
(* background dials and silent closes, in_flight is the number of round    *)
(* trips under way and the estimate of the pool differs from the number of *)
(* idle connections by the callbacks and connections that explain it, or,  *)
(* over HTTP/2, is reported as zero.                                       *)
THEOREM Gauges == CSpec => []GaugesExplained
<1>1. ConnInv => GaugesExplained
  BY DEF ConnInv, ConnCore
<1>2. ConnInv /\ [CNext]_connVars => ConnInv'
  BY ConnStep, TracedStep DEF ConnInv
<1> QED BY <1>1, <1>2, ConnInitially, PTL DEF CSpec
=============================================================================
