------------------------------- MODULE DNSCache -------------------------------
(***************************************************************************)
(* httpclient/dnscache: a resolver that keeps the answers of DNS for a     *)
(* while, and the DialContext built on it. Dialers are concurrent, the DNS *)
(* changes, lookups take time. One host name; time passes in ticks.        *)
(***************************************************************************)
EXTENDS Naturals, FiniteSets

CONSTANTS
  Dialers,    \* goroutines that dial the host
  Addrs,      \* the addresses the host may have
  TTL,        \* Config.TTL
  MaxLookup   \* the resolver's timeout: ticks a lookup may take

ASSUME DNSAssumption == IsFiniteSet(Dialers) /\ TTL \in Nat /\ MaxLookup \in Nat

Oldest == TTL + MaxLookup + 1   \* ages are not told apart from here on

VARIABLES
  zone,     \* what DNS answers for the host now
  unseen,   \* history: [Addrs -> ticks since DNS last answered with it]
  cache,    \* the entry for the host: its addresses and the ticks left
  dpc,      \* [Dialers -> where the dialer is in DialContext]
  ips,      \* [Dialers -> the addresses it was given]
  waited,   \* [Dialers -> ticks its lookup has taken]
  tried     \* [Dialers -> the addresses that refused it]

dnsVars == <<zone, unseen, cache, dpc, ips, waited, tried>>

NoEntry == [ips |-> {}, left |-> 0]

DNSInit ==
  /\ zone = Addrs
  /\ unseen = [a \in Addrs |-> 0]
  /\ cache = NoEntry
  /\ dpc = [d \in Dialers |-> "off"]
  /\ ips = [d \in Dialers |-> {}]
  /\ waited = [d \in Dialers |-> 0]
  /\ tried = [d \in Dialers |-> {}]

Goes(d, place) == dpc' = [dpc EXCEPT ![d] = place]

(* DialContext begins with Resolve: an entry that has not expired is used, *)
(* otherwise a lookup is made without the lock, also if another dialer is  *)
(* making one.                                                             *)
Resolve(d) ==
  /\ dpc[d] = "off"
  /\ IF cache.left > 0
       THEN Goes(d, "dial") /\ ips' = [ips EXCEPT ![d] = cache.ips]
       ELSE Goes(d, "lookup") /\ UNCHANGED ips
  /\ UNCHANGED <<zone, unseen, cache, waited, tried>>

(* The answer is made now, and arrives later.                              *)
Answered(d) ==
  /\ dpc[d] = "lookup"
  /\ ips' = [ips EXCEPT ![d] = zone]
  /\ Goes(d, "answer")
  /\ UNCHANGED <<zone, unseen, cache, waited, tried>>

(* An error is returned and not remembered.                                *)
LookupFails(d) ==
  /\ dpc[d] = "lookup"
  /\ Goes(d, "failed")
  /\ waited' = [waited EXCEPT ![d] = 0]
  /\ UNCHANGED <<zone, unseen, cache, ips, tried>>

(* Mutant: an entry never expires.                                         *)
ExpireAt_Never == Oldest

ExpireAt == TTL

(* The entry is made to expire TTL after the answer arrived; it replaces   *)
(* what another dialer may have stored in the meantime.                    *)
CacheSet(d) ==
  /\ dpc[d] = "answer"
  /\ cache' = [ips |-> ips[d], left |-> ExpireAt]
  /\ Goes(d, "dial")
  /\ waited' = [waited EXCEPT ![d] = 0]
  /\ UNCHANGED <<zone, unseen, ips, tried>>

(* The cache is bounded, and may drop the entry to make room.              *)
Evict ==
  /\ cache # NoEntry
  /\ cache' = NoEntry
  /\ UNCHANGED <<zone, unseen, dpc, ips, waited, tried>>

LoopEnds(d, a) == tried[d] \union {a} = ips[d]

(* The addresses are dialled one after the other in a random order, until  *)
(* one accepts; if none does the first error is returned.                  *)
DialAccepted(d) ==
  /\ dpc[d] = "dial"
  /\ Goes(d, "connected")
  /\ UNCHANGED <<zone, unseen, cache, ips, waited, tried>>

DialRefused(d) ==
  /\ dpc[d] = "dial"
  /\ \E a \in ips[d] \ tried[d] :
       /\ tried' = [tried EXCEPT ![d] = @ \union {a}]
       /\ Goes(d, IF LoopEnds(d, a) THEN "failed" ELSE "dial")
  /\ UNCHANGED <<zone, unseen, cache, ips, waited>>

(* The caller has taken the connection, or the error.                      *)
DialOver(d) ==
  /\ Goes(d, "off")
  /\ ips' = [ips EXCEPT ![d] = {}]
  /\ tried' = [tried EXCEPT ![d] = {}]
  /\ UNCHANGED <<zone, unseen, cache, waited>>

-----------------------------------------------------------------------------
ZoneChanges ==
  /\ zone' \in (SUBSET Addrs) \ {{}, zone}
  /\ unseen' = [a \in Addrs |-> IF a \in zone' THEN 0 ELSE unseen[a]]
  /\ UNCHANGED <<cache, dpc, ips, waited, tried>>

Busy(d) == dpc[d] \in {"lookup", "answer"}

DNSTick ==
  /\ \A d \in Dialers : Busy(d) => waited[d] < MaxLookup
  /\ waited' = [d \in Dialers |-> IF Busy(d) THEN waited[d] + 1 ELSE 0]
  /\ cache' = IF cache.left > 1 THEN [cache EXCEPT !.left = @ - 1] ELSE NoEntry
  /\ unseen' = [a \in Addrs |->
                 IF a \in zone THEN 0 ELSE IF unseen[a] < Oldest THEN unseen[a] + 1 ELSE Oldest]
  /\ UNCHANGED <<zone, dpc, ips, tried>>

-----------------------------------------------------------------------------
(* The addresses a dial starts with were all in DNS no longer ago than the *)
(* TTL and the time one lookup may take, although lookups overlap and an   *)
(* answer that is late replaces a newer one in the cache.                  *)
FreshAddresses ==
  [][\A d \in Dialers : (dpc[d] # "dial" /\ dpc'[d] = "dial") =>
       \A a \in ips'[d] : unseen[a] <= TTL + MaxLookup]_dnsVars
===============================================================================
