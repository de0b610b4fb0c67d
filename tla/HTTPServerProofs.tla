-------------------------- MODULE HTTPServerProofs --------------------------
(***************************************************************************)
(* The tracked listener's counters and gauges are exact while the server   *)
(* is not shutting down, and Serve returns nil only when no connection is  *)
(* left open: for any set of connections and hosts, finite or not.         *)
(*                                                                         *)
(* The counters need that nothing is closed twice before a shutdown, and   *)
(* that only finitely many connections are open; the result of Serve needs *)
(* what the stopper and the group's error say together.                    *)
(***************************************************************************)
EXTENDS HTTPServer, FiniteSetTheorems, TLAPS

TypeInv ==
  /\ conn \in [Conns -> {"none", "new", "active", "idle", "closed", "reaped"}]
  /\ server \in {"serving", "nil", "err"}
  /\ stopper \in {"waiting", "stopping", "nil", "err"}
  /\ gerr \in {"none", "serve", "shutdown"}
  /\ result \in {"none", "nil", "serve", "shutdown"}
  /\ inShutdown \in BOOLEAN

(* Before a shutdown: no connection is closed and still to be closed once  *)
(* more, and the counters count the open ones.                             *)
Counted ==
  ~inShutdown =>
    /\ \A c \in Conns : conn[c] # "reaped"
    /\ IsFiniteSet(Open)
    /\ activeConn = Cardinality(Open)
    /\ remotes \in [Hosts -> Int]
    /\ \A h \in Hosts : remotes[h] = Cardinality(From(h))

(* The stopper is past its wait only in a shutdown; it ends with nil only  *)
(* when nothing is open, and with an error only with the group's.          *)
StopperInv ==
  /\ stopper # "waiting" => inShutdown
  /\ stopper = "nil" => Open = {}
  /\ stopper = "err" => gerr # "none"
  /\ result = "nil" => stopper = "nil"

IInv == TypeInv /\ Counted /\ StopperInv

-----------------------------------------------------------------------------
(* Sets of naturals have a least element, bounded ones a greatest.         *)

(* A non-empty set of naturals has a least element, as Gauges looks for in *)
(* remotes.                                                                *)
LEMMA LeastElement ==
  ASSUME NEW S \in SUBSET Nat, S # {}
  PROVE  \E m \in S : \A s \in S : m <= s
<1> DEFINE Below(x) == {y \in Nat : y < x}
           T == {Below(x) : x \in S}
           R == StrictSubsetOrdering(Nat)
<1>1. ASSUME NEW x \in S PROVE IsFiniteSet(Below(x))
  BY FS_BoundedSetOfNaturals
<1>2. T \subseteq FiniteSubsetsOf(Nat) /\ T # {}
  BY <1>1 DEF FiniteSubsetsOf
<1>3. PICK X \in T : \A Y \in T : <<Y, X>> \notin R
  <2> HIDE DEF T, R
  <2>1. IsWellFoundedOn(R, FiniteSubsetsOf(Nat))
    BY FS_StrictSubsetOrderingWellFounded DEF R
  <2> QED BY <1>2, <2>1, WFMin
<1>4. PICK m \in S : X = Below(m)
  OBVIOUS
<1>5. ASSUME NEW s \in S, s < m PROVE FALSE
  <2>1. Below(s) \subseteq Below(m) /\ s \in Below(m) \ Below(s)
    BY <1>5
  <2>2. <<Below(s), Below(m)>> \in R
    BY <2>1 DEF StrictSubsetOrdering
  <2> QED BY <1>3, <1>4, <2>2
<1> QED BY <1>5

(* A non-empty, bounded set of naturals has a greatest element.            *)
LEMMA GreatestElement ==
  ASSUME NEW S \in SUBSET Nat, S # {}, NEW n \in Nat, \A s \in S : s <= n
  PROVE  \E m \in S : \A s \in S : m >= s
<1> DEFINE T == {n - s : s \in S}
<1>1. T \in SUBSET Nat /\ T # {}
  OBVIOUS
<1>2. PICK t \in T : \A u \in T : t <= u
  <2> HIDE DEF T
  <2> QED BY <1>1, LeastElement
<1>3. PICK m \in S : t = n - m
  OBVIOUS
<1>4. ASSUME NEW s \in S PROVE m >= s
  <2>1. n - s \in T
    OBVIOUS
  <2>2. n - m <= n - s
    BY <1>2, <1>3, <2>1
  <2> QED BY <2>2
<1> QED BY <1>4

-----------------------------------------------------------------------------
(* Open connections are counted: finite sets, one more or one less.        *)

(* The open connections of one host are finitely many, no more than all.   *)
LEMMA OpenFinite ==
  ASSUME IsFiniteSet(Open)
  PROVE  /\ Cardinality(Open) \in Nat
         /\ \A h : IsFiniteSet(From(h)) /\ Cardinality(From(h)) \in 0 .. Cardinality(Open)
<1>1. Cardinality(Open) \in Nat
  BY FS_CardinalityType
<1>2. ASSUME NEW h PROVE IsFiniteSet(From(h)) /\ Cardinality(From(h)) \in 0 .. Cardinality(Open)
  <2>1. From(h) \in SUBSET Open
    BY DEF From
  <2>2. IsFiniteSet(From(h)) /\ Cardinality(From(h)) <= Cardinality(Open)
    BY <2>1, FS_Subset
  <2>3. Cardinality(From(h)) \in Nat
    BY <2>2, FS_CardinalityType
  <2> QED BY <1>1, <2>2, <2>3
<1> QED BY <1>1, <1>2

(* Accept raises the counters for a connection that becomes open.          *)
LEMMA OneMore ==
  ASSUME TypeInv, Counted, NEW c \in Conns, conn[c] = "none", TrackOpen(c),
         conn' = [conn EXCEPT ![c] = "new"], inShutdown' = inShutdown
  PROVE  Counted'
<1> SUFFICES ASSUME ~inShutdown
             PROVE  /\ \A d \in Conns : conn'[d] # "reaped"
                    /\ IsFiniteSet(Open')
                    /\ activeConn' = Cardinality(Open')
                    /\ remotes' \in [Hosts -> Int]
                    /\ \A h \in Hosts : remotes'[h] = Cardinality(From(h)')
  BY DEF Counted
<1>1. Open' = Open \union {c} /\ c \notin Open
  BY DEF Open, TypeInv
<1>2. \A h : From(h)' = IF HostOf[c] = h THEN From(h) \union {c} ELSE From(h)
  BY <1>1 DEF From
<1>3. IsFiniteSet(Open) /\ activeConn = Cardinality(Open) /\ remotes \in [Hosts -> Int]
  BY DEF Counted
<1>4. IsFiniteSet(Open') /\ activeConn' = Cardinality(Open')
  BY <1>1, <1>3, FS_AddElement DEF TrackOpen
<1>5. HostOf[c] \in Hosts
  BY HostAssumption
<1>6. remotes' \in [Hosts -> Int]
  BY <1>3, <1>5 DEF TrackOpen
<1>7. ASSUME NEW h \in Hosts PROVE remotes'[h] = Cardinality(From(h)')
  <2>1. remotes[h] = Cardinality(From(h)) /\ IsFiniteSet(From(h)) /\ c \notin From(h)
    BY <1>1, <1>3, OpenFinite DEF Counted, From
  <2>2. Cardinality(From(h) \union {c}) = Cardinality(From(h)) + 1
    BY <2>1, FS_AddElement
  <2>3. remotes'[h] = IF HostOf[c] = h THEN remotes[h] + 1 ELSE remotes[h]
    BY <1>3, <1>5 DEF TrackOpen
  <2> QED BY <1>2, <2>1, <2>2, <2>3
<1>8. \A d \in Conns : conn'[d] # "reaped"
  BY DEF Counted, TypeInv
<1> QED BY <1>4, <1>6, <1>7, <1>8

(* Close lowers the counters for a connection that was open; in a shutdown *)
(* it need not have been.                                                  *)
LEMMA OneLess ==
  ASSUME TypeInv, Counted, NEW c \in Conns, c \in Open \/ inShutdown, TrackClose(c),
         conn' = [conn EXCEPT ![c] = "closed"], inShutdown' = inShutdown
  PROVE  Counted'
<1> SUFFICES ASSUME ~inShutdown
             PROVE  /\ \A d \in Conns : conn'[d] # "reaped"
                    /\ IsFiniteSet(Open')
                    /\ activeConn' = Cardinality(Open')
                    /\ remotes' \in [Hosts -> Int]
                    /\ \A h \in Hosts : remotes'[h] = Cardinality(From(h)')
  BY DEF Counted
<1>1. Open' = Open \ {c} /\ c \in Open
  BY DEF Open, TypeInv
<1>2. \A h : From(h)' = IF HostOf[c] = h THEN From(h) \ {c} ELSE From(h)
  BY <1>1 DEF From
<1>3. IsFiniteSet(Open) /\ activeConn = Cardinality(Open) /\ remotes \in [Hosts -> Int]
  BY DEF Counted
<1>4. IsFiniteSet(Open') /\ activeConn' = Cardinality(Open')
  BY <1>1, <1>3, FS_RemoveElement DEF TrackClose
<1>5. HostOf[c] \in Hosts
  BY HostAssumption
<1>6. remotes' \in [Hosts -> Int]
  BY <1>3, <1>5 DEF TrackClose
<1>7. ASSUME NEW h \in Hosts PROVE remotes'[h] = Cardinality(From(h)')
  <2>1. remotes[h] = Cardinality(From(h)) /\ IsFiniteSet(From(h))
    BY <1>3, OpenFinite DEF Counted
  <2>2. HostOf[c] = h => Cardinality(From(h) \ {c}) = Cardinality(From(h)) - 1
    BY <1>1, <2>1, FS_RemoveElement DEF From
  <2>3. remotes'[h] = IF HostOf[c] = h THEN remotes[h] - 1 ELSE remotes[h]
    BY <1>3, <1>5 DEF TrackClose
  <2> QED BY <1>2, <2>1, <2>2, <2>3
<1>8. \A d \in Conns : conn'[d] # "reaped"
  BY DEF Counted, TypeInv
<1> QED BY <1>4, <1>6, <1>7, <1>8

(* The same connections are open and the counters are not touched.         *)
LEMMA NoneMore ==
  ASSUME Counted, Open' = Open, \A c \in Conns : conn'[c] = "reaped" => conn[c] = "reaped",
         inShutdown' = inShutdown, UNCHANGED tracker
  PROVE  Counted'
<1>1. \A h : From(h)' = From(h)
  BY DEF From
<1> QED BY <1>1 DEF Counted, tracker

(* The gauges bracket the connections of every host that has one.          *)
LEMMA GaugesBracket == Counted => CountersExact
<1> SUFFICES ASSUME Counted, ~inShutdown, NEW h \in Hosts, From(h) # {}
             PROVE  /\ MinPerRemote \in 1 .. Cardinality(From(h))
                    /\ MaxPerRemote >= Cardinality(From(h))
  BY DEF Counted, CountersExact
<1>1. /\ IsFiniteSet(Open)
      /\ activeConn = Cardinality(Open) /\ activeConn \in Nat
      /\ \A g \in Hosts : remotes[g] = Cardinality(From(g)) /\ remotes[g] \in 0 .. activeConn
  BY OpenFinite DEF Counted
<1>2. Cardinality(From(h)) # 0
  BY <1>1, OpenFinite, FS_EmptySet
<1>3. h \in Present /\ Present \subseteq Hosts /\ activeConn > 0
  BY <1>1, <1>2 DEF Present
<1> DEFINE V == {remotes[g] : g \in Present}
<1>4. V \subseteq 1 .. activeConn
  BY <1>1, <1>3 DEF Present
<1>5. PICK m \in {Sentinel} \union V : \A v \in {Sentinel} \union V : m <= v
  <2>1. {Sentinel} \union V \in SUBSET Nat
    BY <1>1, <1>4 DEF Sentinel
  <2> QED BY <2>1, LeastElement
<1>6. PICK M \in {0} \union V : \A v \in {0} \union V : M >= v
  <2>1. {0} \union V \in SUBSET Nat /\ \A v \in {0} \union V : v <= activeConn
    BY <1>1, <1>4
  <2> QED BY <1>1, <2>1, GreatestElement
<1>7. MinPerRemote \in {Sentinel} \union V /\ \A g \in Present : MinPerRemote <= remotes[g]
  <2>1. m <= Sentinel /\ \A g \in Present : m <= remotes[g]
    BY <1>5
  <2> QED BY <1>3, <2>1 DEF MinPerRemote
<1>8. \A g \in Present : MaxPerRemote >= remotes[g]
  <2>1. \A g \in Present : M >= remotes[g]
    BY <1>6
  <2> QED BY <1>3, <2>1 DEF MaxPerRemote
<1>9. MinPerRemote >= 1 /\ MinPerRemote \in Nat
  BY <1>1, <1>4, <1>7 DEF Sentinel
<1> QED BY <1>1, <1>3, <1>7, <1>8, <1>9

-----------------------------------------------------------------------------
(* At first no connection is open and no counter is set.                   *)
LEMMA Initially == Init => IInv
<1> SUFFICES ASSUME Init PROVE IInv
  OBVIOUS
<1>1. TypeInv
  BY DEF Init, TypeInv
<1>2. Open = {} /\ \A h : From(h) = {}
  BY DEF Init, Open, From
<1>3. Counted
  BY <1>2, FS_EmptySet DEF Init, Counted
<1>4. StopperInv
  BY <1>2 DEF Init, StopperInv
<1> QED BY <1>1, <1>3, <1>4 DEF IInv

(* One of the goroutines of the group, or the context: nothing opens or    *)
(* closes.                                                                 *)
LEMMA GroupStep ==
  ASSUME IInv, Cancel \/ AcceptFails \/ ServeClosed \/ ShutdownBegin \/ GraceExpires \/ Wait
  PROVE  IInv'
<1> USE DEF IInv
<1>1. conn' = conn /\ UNCHANGED tracker /\ Open' = Open
  BY DEF Cancel, AcceptFails, ServeClosed, ShutdownBegin, GraceExpires, Wait, Open
<1>2. TypeInv'
  BY DEF Cancel, AcceptFails, ServeClosed, ShutdownBegin, GraceExpires, Wait, TypeInv, KeepErr
<1>3. Counted'
  <2>1. CASE ShutdownBegin
    BY <2>1 DEF ShutdownBegin, Counted
  <2>2. CASE ~ShutdownBegin
    <3>1. inShutdown' = inShutdown
      BY <2>2 DEF Cancel, AcceptFails, ServeClosed, GraceExpires, Wait
    <3> QED BY <1>1, <3>1, NoneMore
  <2> QED BY <2>1, <2>2
<1>4. StopperInv'
  BY <1>1 DEF Cancel, AcceptFails, ServeClosed, ShutdownBegin, GraceExpires, Wait, TypeInv, StopperInv, KeepErr
<1> QED BY <1>2, <1>3, <1>4

(* A connection is accepted: Shutdown has not begun, so the stopper waits. *)
LEMMA AcceptStep ==
  ASSUME IInv, NEW c \in Conns, Accept(c) PROVE IInv'
<1> USE DEF IInv
<1>1. TypeInv'
  BY DEF Accept, TypeInv, group
<1>2. Counted'
  BY OneMore DEF Accept, group
<1>3. StopperInv'
  BY DEF Accept, StopperInv, group
<1> QED BY <1>1, <1>2, <1>3

(* A connection's goroutine never makes one open.                          *)
LEMMA ConnStep ==
  ASSUME IInv, NEW c \in Conns, RequestBegins(c) \/ RequestEnds(c) \/ PeerGone(c) \/ ReapedReturns(c)
  PROVE  IInv'
<1> USE DEF IInv
<1>0. UNCHANGED group
  BY DEF RequestBegins, RequestEnds, PeerGone, ReapedReturns
<1>1. CASE \E s \in {"active", "idle"} : conn[c] \in {"new", "active", "idle"} /\ conn' = [conn EXCEPT ![c] = s] /\ UNCHANGED tracker
  <2>1. TypeInv'
    BY <1>0, <1>1 DEF TypeInv, group
  <2>2. Open' = Open /\ \A d \in Conns : conn'[d] = "reaped" => conn[d] = "reaped"
    BY <1>1 DEF TypeInv, Open
  <2>3. Counted'
    BY <1>0, <1>1, <2>2, NoneMore DEF group
  <2>4. StopperInv'
    BY <1>0, <2>2 DEF StopperInv, group
  <2> QED BY <2>1, <2>3, <2>4
<1>2. CASE conn[c] \in {"new", "active", "idle", "reaped"} /\ conn' = [conn EXCEPT ![c] = "closed"] /\ TrackClose(c)
  <2>1. TypeInv'
    BY <1>0, <1>2 DEF TypeInv, group
  <2>2. Open' \subseteq Open /\ (c \in Open \/ inShutdown)
    BY <1>2 DEF TypeInv, Open, Counted
  <2>3. Counted'
    BY <1>0, <1>2, <2>2, OneLess DEF group
  <2>4. StopperInv'
    BY <1>0, <2>2 DEF StopperInv, group
  <2> QED BY <2>1, <2>3, <2>4
<1> QED BY <1>1, <1>2 DEF RequestBegins, RequestEnds, PeerGone, ReapedReturns

(* A round of Shutdown that finds nothing open leaves nothing open.        *)
LEMMA PollStep ==
  ASSUME IInv, NEW S \in SUBSET Conns, ShutdownPoll(S) PROVE IInv'
<1> USE DEF IInv, ShutdownPoll
<1>1. TypeInv'
  BY DEF TypeInv
<1>2. Counted'
  BY DEF StopperInv, Counted
<1>3. Open' = Open \ S
  BY DEF TypeInv, Open
<1>4. StopperInv'
  BY <1>3 DEF StopperInv, Quiescent
<1> QED BY <1>1, <1>2, <1>4

(* Every step preserves the invariant.                                     *)
LEMMA Step == IInv /\ [Next]_vars => IInv'
<1> SUFFICES ASSUME IInv, [Next]_vars PROVE IInv'
  OBVIOUS
<1>1. CASE UNCHANGED vars
  <2>1. UNCHANGED <<group, tracker, conn, Open>>
    BY <1>1 DEF vars, group, tracker, Open
  <2>2. Counted'
    BY <2>1, NoneMore DEF IInv, group
  <2> QED BY <2>1, <2>2 DEF IInv, TypeInv, StopperInv, group
<1>2. CASE Done
  BY <1>1, <1>2 DEF Done
<1> QED BY <1>1, <1>2, GroupStep, AcceptStep, ConnStep, PollStep DEF Next

(* IInv holds throughout: what trackedListener has counted, and what the   *)
(* two goroutines of Serve know of a shutdown.                             *)
THEOREM Invariance == Spec => []IInv
BY Initially, Step, PTL DEF Spec

(* trackedListener counts every Accept and every Close once: before a      *)
(* shutdown its counters are the open connections, in total and per remote *)
(* host, and its gauges bracket every host's.                              *)
THEOREM Counters == Spec => []CountersExact
<1>1. IInv => CountersExact
  BY GaugesBracket DEF IInv
<1> QED BY <1>1, Invariance, PTL

(* HTTPServer.Serve returns nil only after Shutdown saw every connection   *)
(* closed, and none is accepted since.                                     *)
THEOREM Drained == Spec => []NilMeansDrained
<1>1. IInv => NilMeansDrained
  BY DEF IInv, StopperInv, NilMeansDrained
<1> QED BY <1>1, Invariance, PTL
=============================================================================
