----------------------------- MODULE HTTPServer -----------------------------
(***************************************************************************)
(* HTTPServer.Serve: an errgroup of two goroutines, one that serves the    *)
(* tracked listener and one that shuts the server down, within a grace     *)
(* period, once the context is cancelled; and the trackedListener, whose   *)
(* counters follow every Accept and every Close.                           *)
(*                                                                         *)
(* net/http itself is external: it is modelled as far as Serve, Shutdown   *)
(* and the connections' goroutines call the listener and the connections.  *)
(***************************************************************************)
EXTENDS Integers, FiniteSets

CONSTANTS
  Conns,     \* connections clients may open
  Hosts,     \* their remote hosts
  HostOf     \* the remote host of each connection

ASSUME HostAssumption == HostOf \in [Conns -> Hosts]

VARIABLES
  ctx,        \* whether the context passed to Serve is cancelled
  gerr,       \* the error the errgroup kept: "none", "serve" or "shutdown"
  server,     \* the goroutine in server.Serve: "serving", "nil" or "err"
  stopper,    \* the other: "waiting", "stopping", "nil" or "err"
  inShutdown, \* net/http: Shutdown was called, the listener is closed
  conn,       \* "none", "new", "active", "idle", "closed", or "reaped": closed
              \* by Shutdown, its goroutine has not returned yet
  result,     \* what Serve returned: "none", "nil", "serve" or "shutdown"
  accepted, activeConn, remotes  \* the fields of trackedListener

vars == <<ctx, gerr, server, stopper, inShutdown, conn, result, accepted, activeConn, remotes>>

group   == <<ctx, gerr, server, stopper, inShutdown, result>>
tracker == <<accepted, activeConn, remotes>>

Open == {c \in Conns : conn[c] \in {"new", "active", "idle"}}

From(h) == {c \in Open : HostOf[c] = h}

(* errgroup.WithContext: cancelled with the caller's context, or by the    *)
(* first goroutine that returns an error.                                  *)
groupDone == ctx \/ gerr # "none"

-----------------------------------------------------------------------------
(* trackConn, under the listener's mutex.                                  *)

TrackOpen(c) ==
  /\ accepted' = accepted + 1
  /\ activeConn' = activeConn + 1
  /\ remotes' = [remotes EXCEPT ![HostOf[c]] = @ + 1]

(* Mutant: the host's entry is deleted with its first closed connection.   *)
TrackClose_Deletes(c) ==
  /\ activeConn' = activeConn - 1
  /\ remotes' = [remotes EXCEPT ![HostOf[c]] = 0]
  /\ UNCHANGED accepted

(* An entry that reaches 0 is deleted: absent and 0 are the same here.     *)
TrackClose(c) ==
  /\ activeConn' = activeConn - 1
  /\ remotes' = [remotes EXCEPT ![HostOf[c]] = @ - 1]
  /\ UNCHANGED accepted

TrackCloseAll(S) ==
  /\ activeConn' = activeConn - Cardinality(S)
  /\ remotes' = [h \in Hosts |-> remotes[h] - Cardinality({c \in S : HostOf[c] = h})]
  /\ UNCHANGED accepted

(* Gauges: the most and the least connections of a remote host.            *)
Present == {h \in Hosts : remotes[h] # 0}

MaxPerRemote ==
  IF activeConn > 0 THEN CHOOSE n \in {0} \union {remotes[h] : h \in Present} :
                           \A h \in Present : n >= remotes[h]
                    ELSE 0

Sentinel == 100000

MinPerRemote ==
  IF activeConn > 0 THEN CHOOSE n \in {Sentinel} \union {remotes[h] : h \in Present} :
                           n <= Sentinel /\ \A h \in Present : n <= remotes[h]
                    ELSE 0

-----------------------------------------------------------------------------
(* New has opened the listener; Serve starts both goroutines.              *)
Init ==
  /\ ctx = FALSE
  /\ gerr = "none"
  /\ server = "serving"
  /\ stopper = "waiting"
  /\ inShutdown = FALSE
  /\ conn = [c \in Conns |-> "none"]
  /\ result = "none"
  /\ accepted = 0 /\ activeConn = 0 /\ remotes = [h \in Hosts |-> 0]

Cancel ==
  /\ ~ctx
  /\ ctx' = TRUE
  /\ UNCHANGED <<gerr, server, stopper, inShutdown, conn, result, tracker>>

KeepErr(e) == IF gerr = "none" THEN e ELSE gerr

(* trackedListener.Accept, called by server.Serve.                         *)
Accept(c) ==
  /\ server = "serving"
  /\ ~inShutdown
  /\ conn[c] = "none"
  /\ conn' = [conn EXCEPT ![c] = "new"]
  /\ TrackOpen(c)
  /\ UNCHANGED group

(* Accept fails for good: server.Serve returns the error.                  *)
AcceptFails ==
  /\ server = "serving"
  /\ ~inShutdown
  /\ server' = "err"
  /\ gerr' = KeepErr("serve")
  /\ UNCHANGED <<ctx, stopper, inShutdown, conn, result, tracker>>

(* server.Serve returns ErrServerClosed, which the goroutine drops.        *)
ServeClosed ==
  /\ server = "serving"
  /\ inShutdown
  /\ server' = "nil"
  /\ UNCHANGED <<ctx, gerr, stopper, inShutdown, conn, result, tracker>>

(* <-ctx.Done() and the start of Shutdown, which closes the listener.      *)
ShutdownBegin ==
  /\ stopper = "waiting"
  /\ groupDone
  /\ stopper' = "stopping"
  /\ inShutdown' = TRUE
  /\ UNCHANGED <<ctx, gerr, server, conn, result, tracker>>

(* Mutant: Shutdown does not wait for connections that serve a request.    *)
Quiescent_Always(S) == TRUE

(* closeIdleConns reports whether every connection is closed now.          *)
Quiescent(S) == Open \ S = {}

(* One round of Shutdown's loop, once server.Serve has returned: idle      *)
(* connections, and new ones that stay silent, are closed; it ends when    *)
(* none is left.                                                           *)
ShutdownPoll(S) ==
  /\ stopper = "stopping"
  /\ server # "serving"
  /\ {c \in Conns : conn[c] = "idle"} \subseteq S
  /\ S \subseteq {c \in Conns : conn[c] \in {"idle", "new"}}
  /\ S # {} \/ Quiescent(S)
  /\ conn' = [c \in Conns |-> IF c \in S THEN "reaped" ELSE conn[c]]
  /\ TrackCloseAll(S)
  /\ stopper' = IF Quiescent(S) THEN "nil" ELSE stopper
  /\ UNCHANGED <<ctx, gerr, server, inShutdown, result>>

(* Mutant: Shutdown is given a context without a deadline.                 *)
GraceExpires_Never == FALSE

(* The grace period is over: "server shutdown failed".                     *)
GraceExpires ==
  /\ stopper = "stopping"
  /\ server # "serving"
  /\ stopper' = "err"
  /\ gerr' = KeepErr("shutdown")
  /\ UNCHANGED <<ctx, server, inShutdown, conn, result, tracker>>

Returned == result # "none"

Wait ==
  /\ ~Returned
  /\ server # "serving"
  /\ stopper \in {"nil", "err"}
  /\ result' = IF gerr = "none" THEN "nil" ELSE gerr
  /\ UNCHANGED <<ctx, gerr, server, stopper, inShutdown, conn, tracker>>

-----------------------------------------------------------------------------
(* A connection's goroutine, each with the calls it makes to Close.        *)

RequestBegins(c) ==
  /\ conn[c] \in {"new", "idle"}
  /\ conn' = [conn EXCEPT ![c] = "active"]
  /\ UNCHANGED <<group, tracker>>

(* The response is written: the connection is kept alive, or closed when   *)
(* the server is shutting down.                                            *)
RequestEnds(c) ==
  /\ conn[c] = "active"
  /\ \/ /\ ~inShutdown
        /\ conn' = [conn EXCEPT ![c] = "idle"]
        /\ UNCHANGED tracker
     \/ /\ conn' = [conn EXCEPT ![c] = "closed"]
        /\ TrackClose(c)
  /\ UNCHANGED group

(* The client goes away, or the read times out.                            *)
PeerGone(c) ==
  /\ conn[c] \in {"new", "idle"}
  /\ conn' = [conn EXCEPT ![c] = "closed"]
  /\ TrackClose(c)
  /\ UNCHANGED group

(* The goroutine of a connection that Shutdown closed wakes up, returns    *)
(* and closes the connection once more.                                    *)
ReapedReturns(c) ==
  /\ conn[c] = "reaped"
  /\ conn' = [conn EXCEPT ![c] = "closed"]
  /\ TrackClose(c)
  /\ UNCHANGED group

Done == Returned /\ UNCHANGED vars

Next ==
  \/ Cancel \/ AcceptFails \/ ServeClosed \/ ShutdownBegin \/ GraceExpires \/ Wait \/ Done
  \/ \E c \in Conns : Accept(c) \/ RequestBegins(c) \/ RequestEnds(c) \/ PeerGone(c) \/ ReapedReturns(c)
  \/ \E S \in SUBSET Conns : ShutdownPoll(S)

(* The two goroutines make progress and the grace period ends; nothing is  *)
(* assumed of clients and handlers.                                        *)
Fairness ==
  /\ WF_vars(ServeClosed)
  /\ WF_vars(ShutdownBegin)
  /\ WF_vars(GraceExpires)
  /\ WF_vars(Wait)

Spec == Init /\ [][Next]_vars

FairSpec == Spec /\ Fairness

-----------------------------------------------------------------------------

(* While the server is not shutting down the tracked listener's counters   *)
(* agree with the connections that are open, in total and per remote host, *)
(* whatever the order of Accepts and Closes, and the gauges bracket the    *)
(* connections of every remote host that has one ("useful to see if        *)
(* clients are balancing us well").                                        *)
CountersExact ==
  ~inShutdown =>
    /\ activeConn = Cardinality(Open)
    /\ \A h \in Hosts : remotes[h] = Cardinality(From(h))
    /\ \A h \in Hosts : From(h) # {} => /\ MinPerRemote \in 1 .. Cardinality(From(h))
                                       /\ MaxPerRemote >= Cardinality(From(h))

(* Serve returns nil only when no connection is left open: every request   *)
(* that was in flight at the cancellation has been answered, so resources  *)
(* the handlers use may be closed.                                         *)
NilMeansDrained == result = "nil" => Open = {}

(* Once the context is cancelled Serve returns, also when a handler never  *)
(* finishes: the grace period bounds Shutdown.                             *)
StopsWhenCancelled == ctx ~> Returned
=============================================================================
