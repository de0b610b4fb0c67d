------------------------------ MODULE TxManager ------------------------------
(***************************************************************************)
(* db.TxManager.WithTx: f in a transaction, with rollback on errors and    *)
(* panics, commit otherwise, and up to three tries on bad connections.     *)
(*                                                                         *)
(* Concurrent calls share the connection pool of a sql.DB. The pool, the   *)
(* Tx and the goroutine that rolls a Tx back when its context is done are  *)
(* database/sql's and external. ErrBadConn has the meaning database/sql    *)
(* gives it: the server did not execute the statement. Any other failure   *)
(* of a COMMIT leaves open whether the server committed.                   *)
(***************************************************************************)
EXTENDS Integers, FiniteSets

CONSTANTS
  Calls,      \* calls of WithTx
  MaxOpen,    \* size of the connection pool
  FErrors,    \* what the queries of f may fail with, see mapError
  MaxTries    \* 3 in the code

ASSUME TxAssumption ==
  /\ MaxOpen \in Nat \ {0}
  /\ MaxTries \in Nat \ {0}
  /\ FErrors \subseteq {"driver_ErrBadConn", "23503", "P0001", "57014", "23505", "no_rows", "other"}

VARIABLES
  pc,       \* per call: "begin", "f", "defer", "commit", "done"
  ctx,      \* per call: whether its context is done
  try,      \* per call: the try it is in
  tx,       \* per call and try: "none", "open" (holds a connection), "over"
  err,      \* per call: the named result err
  commits   \* history: how often the server committed the effects of f

vars == <<pc, ctx, try, tx, err, commits>>

Tries == 1 .. MaxTries

InUse == Cardinality({p \in Calls \X Tries : tx[p[1]][p[2]] = "open"})

Errors == {"nil", "ErrBadConn", "ErrConstrained", "ErrException", "ErrCanceled", "ErrNop",
           "other", "begin", "commit", "ctx", "panic"}

-----------------------------------------------------------------------------
Init ==
  /\ pc = [k \in Calls |-> "begin"]
  /\ ctx = [k \in Calls |-> FALSE]
  /\ try = [k \in Calls |-> 1]
  /\ tx = [k \in Calls |-> [i \in Tries |-> "none"]]
  /\ err = [k \in Calls |-> "nil"]
  /\ commits = [k \in Calls |-> 0]

(* The errors of the unifiedQuerier that f's queries run through.          *)
mapError(e) ==
  CASE e = "driver_ErrBadConn"     -> "ErrBadConn"
    [] e = "23503"                 -> "ErrConstrained"
    [] e = "P0001"                 -> "ErrException"
    [] e = "57014"                 -> "ErrCanceled"
    [] e \in {"23505", "no_rows"}  -> "ErrNop"
    [] OTHER                       -> e

(* Mutant: any error is worth another try.                                 *)
badConn_AnyError(e) == e # "nil" /\ e # "panic"

badConn(e) == e = "ErrBadConn"

TriesLeft(k) == try[k] < MaxTries

(* transaction() returned e: the loop tries again or WithTx returns.       *)
TransactionReturns(k, e) ==
  /\ err' = [err EXCEPT ![k] = e]
  /\ IF badConn(e) /\ TriesLeft(k)
     THEN pc' = [pc EXCEPT ![k] = "begin"] /\ try' = [try EXCEPT ![k] = @ + 1]
     ELSE pc' = [pc EXCEPT ![k] = "done"] /\ UNCHANGED try

TxOver(k) == tx' = [tx EXCEPT ![k][try[k]] = "over"]

BeginGivesUp(k) == ctx[k]

(* BeginTxx gets a connection from the pool, waiting for one while all are *)
(* in use.                                                                 *)
Begin(k) ==
  /\ pc[k] = "begin"
  /\ ~BeginGivesUp(k)
  /\ InUse < MaxOpen
  /\ tx' = [tx EXCEPT ![k][try[k]] = "open"]
  /\ pc' = [pc EXCEPT ![k] = "f"]
  /\ UNCHANGED <<ctx, try, err, commits>>

BeginFails(k) ==
  /\ pc[k] = "begin"
  /\ ~BeginGivesUp(k)
  /\ InUse < MaxOpen
  /\ \E e \in {"ErrBadConn", "begin"} : TransactionReturns(k, e)
  /\ UNCHANGED <<ctx, tx, commits>>

BeginCancelled(k) ==
  /\ pc[k] = "begin"
  /\ BeginGivesUp(k)
  /\ TransactionReturns(k, "begin")
  /\ UNCHANGED <<ctx, tx, commits>>

(* f returns nil (perhaps having suppressed an error), the error of one of *)
(* its queries, or it panics.                                              *)
FReturns(k) ==
  /\ pc[k] = "f"
  /\ \E e \in {"nil", "panic"} \union {mapError(x) : x \in FErrors} : err' = [err EXCEPT ![k] = e]
  /\ pc' = [pc EXCEPT ![k] = "defer"]
  /\ UNCHANGED <<ctx, try, tx, commits>>

-----------------------------------------------------------------------------
(* The deferred switch, one action per case, in its order.                 *)

(* Mutant: the panic is passed on before the rollback.                     *)
RecoverEffect_NoRollback(k) == UNCHANGED tx

RecoverEffect(k) == TxOver(k)

(* "a panic occurred, attempt a rollback and re-panic": no retry.          *)
Recovered(k) ==
  /\ pc[k] = "defer"
  /\ err[k] = "panic"
  /\ RecoverEffect(k)
  /\ pc' = [pc EXCEPT ![k] = "done"]
  /\ UNCHANGED <<ctx, try, err, commits>>

(* "We can't do anything else with a bad connection": neither Commit nor   *)
(* Rollback is called, so the Tx keeps its connection.                     *)
BadConnection(k) ==
  /\ pc[k] = "defer"
  /\ err[k] = "ErrBadConn"
  /\ TransactionReturns(k, "ErrBadConn")
  /\ UNCHANGED <<ctx, tx, commits>>

(* Never commit on an error; with a done context the library rolls back.   *)
Failed(k) ==
  /\ pc[k] = "defer"
  /\ err[k] \notin {"nil", "panic", "ErrBadConn"}
  /\ IF ctx[k] THEN UNCHANGED tx ELSE TxOver(k)
  /\ TransactionReturns(k, err[k])
  /\ UNCHANGED <<ctx, commits>>

(* f saw no error, but the context is done.                                *)
Suppressed(k) ==
  /\ pc[k] = "defer"
  /\ err[k] = "nil"
  /\ ctx[k]
  /\ TransactionReturns(k, "ctx")
  /\ UNCHANGED <<ctx, tx, commits>>

ToCommit(k) ==
  /\ pc[k] = "defer"
  /\ err[k] = "nil"
  /\ ~ctx[k]
  /\ pc' = [pc EXCEPT ![k] = "commit"]
  /\ UNCHANGED <<ctx, try, tx, err, commits>>

(* Mutant: an error of Commit is not reported.                             *)
CommitErr_Dropped(e) == IF e = "ErrBadConn" THEN e ELSE "nil"

CommitErr(e) == IF e = "ErrBadConn" THEN e ELSE "commit"

(* tx.Commit returns: it found the Tx rolled back or its context done, it  *)
(* succeeded, the connection was bad, or it failed in some other way.      *)
CommitTooLate(k) ==
  /\ pc[k] = "commit"
  /\ ctx[k] \/ tx[k][try[k]] = "over"
  /\ TransactionReturns(k, CommitErr("ctx"))
  /\ UNCHANGED <<ctx, tx, commits>>

Commit(k) ==
  /\ pc[k] = "commit"
  /\ tx[k][try[k]] = "open"
  /\ commits' = [commits EXCEPT ![k] = @ + 1]
  /\ TxOver(k)
  /\ TransactionReturns(k, "nil")
  /\ UNCHANGED ctx

CommitBadConn(k) ==
  /\ pc[k] = "commit"
  /\ tx[k][try[k]] = "open"
  /\ TxOver(k)
  /\ TransactionReturns(k, CommitErr("ErrBadConn"))
  /\ UNCHANGED <<ctx, commits>>

CommitFails(k) ==
  /\ pc[k] = "commit"
  /\ tx[k][try[k]] = "open"
  /\ commits' \in {commits, [commits EXCEPT ![k] = @ + 1]}
  /\ TxOver(k)
  /\ TransactionReturns(k, CommitErr("other"))
  /\ UNCHANGED ctx

-----------------------------------------------------------------------------
Cancel(k) ==
  /\ ~ctx[k]
  /\ ctx' = [ctx EXCEPT ![k] = TRUE]
  /\ UNCHANGED <<pc, try, tx, err, commits>>

(* database/sql: a Tx whose context is done is rolled back in the          *)
(* background and its connection released.                                 *)
AwaitDone(k, i) ==
  /\ ctx[k]
  /\ tx[k][i] = "open"
  /\ tx' = [tx EXCEPT ![k][i] = "over"]
  /\ UNCHANGED <<pc, ctx, try, err, commits>>

Done == (\A k \in Calls : pc[k] = "done") /\ UNCHANGED vars

Step(k) ==
  \/ Begin(k) \/ BeginFails(k) \/ BeginCancelled(k) \/ FReturns(k)
  \/ Recovered(k) \/ BadConnection(k) \/ Failed(k) \/ Suppressed(k) \/ ToCommit(k)
  \/ CommitTooLate(k) \/ Commit(k) \/ CommitBadConn(k) \/ CommitFails(k)

Next ==
  \/ \E k \in Calls : Step(k) \/ Cancel(k)
  \/ \E k \in Calls, i \in Tries : AwaitDone(k, i)
  \/ Done

(* Goroutines are scheduled, and the pool hands a free connection to every *)
(* waiting call in turn.                                                   *)
Fairness ==
  /\ \A k \in Calls : SF_vars(Step(k))
  /\ \A k \in Calls, i \in Tries : WF_vars(AwaitDone(k, i))

Spec == Init /\ [][Next]_vars

FairSpec == Spec /\ Fairness

-----------------------------------------------------------------------------
(* Type invariant: in particular no call makes more than MaxTries tries.   *)
TypeOK ==
  /\ pc \in [Calls -> {"begin", "f", "defer", "commit", "done"}]
  /\ ctx \in [Calls -> BOOLEAN]
  /\ try \in [Calls -> Tries]
  /\ tx \in [Calls -> [Tries -> {"none", "open", "over"}]]
  /\ err \in [Calls -> Errors]
  /\ commits \in [Calls -> Nat]

(* However often WithTx tries, the effects of f are committed at most once *)
(* in one call: only a transaction that the server cannot have committed   *)
(* is tried again.                                                         *)
CommittedAtMostOnce == \A k \in Calls : commits[k] <= 1

(* WithTx returns nil exactly when the effects of f are committed, and any *)
(* other result than a failed COMMIT means that they are not, whatever the *)
(* order of f's return, the cancellation and the background rollback.      *)
ResultTellsOutcome ==
  \A k \in Calls : pc[k] = "done" => /\ err[k] = "nil" => commits[k] = 1
                                     /\ err[k] \notin {"nil", "commit"} => commits[k] = 0

(* The transactions whose try ended on f's bad connection and which still  *)
(* hold their connection.                                                  *)
Abandoned ==
  {p \in Calls \X Tries :
     LET k == p[1] IN
       /\ tx[k][p[2]] = "open"
       /\ p[2] < try[k] \/ (pc[k] = "done" /\ err[k] = "ErrBadConn")}

(* Every call returns, cancelled or not and whatever the others do, unless *)
(* transactions abandoned on bad connections come to hold all connections  *)
(* of the pool for good (WithTx, its deferred rollback).                   *)
CallReturns ==
  \A k \in Calls : <>(pc[k] = "done") \/ <>[](Cardinality(Abandoned) = MaxOpen)

(* "WithTx wraps f in an explicit o11y'd transaction, handling rollback if *)
(* f returns an error": a call returns also when its own tries were        *)
(* abandoned.                                                              *)
AlwaysReturns == \A k \in Calls : <>(pc[k] = "done")
=============================================================================
