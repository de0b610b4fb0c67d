--------------------------- MODULE TxManagerProofs ---------------------------
(***************************************************************************)
(* WithTx commits at most once and its result tells the outcome, for every *)
(* number of calls, connections and tries.                                 *)
(*                                                                         *)
(* The properties speak of calls that are over. The inductive invariant    *)
(* adds what holds on the way there: nothing is committed before the call  *)
(* is over, and only a call without an error reaches COMMIT.               *)
(***************************************************************************)
EXTENDS TxManager, TLAPS

Outcome(k) ==
  /\ pc[k] # "done" => commits[k] = 0
  /\ pc[k] = "done" => /\ err[k] = "nil" => commits[k] = 1
                       /\ err[k] = "commit" => commits[k] \in {0, 1}
                       /\ err[k] \notin {"nil", "commit"} => commits[k] = 0

OutcomeInv == \A k \in Calls : Outcome(k)

(* What f's queries may report are errors of the package, and neither of   *)
(* the results that mean a commit was attempted.                           *)
LEMMA MappedErrors ==
  ASSUME NEW x \in FErrors
  PROVE  mapError(x) \in Errors \ {"nil", "commit", "begin", "ctx", "panic"}
BY TxAssumption DEF mapError, Errors

(* WithTx's variables keep their types: in particular no call makes more   *)
(* than MaxTries tries.                                                    *)
LEMMA TypeStep == TypeOK /\ [Next]_vars => TypeOK'
<1> SUFFICES ASSUME TypeOK, [Next]_vars PROVE TypeOK'
  OBVIOUS
<1> USE TxAssumption
<1>r. ASSUME NEW k \in Calls, NEW e \in Errors, TransactionReturns(k, e)
      PROVE  /\ pc' \in [Calls -> {"begin", "f", "defer", "commit", "done"}]
             /\ try' \in [Calls -> Tries]
             /\ err' \in [Calls -> Errors]
  <2>1. err' \in [Calls -> Errors]
    BY <1>r DEF TransactionReturns, TypeOK
  <2>2. pc' \in [Calls -> {"begin", "f", "defer", "commit", "done"}]
    BY <1>r DEF TransactionReturns, TypeOK, badConn
  <2>3. TriesLeft(k) => try[k] + 1 \in Tries
    <3>1. try[k] \in Tries
      BY DEF TypeOK
    <3> QED BY <3>1 DEF TriesLeft, Tries
  <2>4. try' \in [Calls -> Tries]
    BY <1>r, <2>3 DEF TransactionReturns, TypeOK, badConn
  <2> QED BY <2>1, <2>2, <2>4
<1>o. ASSUME NEW k \in Calls, TxOver(k)
      PROVE  tx' \in [Calls -> [Tries -> {"none", "open", "over"}]]
  BY <1>o DEF TxOver, TypeOK
<1>1. ASSUME NEW k \in Calls, Begin(k) PROVE TypeOK'
  BY <1>1 DEF Begin, TypeOK
<1>2. ASSUME NEW k \in Calls, BeginFails(k) PROVE TypeOK'
  BY <1>2, <1>r DEF BeginFails, TypeOK, Errors
<1>3. ASSUME NEW k \in Calls, BeginCancelled(k) PROVE TypeOK'
  BY <1>3, <1>r DEF BeginCancelled, TypeOK, Errors
<1>4. ASSUME NEW k \in Calls, FReturns(k) PROVE TypeOK'
  <2>1. PICK e \in {"nil", "panic"} \union {mapError(x) : x \in FErrors} : err' = [err EXCEPT ![k] = e]
    BY <1>4 DEF FReturns
  <2>2. e \in Errors
    BY MappedErrors DEF Errors
  <2> QED BY <1>4, <2>1, <2>2 DEF FReturns, TypeOK
<1>5. ASSUME NEW k \in Calls, Recovered(k) PROVE TypeOK'
  BY <1>5, <1>o DEF Recovered, RecoverEffect, TypeOK
<1>6. ASSUME NEW k \in Calls, BadConnection(k) PROVE TypeOK'
  BY <1>6, <1>r DEF BadConnection, TypeOK, Errors
<1>7. ASSUME NEW k \in Calls, Failed(k) PROVE TypeOK'
  <2>1. err[k] \in Errors
    BY DEF TypeOK
  <2> QED BY <1>7, <1>r, <1>o, <2>1 DEF Failed, TypeOK
<1>8. ASSUME NEW k \in Calls, Suppressed(k) PROVE TypeOK'
  BY <1>8, <1>r DEF Suppressed, TypeOK, Errors
<1>9. ASSUME NEW k \in Calls, ToCommit(k) PROVE TypeOK'
  BY <1>9 DEF ToCommit, TypeOK
<1>10. ASSUME NEW k \in Calls, CommitTooLate(k) PROVE TypeOK'
  BY <1>10, <1>r DEF CommitTooLate, CommitErr, TypeOK, Errors
<1>11. ASSUME NEW k \in Calls, Commit(k) PROVE TypeOK'
  <2>1. "nil" \in Errors
    BY DEF Errors
  <2>2. commits' \in [Calls -> Nat]
    <3>1. commits[k] + 1 \in Nat
      BY DEF TypeOK
    <3> QED BY <1>11, <3>1 DEF Commit, TypeOK
  <2> QED BY <1>11, <1>r, <1>o, <2>1, <2>2 DEF Commit, TypeOK
<1>12. ASSUME NEW k \in Calls, CommitBadConn(k) PROVE TypeOK'
  BY <1>12, <1>r, <1>o DEF CommitBadConn, CommitErr, TypeOK, Errors
<1>13. ASSUME NEW k \in Calls, CommitFails(k) PROVE TypeOK'
  <2>1. "commit" \in Errors
    BY DEF Errors
  <2>2. commits' \in [Calls -> Nat]
    <3>1. commits[k] + 1 \in Nat
      BY DEF TypeOK
    <3> QED BY <1>13, <3>1 DEF CommitFails, TypeOK
  <2> QED BY <1>13, <1>r, <1>o, <2>1, <2>2 DEF CommitFails, CommitErr, TypeOK
<1>14. ASSUME NEW k \in Calls, Cancel(k) PROVE TypeOK'
  BY <1>14 DEF Cancel, TypeOK
<1>15. ASSUME NEW k \in Calls, NEW i \in Tries, AwaitDone(k, i) PROVE TypeOK'
  BY <1>15 DEF AwaitDone, TypeOK
<1>16. CASE UNCHANGED vars
  BY <1>16 DEF vars, TypeOK
<1> QED
  BY <1>1, <1>2, <1>3, <1>4, <1>5, <1>6, <1>7, <1>8, <1>9, <1>10, <1>11, <1>12, <1>13, <1>14, <1>15, <1>16
     DEF Next, Step, Done

(* A call whose transaction returns with e, after which the server has     *)
(* committed n times what f did, keeps the outcome invariant when n fits e.*)
LEMMA ReturnKeepsOutcome ==
  ASSUME TypeOK, OutcomeInv, NEW k \in Calls, NEW e \in Errors, NEW n \in Nat,
         TransactionReturns(k, e), commits' = [commits EXCEPT ![k] = n],
         e = "nil" => n = 1, e = "commit" => n \in {0, 1}, e \notin {"nil", "commit"} => n = 0
  PROVE  OutcomeInv'
<1> SUFFICES ASSUME NEW j \in Calls PROVE Outcome(j)'
  BY DEF OutcomeInv
<1>1. CASE j # k
  BY <1>1 DEF OutcomeInv, Outcome, TransactionReturns, TypeOK
<1>2. CASE j = k
  BY <1>2 DEF Outcome, TransactionReturns, TypeOK, badConn
<1> QED BY <1>1, <1>2

(* A step that commits nothing and ends no call keeps it too.              *)
LEMMA QuietKeepsOutcome ==
  ASSUME TypeOK, OutcomeInv, NEW k \in Calls, pc[k] # "done", UNCHANGED commits,
         NEW p, p # "done", pc' = [pc EXCEPT ![k] = p],
         NEW e, err' = [err EXCEPT ![k] = e]
  PROVE  OutcomeInv'
BY DEF OutcomeInv, Outcome, TypeOK

(* Every step of WithTx, of a cancellation and of the background rollback  *)
(* keeps the outcome invariant.                                            *)
LEMMA OutcomeStep == TypeOK /\ OutcomeInv /\ [Next]_vars => OutcomeInv'
<1> SUFFICES ASSUME TypeOK, OutcomeInv, [Next]_vars PROVE OutcomeInv'
  OBVIOUS
<1>s. ASSUME NEW k \in Calls, UNCHANGED commits, NEW e \in Errors \ {"nil"}, TransactionReturns(k, e),
             pc[k] # "done"
      PROVE  OutcomeInv'
  <2>1. commits' = [commits EXCEPT ![k] = 0]
    BY <1>s DEF OutcomeInv, Outcome, TypeOK
  <2> QED BY <1>s, <2>1, ReturnKeepsOutcome
<1>q. ASSUME NEW k \in Calls, pc[k] # "done", UNCHANGED <<err, commits>>, NEW p, p # "done", pc' = [pc EXCEPT ![k] = p]
      PROVE  OutcomeInv'
  BY <1>q DEF OutcomeInv, Outcome, TypeOK
<1>1. ASSUME NEW k \in Calls, Begin(k) PROVE OutcomeInv'
  BY <1>1, <1>q DEF Begin
<1>2. ASSUME NEW k \in Calls, BeginFails(k) PROVE OutcomeInv'
  BY <1>2, <1>s DEF BeginFails, Errors
<1>3. ASSUME NEW k \in Calls, BeginCancelled(k) PROVE OutcomeInv'
  BY <1>3, <1>s DEF BeginCancelled, Errors
<1>4. ASSUME NEW k \in Calls, FReturns(k) PROVE OutcomeInv'
  BY <1>4, QuietKeepsOutcome DEF FReturns
<1>5. ASSUME NEW k \in Calls, Recovered(k) PROVE OutcomeInv'
  BY <1>5 DEF Recovered, OutcomeInv, Outcome, TypeOK
<1>6. ASSUME NEW k \in Calls, BadConnection(k) PROVE OutcomeInv'
  BY <1>6, <1>s DEF BadConnection, Errors
<1>7. ASSUME NEW k \in Calls, Failed(k) PROVE OutcomeInv'
  <2>1. err[k] \in Errors \ {"nil"}
    BY <1>7 DEF TypeOK, Failed
  <2> QED BY <1>7, <1>s, <2>1 DEF Failed
<1>8. ASSUME NEW k \in Calls, Suppressed(k) PROVE OutcomeInv'
  BY <1>8, <1>s DEF Suppressed, Errors
<1>9. ASSUME NEW k \in Calls, ToCommit(k) PROVE OutcomeInv'
  BY <1>9, <1>q DEF ToCommit
<1>10. ASSUME NEW k \in Calls, CommitTooLate(k) PROVE OutcomeInv'
  BY <1>10, <1>s DEF CommitTooLate, CommitErr, Errors
<1>11. ASSUME NEW k \in Calls, Commit(k) PROVE OutcomeInv'
  <2>1. commits' = [commits EXCEPT ![k] = 1]
    <3>1. commits[k] + 1 = 1
      BY <1>11 DEF Commit, OutcomeInv, Outcome
    <3> QED BY <1>11, <3>1 DEF Commit
  <2> QED BY <1>11, <2>1, ReturnKeepsOutcome DEF Commit, Errors
<1>12. ASSUME NEW k \in Calls, CommitBadConn(k) PROVE OutcomeInv'
  BY <1>12, <1>s DEF CommitBadConn, CommitErr, Errors
<1>13. ASSUME NEW k \in Calls, CommitFails(k) PROVE OutcomeInv'
  <2>1. PICK n \in {0, 1} : commits' = [commits EXCEPT ![k] = n]
    <3>1. commits[k] = 0
      BY <1>13 DEF CommitFails, OutcomeInv, Outcome
    <3>2. commits = [commits EXCEPT ![k] = 0]
      BY <3>1 DEF TypeOK
    <3>3. commits[k] + 1 = 1
      BY <3>1
    <3> QED BY <1>13, <3>2, <3>3 DEF CommitFails
  <2>2. TransactionReturns(k, "commit")
    BY <1>13 DEF CommitFails, CommitErr
  <2> QED BY <2>1, <2>2, ReturnKeepsOutcome DEF Errors
<1>14. ASSUME NEW k \in Calls, Cancel(k) PROVE OutcomeInv'
  BY <1>14 DEF Cancel, OutcomeInv, Outcome
<1>15. ASSUME NEW k \in Calls, NEW i \in Tries, AwaitDone(k, i) PROVE OutcomeInv'
  BY <1>15 DEF AwaitDone, OutcomeInv, Outcome
<1>16. CASE UNCHANGED vars
  BY <1>16 DEF vars, OutcomeInv, Outcome
<1> QED
  BY <1>1, <1>2, <1>3, <1>4, <1>5, <1>6, <1>7, <1>8, <1>9, <1>10, <1>11, <1>12, <1>13, <1>14, <1>15, <1>16
     DEF Next, Step, Done

(* The types and the outcome invariant hold of every reachable state.      *)
THEOREM Invariance == Spec => [](TypeOK /\ OutcomeInv)
<1>1. Init => TypeOK /\ OutcomeInv
  <2> SUFFICES ASSUME Init PROVE TypeOK /\ OutcomeInv
    OBVIOUS
  <2>1. 1 \in Tries
    BY TxAssumption DEF Tries
  <2>2. TypeOK
    BY <2>1 DEF Init, TypeOK, Errors
  <2>3. OutcomeInv
    BY DEF Init, OutcomeInv, Outcome
  <2> QED BY <2>2, <2>3
<1> QED BY <1>1, TypeStep, OutcomeStep, PTL DEF Spec

(* Type correctness of WithTx: the tries never exceed MaxTries.            *)
THEOREM TypeCorrect == Spec => []TypeOK
BY Invariance, PTL

(* However often WithTx tries, it commits the effects of f at most once.   *)
THEOREM AtMostOnce == Spec => []CommittedAtMostOnce
<1>1. TypeOK /\ OutcomeInv => CommittedAtMostOnce
  BY DEF TypeOK, OutcomeInv, Outcome, CommittedAtMostOnce
<1> QED BY <1>1, Invariance, PTL

(* The result of WithTx tells whether the effects of f are committed.      *)
THEOREM OutcomeTold == Spec => []ResultTellsOutcome
<1>1. TypeOK /\ OutcomeInv => ResultTellsOutcome
  BY DEF OutcomeInv, Outcome, ResultTellsOutcome
<1> QED BY <1>1, Invariance, PTL
=============================================================================
