---------------------------- MODULE ExecStmtProofs ----------------------------
(***************************************************************************)
(* Theorems about Batch and ExecStmt, for texts of any length and chunks of *)
(* any size: first a text that goes out as one request, then the chunks.    *)
(***************************************************************************)
EXTENDS ExecStmt, FiniteSetTheorems, WellFoundedInduction, TLAPS

Result == {"ok", "error", "none"}

(* Where the call stands and how many steps have a result.                  *)
Progress ==
  /\ text \in Seq(Statement) /\ results \in Seq(Result)
  /\ schemaDb \in BOOLEAN /\ inTx \in BOOLEAN /\ tx \in BOOLEAN
  /\ Len(results) <= StepCount
  /\ phase = "request" => results = <<>> /\ outcome = "none"
  /\ phase = "batch" => WellFormed /\ outcome = "none"
  /\ phase \in {"read", "rows", "over"} /\ WellFormed => Len(results) = StepCount
  /\ phase \in {"read", "rows"} => WellFormed /\ outcome # "error"
  /\ outcome = "error" /\ WellFormed => SomeStepFailed

(* The steps: in order, and the ROLLBACK after a failure only.              *)
StepsInOrder ==
  /\ NothingRunsAfterAFailure
  /\ ~tx => pending = {}
  /\ Transactional /\ WellFormed /\ Len(results) = Len(text) + 1
       => \/ ~tx
          \/ results[Len(text)] = "ok" /\ results[Len(text) + 1] = "none"

(* The rows of a text within one transaction, while its statements succeed, *)
(* after one has failed, and after the last.                                *)
InTransaction ==
  Enclosed =>
    LET k == Len(results)
        n == Len(text)
    IN  /\ k = 0 => tx = inTx /\ pending = {} /\ durable = {}
        /\ k \in 1..(n - 1) /\ results[k] = "ok"
             => tx /\ pending = Writes \cap 1..k /\ durable = {}
        /\ k \in 1..n /\ results[k] # "ok" => durable = {}
        /\ k = n + 1 /\ results[n] # "ok" => durable = {}
        /\ EnclosedTextIsAtomic

BatchInv == Progress /\ StepsInOrder /\ InTransaction

(* A transactional batch that the server accepts has a statement.           *)
LEMMA TransactionalText ==
  ASSUME text \in Seq(Statement), Transactional, WellFormed
  PROVE  Len(text) > 1 /\ StepCount = Len(text) + 1
<1>1. Len(text) \in Nat /\ StepCount = Len(text) + 1
  BY DEF StepCount
<1>2. Step(StepCount).cond = RollbackCondition
  BY <1>1 DEF Step
<1>3. RollbackCondition # Always
  BY DEF RollbackCondition, Always
<1>4. StepCount \in 1..StepCount
  BY <1>1
<1>5. RollbackCondition.step \in 1..(StepCount - 1)
  BY <1>2, <1>3, <1>4 DEF WellFormed
<1>6. Len(text) \in 1..(StepCount - 1)
  BY <1>5 DEF RollbackCondition
<1>7. Len(text) # 1
  BY DEF Transactional, Single
<1>8. ASSUME NEW n \in Nat, n \in 1..((n + 1) - 1), n # 1
      PROVE  n > 1
  BY <1>8
<1>9. Len(text) > 1
  <2>1. Len(text) \in 1..((Len(text) + 1) - 1)
    BY <1>1, <1>6
  <2>. QED
    BY <2>1, <1>1, <1>7, <1>8
<1>. QED
  BY <1>1, <1>9

(* A text is a sequence of statements, of whatever length MaxStmts allows. *)
LEMMA TextsAreSequences == \A t \in Texts : t \in Seq(Statement)
  BY DEF Texts, BoundedSeq, SeqOf

(* The invariant holds when ExecContext or QueryContext is called.         *)
LEMMA BatchInit == Init => BatchInv
<1>. SUFFICES ASSUME Init PROVE BatchInv
  OBVIOUS
<1>1. text \in Seq(Statement) /\ Len(text) \in Nat
  BY TextsAreSequences DEF Init
<1>2. Progress
  BY <1>1 DEF Init, Progress, StepCount, Result, SomeStepFailed
<1>3. StepsInOrder
  BY <1>1 DEF Init, StepsInOrder, NothingRunsAfterAFailure
<1>4. InTransaction
  BY <1>1 DEF Init, InTransaction, EnclosedTextIsAtomic
<1>. QED
  BY <1>2, <1>3, <1>4 DEF BatchInv

-----------------------------------------------------------------------------
(* A step of the batch, whatever comes of it: the condition under which it  *)
(* ran or was skipped, and the result it left.                              *)
LEMMA StepAppends ==
  ASSUME BatchInv, StepSucceeds \/ StepFails \/ StepIsSkipped
  PROVE  /\ phase = "batch" /\ At \in 1..StepCount /\ At = Len(results) + 1
         /\ \E r \in Result : /\ results' = Append(results, r)
                              /\ (r = "none") <=> ~Holds(ThisStep.cond)
         /\ UNCHANGED <<call, phase, client>>
  BY DEF BatchInv, Progress, StepSucceeds, StepFails, StepIsSkipped, Runs, At,
         Result, StepCount

(* In a transactional batch a statement runs if those before it succeeded,  *)
(* and the ROLLBACK if the last statement did not.                          *)
LEMMA ConditionsOfABatch ==
  ASSUME BatchInv, Transactional, phase = "batch", At \in 1..StepCount
  PROVE  /\ At <= Len(text) /\ At > 1
              => (Holds(ThisStep.cond) <=> results[At - 1] = "ok")
         /\ At = Len(text) + 1
              => /\ Is("rollback")
                 /\ Holds(ThisStep.cond) <=> results[Len(text)] # "ok"
<1>1. Len(text) > 1 /\ StepCount = Len(text) + 1 /\ Len(text) \in Nat
  BY TransactionalText DEF BatchInv, Progress
<1>2. At \in Nat
  BY DEF At, BatchInv, Progress
<1>3. ASSUME At <= Len(text), At > 1
      PROVE  ThisStep.cond = [type |-> "ok", step |-> At - 1]
  BY <1>2, <1>3 DEF ThisStep, Step, Condition
<1>4. ASSUME At = Len(text) + 1
      PROVE  /\ ThisStep.cond = [type |-> "not", step |-> Len(text)]
             /\ Is("rollback")
  <2>1. ~(At <= Len(text))
    BY <1>1, <1>4
  <2>. QED
    BY <2>1 DEF ThisStep, Step, RollbackCondition, Is
<1>5. ASSUME At <= Len(text), At > 1
      PROVE  Holds(ThisStep.cond) <=> results[At - 1] = "ok"
  <2>1. ThisStep.cond.type = "ok" /\ ThisStep.cond.step = At - 1
    BY <1>3, <1>5
  <2>. QED
    BY <2>1 DEF Holds
<1>6. ASSUME At = Len(text) + 1
      PROVE  Holds(ThisStep.cond) <=> results[Len(text)] # "ok"
  <2>1. ThisStep.cond.type = "not" /\ ThisStep.cond.step = Len(text)
    BY <1>4, <1>6
  <2>. QED
    BY <2>1 DEF Holds
<1>. QED
  BY <1>4, <1>5, <1>6

(* A step of the server adds one result, and never more than there are     *)
(* steps.                                                                  *)
LEMMA StepKeepsProgress ==
  ASSUME BatchInv, StepSucceeds \/ StepFails \/ StepIsSkipped
  PROVE  Progress'
<1>1. PICK r \in Result : results' = Append(results, r)
  BY StepAppends
<1>2. /\ phase = "batch" /\ Len(results) + 1 <= StepCount
      /\ UNCHANGED <<call, phase, client>>
  BY StepAppends
<1>3. results \in Seq(Result) /\ Len(results) \in Nat
  BY DEF BatchInv, Progress
<1>4. results' \in Seq(Result) /\ Len(results') = Len(results) + 1
  BY <1>1, <1>3
<1>5. tx' \in BOOLEAN
  BY DEF BatchInv, Progress, StepSucceeds, StepFails, StepIsSkipped,
         Write, Begin, Commit, Rollback
<1>6. StepCount' = StepCount /\ (WellFormed' <=> WellFormed)
  BY <1>2 DEF call, StepCount, Transactional, Single, WellFormed, Step,
              Condition, RollbackCondition
<1>. QED
  BY <1>2, <1>4, <1>5, <1>6 DEF BatchInv, Progress, call, client

(* A step leaves the results of a transactional batch a run of successes,  *)
(* at most one failure, and skipped steps after it.                        *)
LEMMA StepKeepsOrder ==
  ASSUME BatchInv, StepSucceeds \/ StepFails \/ StepIsSkipped
  PROVE  StepsInOrder'
<1>1. PICK r \in Result : /\ results' = Append(results, r)
                          /\ (r = "none") <=> ~Holds(ThisStep.cond)
  BY StepAppends
<1>2. /\ phase = "batch" /\ At \in 1..StepCount /\ At = Len(results) + 1
      /\ UNCHANGED call
  BY StepAppends
<1>3. /\ results \in Seq(Result) /\ Len(results) \in Nat
      /\ text \in Seq(Statement) /\ Len(text) \in Nat /\ tx \in BOOLEAN
  BY DEF BatchInv, Progress
<1>4. /\ results' \in Seq(Result) /\ Len(results') = At
      /\ \A i \in 1..Len(results) : results'[i] = results[i]
      /\ results'[At] = r
      /\ DOMAIN results = 1..Len(results) /\ DOMAIN results' = 1..At
  BY <1>1, <1>2, <1>3
<1>5. Transactional' = Transactional /\ text' = text
  BY <1>2 DEF call, Transactional, Single
<1>a. ASSUME Transactional, NEW i \in 1..Len(results), NEW j \in 1..Len(results),
             i < j, j <= Len(text), results[i] # "ok"
      PROVE  results[j] = "none"
  BY <1>4, <1>a DEF BatchInv, StepsInOrder, NothingRunsAfterAFailure
<1>6. ASSUME Transactional, NEW i \in 1..At, NEW j \in 1..At, i < j,
             j <= Len(text), results'[i] # "ok"
      PROVE  results'[j] = "none"
  <2>1. CASE j < At
    <3>1. i \in 1..Len(results) /\ j \in 1..Len(results)
      BY <2>1, <1>2, <1>3, <1>6
    <3>. QED
      BY <3>1, <1>a, <1>4, <1>6
  <2>2. CASE j = At
    <3>1. At > 1 /\ At <= Len(text) /\ At - 1 \in 1..Len(results)
      BY <2>2, <1>2, <1>3, <1>6
    <3>2. results[At - 1] # "ok"
      <4>1. CASE i = At - 1
        BY <4>1, <3>1, <1>4, <1>6
      <4>2. CASE i < At - 1
        <5>1. results[i] # "ok" /\ i \in 1..Len(results)
          BY <4>2, <3>1, <1>2, <1>3, <1>4, <1>6
        <5>2. results[At - 1] = "none"
          BY <5>1, <4>2, <3>1, <1>a, <1>2, <1>3, <1>6
        <5>. QED
          BY <5>2
      <4>. QED
        BY <4>1, <4>2, <2>2, <1>2, <1>3, <1>6
    <3>3. ~Holds(ThisStep.cond)
      BY <3>1, <3>2, <1>2, <1>6, ConditionsOfABatch
    <3>. QED
      BY <3>3, <2>2, <1>1, <1>4
  <2>. QED
    BY <2>1, <2>2, <1>2, <1>3
<1>7. NothingRunsAfterAFailure'
  BY <1>4, <1>5, <1>6 DEF NothingRunsAfterAFailure
<1>8. ~tx' => pending' = {}
  BY DEF BatchInv, StepsInOrder, StepSucceeds, StepFails, StepIsSkipped,
         Write, Begin, Commit, Rollback
<1>9. ASSUME Transactional, At = Len(text) + 1
      PROVE  \/ ~tx'
             \/ results'[Len(text)] = "ok" /\ results'[Len(text) + 1] = "none"
  <2>1. /\ Is("rollback")
        /\ Holds(ThisStep.cond) <=> results[Len(text)] # "ok"
    BY <1>2, <1>9, ConditionsOfABatch
  <2>2. Len(text) \in 1..Len(results)
    BY <1>2, <1>3, <1>9, TransactionalText DEF BatchInv, Progress
  <2>3. CASE ~Holds(ThisStep.cond)
    BY <2>1, <2>2, <2>3, <1>1, <1>4, <1>9
  <2>4. CASE Holds(ThisStep.cond)
    <3>1. StepSucceeds \/ StepFails
      BY <2>4 DEF StepIsSkipped
    <3>2. ~Is("write") /\ ~Is("begin") /\ ~Is("commit")
      BY <2>1 DEF Is
    <3>. QED
      BY <3>1, <3>2, <2>1, <1>3 DEF StepSucceeds, StepFails, Write, Begin,
           Commit, Rollback
  <2>. QED
    BY <2>3, <2>4
<1>. QED
  BY <1>4, <1>5, <1>7, <1>8, <1>9 DEF StepsInOrder

(* A step keeps what is pending in the transaction of a text that runs     *)
(* inside one.                                                             *)
LEMMA StepKeepsTransaction ==
  ASSUME BatchInv, StepSucceeds \/ StepFails \/ StepIsSkipped
  PROVE  InTransaction'
<1>1. PICK r \in Result : /\ results' = Append(results, r)
                          /\ (r = "none") <=> ~Holds(ThisStep.cond)
  BY StepAppends
<1>2. /\ phase = "batch" /\ At \in 1..StepCount /\ At = Len(results) + 1
      /\ UNCHANGED call
  BY StepAppends
<1>3. /\ results \in Seq(Result) /\ Len(results) \in Nat
      /\ text \in Seq(Statement) /\ Len(text) \in Nat
      /\ tx \in BOOLEAN /\ inTx \in BOOLEAN
  BY DEF BatchInv, Progress
<1>4. /\ Len(results') = At
      /\ \A i \in 1..Len(results) : results'[i] = results[i]
      /\ results'[At] = r
  BY <1>1, <1>2, <1>3
<1>5. /\ text' = text /\ inTx' = inTx /\ (Enclosed' <=> Enclosed)
      /\ Writes' = Writes
  BY <1>2 DEF call, Enclosed, Transactional, Single, Writes
<1>. SUFFICES ASSUME Enclosed PROVE InTransaction'
  BY <1>5 DEF InTransaction
<1>6. /\ Transactional /\ Len(text) > 1 /\ StepCount = Len(text) + 1
      /\ text[1] = IF inTx THEN "write" ELSE "begin"
      /\ \A i \in 2..(Len(text) - 1) : text[i] = "write"
  BY <1>2, <1>3, TransactionalText DEF Enclosed, BatchInv, Progress
<1>7. /\ At = 1 => tx = inTx /\ pending = {} /\ durable = {}
      /\ At \in 2..Len(text) /\ results[At - 1] = "ok"
           => tx /\ pending = Writes \cap 1..(At - 1) /\ durable = {}
      /\ At \in 2..(Len(text) + 1) /\ results[At - 1] # "ok" => durable = {}
      /\ durable \in {{}, Writes}
  BY <1>2, <1>3 DEF BatchInv, InTransaction, EnclosedTextIsAtomic
<1>8. At <= Len(text) => ThisStep.stmt = text[At]
  BY DEF ThisStep, Step
<1>9. CASE StepSucceeds /\ At = 1
  <2>1. text[1] \in {"write", "begin"} /\ ThisStep.stmt = text[1]
    BY <1>6, <1>8, <1>9
  <2>2. tx' /\ pending' = Writes \cap 1..1 /\ durable' = {}
    BY <2>1, <1>3, <1>6, <1>7, <1>9
       DEF StepSucceeds, Write, Begin, Commit, Rollback, Is, Writes
  <2>. QED
    BY <2>2, <1>3, <1>4, <1>5, <1>6, <1>9 DEF InTransaction, EnclosedTextIsAtomic
<1>10. CASE StepSucceeds /\ At \in 2..(Len(text) - 1)
  <2>1. ThisStep.stmt = "write" /\ results[At - 1] = "ok"
    BY <1>2, <1>3, <1>6, <1>8, <1>10, ConditionsOfABatch DEF StepSucceeds, Runs
  <2>2. tx' /\ pending' = pending \cup {At} /\ durable' = {}
    BY <2>1, <1>3, <1>7, <1>10 DEF StepSucceeds, Write, Begin, Commit, Rollback, Is
  <2>3. At \in Writes
    BY <2>1, <1>3, <1>8, <1>10 DEF Writes
  <2>4. pending' = Writes \cap 1..At
    BY <2>1, <2>2, <2>3, <1>3, <1>7, <1>10
  <2>5. r = "ok"
    BY <1>1, <1>3, <1>4, <1>10 DEF StepSucceeds
  <2>6. Len(results') \in 2..(Len(text) - 1) /\ results'[Len(results')] = "ok"
    BY <2>5, <1>3, <1>4, <1>10
  <2>7. pending' = Writes' \cap 1..Len(results')
    BY <2>4, <1>4, <1>5
  <2>8. Len(results') # 0 /\ Len(results') # Len(text') + 1
    BY <2>6, <1>3, <1>5
  <2>. QED
    BY <2>2, <2>6, <2>7, <2>8 DEF InTransaction, EnclosedTextIsAtomic
<1>11. CASE StepSucceeds /\ At = Len(text)
  <2>1. tx /\ pending = Writes \cap 1..(Len(text) - 1) /\ durable = {}
    <3>1. results[At - 1] = "ok"
      BY <1>2, <1>3, <1>6, <1>11, ConditionsOfABatch DEF StepSucceeds, Runs
    <3>. QED
      BY <3>1, <1>3, <1>6, <1>7, <1>11
  <2>2. ASSUME Commit PROVE durable' = Writes
    <3>1. text[Len(text)] # "write"
      BY <2>2, <1>8, <1>11, <1>3 DEF Commit, Is
    <3>2. pending = Writes
      BY <2>1, <3>1, <1>3 DEF Writes
    <3>. QED
      BY <2>1, <2>2, <3>2 DEF Commit
  <2>3. durable' \in {{}, Writes}
    BY <2>1, <2>2, <1>3, <1>11 DEF StepSucceeds, Write, Begin, Rollback
  <2>4. results'[At] = "ok"
    BY <1>1, <1>3, <1>4, <1>11 DEF StepSucceeds
  <2>. QED
    BY <2>3, <2>4, <1>3, <1>4, <1>5, <1>6, <1>11 DEF InTransaction, EnclosedTextIsAtomic
<1>12. CASE (StepFails \/ StepIsSkipped) /\ At <= Len(text)
  <2>1. durable' = durable /\ r # "ok"
    BY <1>1, <1>3, <1>4, <1>12 DEF StepFails, StepIsSkipped, Result
  <2>2. durable = {}
    BY <1>2, <1>3, <1>6, <1>7, <1>12
  <2>. QED
    BY <2>1, <2>2, <1>2, <1>3, <1>4, <1>5, <1>6, <1>12 DEF InTransaction, EnclosedTextIsAtomic
<1>13. CASE At = Len(text) + 1
  <2>1. Is("rollback")
    BY <1>2, <1>6, <1>13, ConditionsOfABatch
  <2>2. durable' = durable
    BY <2>1 DEF StepSucceeds, StepFails, StepIsSkipped, Write, Begin, Commit,
                Rollback, Is
  <2>3. results[Len(text)] # "ok" => durable = {}
    BY <1>3, <1>6, <1>7, <1>13
  <2>4. results'[Len(text)] = results[Len(text)]
    BY <1>2, <1>3, <1>4, <1>6, <1>13
  <2>. QED
    BY <2>2, <2>3, <2>4, <1>3, <1>4, <1>5, <1>6, <1>7, <1>13
       DEF InTransaction, EnclosedTextIsAtomic
<1>. QED
  BY <1>2, <1>3, <1>6, <1>9, <1>10, <1>11, <1>12, <1>13

-----------------------------------------------------------------------------
(* The other actions leave the stream and the results alone.                *)
LEMMA ClientKeepsBatch ==
  ASSUME BatchInv, UNCHANGED <<call, server>>, Progress'
  PROVE  BatchInv'
<1>. UNCHANGED <<text, schemaDb, inTx, results, tx, pending, durable>>
  BY DEF call, server
<1>1. StepsInOrder'
  BY DEF BatchInv, StepsInOrder, NothingRunsAfterAFailure, Transactional, Single,
         WellFormed, StepCount, Step, Condition, RollbackCondition
<1>2. InTransaction'
  BY DEF BatchInv, InTransaction, Enclosed, EnclosedTextIsAtomic, Transactional,
         Single, Writes
<1>. QED
  BY <1>1, <1>2 DEF BatchInv

(* Every action of the client and of the server preserves the invariant.   *)
LEMMA BatchNext == BatchInv /\ [Next]_vars => BatchInv'
<1>. SUFFICES ASSUME BatchInv, [Next]_vars PROVE BatchInv'
  OBVIOUS
<1>1. CASE StepSucceeds \/ StepFails \/ StepIsSkipped
  BY <1>1, StepKeepsProgress, StepKeepsOrder, StepKeepsTransaction DEF BatchInv
<1>2. ASSUME UNCHANGED <<call, server>>
      PROVE  /\ UNCHANGED <<text, schemaDb, inTx, results, tx>>
             /\ StepCount' = StepCount /\ (WellFormed' <=> WellFormed)
             /\ (SomeStepFailed' <=> SomeStepFailed)
  BY <1>2 DEF call, server, StepCount, Transactional, Single, WellFormed, Step,
              Condition, RollbackCondition, SomeStepFailed
<1>3. CASE ServerRejects
  <2>1. Progress'
    BY <1>2, <1>3 DEF BatchInv, Progress, ServerRejects, Fails
  <2>. QED
    BY <2>1, <1>3, ClientKeepsBatch DEF ServerRejects
<1>4. CASE ServerStarts
  <2>1. Progress'
    BY <1>2, <1>4 DEF BatchInv, Progress, ServerStarts, client
  <2>. QED
    BY <2>1, <1>4, ClientKeepsBatch DEF ServerStarts
<1>5. CASE ServerAnswers
  <2>1. Len(results) \in Nat /\ StepCount \in Nat
    BY DEF BatchInv, Progress, StepCount
  <2>2. Len(results) = StepCount
    BY <2>1, <1>5 DEF ServerAnswers, At, BatchInv, Progress
  <2>3. Progress'
    BY <2>2, <1>2, <1>5 DEF BatchInv, Progress, ServerAnswers, client
  <2>. QED
    BY <2>3, <1>5, ClientKeepsBatch DEF ServerAnswers
<1>6. CASE ReadsError
  <2>1. Progress'
    BY <1>2, <1>6 DEF BatchInv, Progress, ReadsError, Fails
  <2>. QED
    BY <2>1, <1>6, ClientKeepsBatch DEF ReadsError
<1>7. CASE ReturnsResult
  <2>1. Progress'
    BY <1>2, <1>7 DEF BatchInv, Progress, ReturnsResult
  <2>. QED
    BY <2>1, <1>7, ClientKeepsBatch DEF ReturnsResult
<1>8. CASE ReturnsRows
  <2>1. Progress'
    BY <1>2, <1>8 DEF BatchInv, Progress, ReturnsRows
  <2>. QED
    BY <2>1, <1>8, ClientKeepsBatch DEF ReturnsRows
<1>9. CASE NextResultSet
  <2>1. Progress'
    BY <1>2, <1>9 DEF BatchInv, Progress, NextResultSet
  <2>. QED
    BY <2>1, <1>9, ClientKeepsBatch DEF NextResultSet
<1>10. CASE RowsClose
  <2>1. Progress'
    BY <1>2, <1>10 DEF BatchInv, Progress, RowsClose, client
  <2>. QED
    BY <2>1, <1>10, ClientKeepsBatch DEF RowsClose
<1>11. CASE UNCHANGED vars
  <2>1. UNCHANGED <<call, server>> /\ UNCHANGED <<phase, outcome>>
    BY <1>11 DEF vars, client
  <2>2. Progress'
    BY <2>1, <1>2 DEF BatchInv, Progress
  <2>. QED
    BY <2>1, <2>2, ClientKeepsBatch
<1>. QED
  BY <1>1, <1>3, <1>4, <1>5, <1>6, <1>7, <1>8, <1>9, <1>10, <1>11 DEF Next, Over

-----------------------------------------------------------------------------
(* The invariant of the three theorems below. *)
THEOREM BatchInvariance == Spec => []BatchInv
  BY BatchInit, BatchNext, PTL DEF Spec

(* Nothing of a transactional text runs after a statement that failed.      *)
THEOREM StopsAtFailure == Spec => []NothingRunsAfterAFailure
  BY BatchInvariance, PTL DEF BatchInv, StepsInOrder

(* A transactional text that failed leaves no transaction open.             *)
THEOREM NothingLeftOpen == Spec => []FailureLeavesNoTransaction
<1>1. BatchInv => FailureLeavesNoTransaction
  <2>. SUFFICES ASSUME BatchInv, phase = "over", outcome = "error",
                       Transactional, WellFormed
                PROVE  ~tx /\ pending = {}
    BY DEF FailureLeavesNoTransaction
  <2>1. /\ Len(text) > 1 /\ Len(text) \in Nat /\ Len(results) = Len(text) + 1
        /\ results \in Seq(Result) /\ SomeStepFailed
    BY TransactionalText DEF BatchInv, Progress
  <2>2. ASSUME results[Len(text)] = "ok", results[Len(text) + 1] = "none"
        PROVE  FALSE
    <3>1. PICK i \in 1..(Len(text) + 1) : results[i] = "error"
      BY <2>1 DEF SomeStepFailed
    <3>2. i < Len(text)
      BY <2>1, <2>2, <3>1
    <3>. QED
      BY <2>1, <2>2, <3>1, <3>2 DEF BatchInv, StepsInOrder, NothingRunsAfterAFailure
  <2>. QED
    BY <2>1, <2>2 DEF BatchInv, StepsInOrder
<1>. QED
  BY <1>1, BatchInvariance, PTL

(* A text within one transaction takes effect as a whole or not at all.     *)
THEOREM Atomicity == Spec => []EnclosedTextIsAtomic
<1>1. BatchInv => EnclosedTextIsAtomic
  BY DEF BatchInv, InTransaction, EnclosedTextIsAtomic
<1>. QED
  BY <1>1, BatchInvariance, PTL

-----------------------------------------------------------------------------
(* What the driver makes of the results.  A statement was skipped because   *)
(* one before it failed; as long as none has, no row is lost.               *)
NoRollback == \A i \in DOMAIN text : text[i] # "rollback"
Succeeding == \A i \in DOMAIN results : i <= Len(text) => results[i] = "ok"

ResultsInv ==
  /\ \A i \in DOMAIN results :
       i <= Len(text) /\ results[i] = "none"
         => \E j \in DOMAIN results : j < i /\ results[j] = "error"
  /\ NoRollback /\ Succeeding
       => durable \cup pending = Writes \cap (1..Len(results))

(* What has been read when the call is over, and where its rows stand.      *)
DriverInv ==
  /\ query \in BOOLEAN /\ set \in Nat
  /\ outcome \in {"none", "ok", "error"}
  /\ phase = "rows" => outcome = "ok" /\ query
  /\ outcome = "ok" =>
       phase \in {"rows", "over"} /\ WellFormed /\ ~SomeStepFailed
  /\ outcome = "none" => set = 0
  /\ outcome = "ok" /\ query =>
       /\ IF text = <<>> THEN set = 0 ELSE set < Len(text)
       /\ phase = "over" /\ text # <<>> => set + 1 = Len(text)
  /\ outcome = "ok" /\ ~query =>
       affected = Cardinality(Writes) /\ \A i \in Writes : i <= lastRowId

(* A step of the server keeps account of the rows.                          *)
LEMMA StepKeepsResults ==
  ASSUME BatchInv, ResultsInv, StepSucceeds \/ StepFails \/ StepIsSkipped
  PROVE  ResultsInv'
<1>1. PICK r \in Result : /\ results' = Append(results, r)
                          /\ (r = "none") <=> ~Holds(ThisStep.cond)
  BY StepAppends
<1>2. /\ phase = "batch" /\ At \in 1..StepCount /\ At = Len(results) + 1
      /\ UNCHANGED call
  BY StepAppends
<1>3. /\ results \in Seq(Result) /\ Len(results) \in Nat
      /\ text \in Seq(Statement) /\ Len(text) \in Nat /\ WellFormed
  BY <1>2 DEF BatchInv, Progress
<1>4. /\ results' \in Seq(Result) /\ Len(results') = At
      /\ \A i \in 1..Len(results) : results'[i] = results[i]
      /\ results'[At] = r
      /\ DOMAIN results = 1..Len(results) /\ DOMAIN results' = 1..At
      /\ At \in Nat
  BY <1>1, <1>2, <1>3
<1>5. text' = text /\ Writes' = Writes
  BY <1>2 DEF call, Writes
<1>6. At <= Len(text) \/ (Transactional /\ At = Len(text) + 1)
  BY <1>2, <1>3 DEF StepCount
<1>7. ASSUME At <= Len(text), ~Holds(ThisStep.cond)
      PROVE  At > 1 /\ results[At - 1] # "ok"
  <2>1. Transactional /\ At > 1
    BY <1>2, <1>3, <1>7 DEF ThisStep, Step, Condition, Holds, Always
  <2>. QED
    BY <2>1, <1>2, <1>7, ConditionsOfABatch
<1>8. ASSUME NEW i \in 1..At, i <= Len(text), results'[i] = "none"
      PROVE  \E j \in 1..At : j < i /\ results'[j] = "error"
  <2>1. CASE i < At
    <3>1. i \in 1..Len(results) /\ results[i] = "none"
      BY <2>1, <1>2, <1>3, <1>4, <1>8
    <3>2. PICK j \in 1..Len(results) : j < i /\ results[j] = "error"
      BY <3>1, <1>4, <1>8 DEF ResultsInv
    <3>. QED BY <3>2, <1>2, <1>3, <1>4
  <2>2. CASE i = At
    <3>1. At > 1 /\ results[At - 1] # "ok"
      BY <2>2, <1>1, <1>4, <1>7, <1>8
    <3>2. At - 1 \in 1..Len(results) /\ At - 1 <= Len(text)
      BY <3>1, <2>2, <1>2, <1>3, <1>8
    <3>3. results[At - 1] \in {"error", "none"}
      BY <3>1, <3>2, <1>3 DEF Result
    <3>4. CASE results[At - 1] = "error"
      BY <3>2, <3>4, <2>2, <1>2, <1>3, <1>4
    <3>5. CASE results[At - 1] = "none"
      <4>1. PICK j \in 1..Len(results) : j < At - 1 /\ results[j] = "error"
        BY <3>2, <3>5, <1>4 DEF ResultsInv
      <4>. QED BY <4>1, <2>2, <1>2, <1>3, <1>4
    <3>. QED BY <3>3, <3>4, <3>5
  <2>. QED BY <2>1, <2>2, <1>4
<1>9. ASSUME NoRollback, Succeeding'
      PROVE  (durable \cup pending)' = Writes \cap (1..At)
  <2>1. Succeeding
    BY <1>2, <1>3, <1>4, <1>5, <1>9 DEF Succeeding
  <2>2. durable \cup pending = Writes \cap (1..(At - 1))
    BY <2>1, <1>2, <1>3, <1>9 DEF ResultsInv
  <2>3. CASE At <= Len(text)
    <3>1. r = "ok" /\ StepSucceeds
      BY <2>3, <1>1, <1>2, <1>3, <1>4, <1>5, <1>9
      DEF Succeeding, StepSucceeds, StepFails, StepIsSkipped
    <3>2. ThisStep.stmt = text[At] /\ text[At] # "rollback"
      BY <2>3, <1>2, <1>3, <1>9 DEF ThisStep, Step, NoRollback
    <3>3. At \in Writes <=> text[At] = "write"
      BY <2>3, <1>2, <1>3 DEF Writes
    <3>4. CASE text[At] = "write"
      <4>1. (durable \cup pending)' = (durable \cup pending) \cup {At}
        BY <3>1, <3>2, <3>4 DEF StepSucceeds, Write, Begin, Commit, Rollback, Is
      <4>2. Writes \cap (1..At) = (Writes \cap (1..(At - 1))) \cup {At}
        BY <3>3, <3>4, <1>2, <1>4
      <4>. QED BY <4>1, <4>2, <2>2
    <3>5. CASE text[At] # "write"
      <4>1. (durable \cup pending)' = durable \cup pending
        BY <3>1, <3>2, <3>5 DEF StepSucceeds, Write, Begin, Commit, Rollback, Is
      <4>2. Writes \cap (1..At) = Writes \cap (1..(At - 1))
        BY <3>3, <3>5, <1>2, <1>4
      <4>. QED BY <4>1, <4>2, <2>2
    <3>. QED BY <3>4, <3>5
  <2>4. CASE Transactional /\ At = Len(text) + 1
    <3>1. Len(text) > 1
      BY <2>4, <1>3, TransactionalText
    <3>2. results[Len(text)] = "ok"
      BY <2>1, <2>4, <3>1, <1>2, <1>3, <1>4 DEF Succeeding
    <3>3. ~Holds(ThisStep.cond)
      BY <2>4, <3>2, <1>2, ConditionsOfABatch
    <3>4. StepIsSkipped
      BY <3>3 DEF StepSucceeds, StepFails, Runs
    <3>5. (durable \cup pending)' = durable \cup pending
      BY <3>4 DEF StepIsSkipped
    <3>6. Writes \cap (1..At) = Writes \cap (1..(At - 1))
      BY <2>4, <1>2, <1>3 DEF Writes
    <3>. QED BY <3>5, <3>6, <2>2
  <2>. QED BY <2>3, <2>4, <1>6
<1>10. NoRollback' = NoRollback
  BY <1>5 DEF NoRollback
<1>. QED BY <1>4, <1>5, <1>8, <1>9, <1>10 DEF ResultsInv

(* When no step of a batch has failed, every statement of it has succeeded, *)
(* and the driver takes as many results as there are statements.            *)
LEMMA SuccessfulBatch ==
  ASSUME BatchInv, ResultsInv, phase \in {"read", "rows", "over"}, WellFormed,
         ~SomeStepFailed
  PROVE  /\ \A i \in 1..Len(text) : i \in DOMAIN results /\ results[i] = "ok"
         /\ StmtResults = Len(text) /\ Len(text) \in Nat
         /\ Transactional => results # <<>>
<1>1. /\ text \in Seq(Statement) /\ Len(text) \in Nat
      /\ results \in Seq(Result) /\ Len(results) = StepCount
  BY DEF BatchInv, Progress
<1>2. StmtResults = Len(text) /\ \A i \in 1..Len(text) : i \in DOMAIN results
  BY <1>1 DEF StmtResults, StepCount
<1>3. ASSUME NEW i \in 1..Len(text) PROVE results[i] = "ok"
  <2>1. i \in DOMAIN results /\ i <= Len(text)
    BY <1>1, <1>2, <1>3
  <2>2. results[i] \in {"ok", "none"}
    BY <2>1, <1>1 DEF SomeStepFailed, Result
  <2>3. results[i] # "none"
    BY <2>1 DEF ResultsInv, SomeStepFailed
  <2>. QED BY <2>2, <2>3
<1>4. Transactional => results # <<>>
  BY <1>1 DEF StepCount
<1>. QED BY <1>1, <1>2, <1>3, <1>4

(* A set of statements that is not empty has a last one.                    *)
LEMMA LastExists ==
  ASSUME NEW n \in Nat, NEW S \in SUBSET (1..n), S # {}
  PROVE  \E i \in S : \A j \in S : j <= i
<1>. DEFINE After == {n - i : i \in S}
<1>1. After \subseteq Nat
  OBVIOUS
<1>2. After # {}
  OBVIOUS
<1>. DEFINE Below == OpToRel(<, Nat)
<1>3. PICK x \in After : \A y \in After : ~(<<y, x>> \in Below)
  <2>. HIDE DEF After, Below
  <2>1. IsWellFoundedOn(Below, Nat)
    BY NatLessThanWellFounded DEF Below
  <2>. QED BY <2>1, <1>1, <1>2, WFMin
<1>4. PICK i \in S : x = n - i
  BY <1>3
<1>5. ASSUME NEW j \in S PROVE j <= i
  <2>1. ~(<<n - j, n - i>> \in Below)
    BY <1>3, <1>4
  <2>2. ~(n - j < n - i)
    BY <2>1 DEF OpToRel
  <2>. QED BY <2>2
<1>. QED BY <1>5

(* A call that has only begun has read nothing.                             *)
LEMMA ReadsInit == Init => ResultsInv /\ DriverInv
<1>. SUFFICES ASSUME Init PROVE ResultsInv /\ DriverInv
  OBVIOUS
<1>1. ResultsInv
  BY DEF Init, ResultsInv
<1>2. DriverInv
  BY DEF Init, DriverInv
<1>. QED BY <1>1, <1>2

(* What ExecContext and QueryContext make of the answer.                    *)
LEMMA ReturnsResultKeepsDriver ==
  ASSUME BatchInv, ResultsInv, DriverInv, ReturnsResult
  PROVE  DriverInv'
<1>1. /\ \A i \in 1..Len(text) : i \in DOMAIN results /\ results[i] = "ok"
      /\ StmtResults = Len(text) /\ Len(text) \in Nat
  <2>1. phase = "read" /\ WellFormed /\ ~SomeStepFailed
    BY DEF ReturnsResult, BatchInv, Progress
  <2>. QED BY <2>1, SuccessfulBatch
<1>2. Inserts = Writes
  BY <1>1 DEF Inserts, Writes, Step
<1>3. ~Panics
  BY <1>1 DEF Panics, ReturnsResult
<1>4. \A i \in Writes : i <= lastRowId'
  <2>1. CASE Writes = {}
    BY <2>1
  <2>2. CASE Writes # {}
    <3>1. Writes \in SUBSET (1..Len(text))
      BY DEF Writes
    <3>2. \E i \in Writes : \A j \in Writes : j <= i
      BY <1>1, <2>2, <3>1, LastExists
    <3>3. lastRowId' = CHOOSE i \in Writes : \A j \in Writes : j <= i
      BY <1>2, <2>2 DEF ReturnsResult
    <3>. QED BY <3>2, <3>3
  <2>. QED BY <2>1, <2>2
<1>5. /\ UNCHANGED <<text, query, results, set>> /\ Writes' = Writes
      /\ outcome' = "ok" /\ phase' = "over" /\ ~query
      /\ affected' = Cardinality(Writes)
  BY <1>2, <1>3 DEF ReturnsResult, call, server, Writes
<1>6. WellFormed' /\ ~SomeStepFailed'
  BY DEF ReturnsResult, BatchInv, Progress, call, server, StepCount, Transactional,
         Single, WellFormed, Step, Condition, RollbackCondition, SomeStepFailed
<1>. QED BY <1>4, <1>5, <1>6 DEF DriverInv

(* QueryContext's rows.                                                     *)
LEMMA ReturnsRowsKeepsDriver ==
  ASSUME BatchInv, ResultsInv, DriverInv, ReturnsRows
  PROVE  DriverInv'
<1>1. /\ phase = "read" /\ WellFormed /\ ~SomeStepFailed /\ query
      /\ outcome # "error"
  BY DEF ReturnsRows, BatchInv, Progress
<1>2. Transactional => results # <<>>
  BY <1>1, SuccessfulBatch
<1>3. ~Panics
  BY <1>1, <1>2 DEF Panics
<1>4. outcome = "none" /\ set = 0
  BY <1>1 DEF DriverInv
<1>5. /\ UNCHANGED <<text, query, results, set>>
      /\ outcome' = "ok" /\ phase' = "rows"
  BY <1>3 DEF ReturnsRows, call, server
<1>6. WellFormed' /\ ~SomeStepFailed'
  BY <1>1 DEF ReturnsRows, call, server, StepCount, Transactional, Single,
              WellFormed, Step, Condition, RollbackCondition, SomeStepFailed
<1>7. text # <<>> => 0 < Len(text)
  BY DEF BatchInv, Progress
<1>. QED BY <1>1, <1>4, <1>5, <1>6, <1>7 DEF DriverInv

(* The application goes on to the next result set.                          *)
LEMMA NextResultSetKeepsDriver ==
  ASSUME BatchInv, ResultsInv, DriverInv, NextResultSet
  PROVE  DriverInv'
<1>1. /\ phase = "rows" /\ outcome = "ok" /\ query /\ set \in Nat
      /\ WellFormed /\ ~SomeStepFailed
  BY DEF NextResultSet, DriverInv
<1>2. /\ \A i \in 1..Len(text) : i \in DOMAIN results /\ results[i] = "ok"
      /\ StmtResults = Len(text) /\ Len(text) \in Nat
  BY <1>1, SuccessfulBatch
<1>3. set + 1 < Len(text) /\ set' = set + 1
  BY <1>2 DEF NextResultSet, HasNextResultSet
<1>4. results[set + 2] = "ok"
  BY <1>1, <1>2, <1>3
<1>5. UNCHANGED <<text, query, results, outcome, phase>>
  BY <1>4 DEF NextResultSet, call, server
<1>6. WellFormed' /\ ~SomeStepFailed'
  BY <1>1 DEF NextResultSet, call, server, StepCount, Transactional, Single,
              WellFormed, Step, Condition, RollbackCondition, SomeStepFailed
<1>7. text # <<>>
  BY <1>1, <1>3
<1>. QED BY <1>1, <1>3, <1>5, <1>6, <1>7 DEF DriverInv

(* The application closes the rows.                                         *)
LEMMA RowsCloseKeepsDriver ==
  ASSUME BatchInv, ResultsInv, DriverInv, RowsClose
  PROVE  DriverInv'
<1>1. /\ phase = "rows" /\ outcome = "ok" /\ query /\ set \in Nat
      /\ WellFormed /\ ~SomeStepFailed
  BY DEF RowsClose, DriverInv
<1>2. StmtResults = Len(text) /\ Len(text) \in Nat
  BY <1>1, SuccessfulBatch
<1>3. text # <<>> => set + 1 = Len(text)
  BY <1>1, <1>2 DEF RowsClose, HasNextResultSet, DriverInv
<1>4. UNCHANGED <<text, query, results, outcome, set>> /\ phase' = "over"
  BY DEF RowsClose, call, server, client
<1>5. WellFormed' /\ ~SomeStepFailed'
  BY <1>1 DEF RowsClose, call, server, StepCount, Transactional, Single,
              WellFormed, Step, Condition, RollbackCondition, SomeStepFailed
<1>. QED BY <1>1, <1>3, <1>4, <1>5 DEF DriverInv

(* Every action preserves what is known of the results and of the driver.   *)
LEMMA ReadsNext ==
  BatchInv /\ ResultsInv /\ DriverInv /\ [Next]_vars => (ResultsInv /\ DriverInv)'
<1>. SUFFICES ASSUME BatchInv, ResultsInv, DriverInv, [Next]_vars
              PROVE  ResultsInv' /\ DriverInv'
  OBVIOUS
<1>1. ASSUME UNCHANGED <<call, server>> PROVE ResultsInv'
  BY <1>1 DEF call, server, ResultsInv, NoRollback, Succeeding, Writes
<1>2. CASE StepSucceeds \/ StepFails \/ StepIsSkipped
  <2>1. phase = "batch" /\ UNCHANGED <<call, phase, client>>
    BY <1>2, StepAppends
  <2>2. outcome = "none" /\ UNCHANGED <<phase, outcome, query, set>>
    BY <2>1 DEF BatchInv, Progress, call, client
  <2>3. DriverInv'
    BY <2>1, <2>2 DEF DriverInv
  <2>. QED BY <2>3, <1>2, StepKeepsResults
<1>3. CASE ServerRejects \/ ReadsError
  <2>1. outcome' = "error" /\ phase' = "over" /\ UNCHANGED <<query, set>>
    BY <1>3 DEF ServerRejects, ReadsError, Fails, call
  <2>2. DriverInv'
    BY <2>1 DEF DriverInv
  <2>. QED BY <2>2, <1>1, <1>3 DEF ServerRejects, ReadsError
<1>4. CASE ServerStarts \/ ServerAnswers
  <2>1. outcome = "none" /\ phase' \in {"batch", "read"}
    BY <1>4 DEF ServerStarts, ServerAnswers, BatchInv, Progress
  <2>2. UNCHANGED <<query, outcome, set>>
    BY <1>4 DEF ServerStarts, ServerAnswers, call, client
  <2>3. DriverInv'
    BY <2>1, <2>2 DEF DriverInv
  <2>. QED BY <2>3, <1>1, <1>4 DEF ServerStarts, ServerAnswers
<1>5. CASE ReturnsResult
  BY <1>1, <1>5, ReturnsResultKeepsDriver DEF ReturnsResult
<1>6. CASE ReturnsRows
  BY <1>1, <1>6, ReturnsRowsKeepsDriver DEF ReturnsRows
<1>7. CASE NextResultSet
  BY <1>1, <1>7, NextResultSetKeepsDriver DEF NextResultSet
<1>8. CASE RowsClose
  BY <1>1, <1>8, RowsCloseKeepsDriver DEF RowsClose
<1>9. CASE UNCHANGED vars
  <2>1. UNCHANGED <<call, server, phase, outcome, affected, lastRowId, set>>
    BY <1>9 DEF vars, client
  <2>2. DriverInv'
    BY <2>1 DEF call, server, DriverInv, Writes, StepCount, Transactional, Single,
                WellFormed, Step, Condition, RollbackCondition, SomeStepFailed
  <2>. QED BY <2>1, <2>2, <1>1
<1>. QED
  BY <1>2, <1>3, <1>4, <1>5, <1>6, <1>7, <1>8, <1>9 DEF Next, Over

(* The invariant of the theorems below. *)
LEMMA ReadsInvariance == Spec => [](BatchInv /\ ResultsInv /\ DriverInv)
<1>1. Init => BatchInv /\ ResultsInv /\ DriverInv
  BY BatchInit, ReadsInit
<1>2. BatchInv /\ ResultsInv /\ DriverInv /\ [Next]_vars
        => (BatchInv /\ ResultsInv /\ DriverInv)'
  BY BatchNext, ReadsNext
<1>. QED BY <1>1, <1>2, PTL DEF Spec

(* Success is reported only of a text all of which was executed, and its    *)
(* rows are where the text left them.                                       *)
THEOREM SuccessIsNoLess == Spec => []SuccessIsComplete
<1>1. BatchInv /\ ResultsInv /\ DriverInv => SuccessIsComplete
  <2>. SUFFICES ASSUME BatchInv, ResultsInv, DriverInv, outcome = "ok"
                PROVE  /\ \A i \in DOMAIN text : results[i] = "ok"
                       /\ NoRollback => durable \cup pending = Writes
    BY DEF SuccessIsComplete, NoRollback
  <2>1. phase \in {"rows", "over"} /\ WellFormed /\ ~SomeStepFailed
    BY DEF DriverInv
  <2>2. /\ text \in Seq(Statement) /\ Len(text) \in Nat
        /\ \A i \in 1..Len(text) : i \in DOMAIN results /\ results[i] = "ok"
    BY <2>1, SuccessfulBatch DEF BatchInv, Progress
  <2>3. results \in Seq(Result) /\ Len(results) \in Nat /\ Len(results) >= Len(text)
    BY <2>1, <2>2 DEF BatchInv, Progress, StepCount
  <2>4. Succeeding /\ Writes \cap (1..Len(results)) = Writes
    BY <2>2, <2>3 DEF Succeeding, Writes
  <2>. QED BY <2>2, <2>4 DEF ResultsInv
<1>. QED BY <1>1, ReadsInvariance, PTL

(* What is read of a text that succeeded is the results of its statements.  *)
THEOREM OneResultEach == Spec => []ReadsEveryResult
<1>1. DriverInv => ReadsEveryResult
  BY DEF DriverInv, ReadsEveryResult
<1>. QED BY <1>1, ReadsInvariance, PTL
-----------------------------------------------------------------------------
(* The elements of a finite set of numbers, in order.                       *)
Rank(S, i) == Cardinality({j \in S : j <= i})

(* The rank of an element is a place in the order.                          *)
LEMMA RankType ==
  ASSUME NEW S \in SUBSET Nat, IsFiniteSet(S), NEW i \in S
  PROVE  Rank(S, i) \in 1..Cardinality(S)
<1>. DEFINE T == {j \in S : j <= i}
<1>1. IsFiniteSet(T) /\ Cardinality(T) <= Cardinality(S)
  BY FS_Subset
<1>2. i \in T
  OBVIOUS
<1>3. Cardinality(T) # 0
  BY <1>1, <1>2, FS_EmptySet
<1>4. Cardinality(T) \in Nat /\ Cardinality(S) \in Nat
  BY <1>1, FS_CardinalityType
<1>. QED
  BY <1>1, <1>3, <1>4 DEF Rank

(* The larger element has the larger rank.                                  *)
LEMMA RankGrows ==
  ASSUME NEW S \in SUBSET Nat, IsFiniteSet(S), NEW i \in S, NEW j \in S, i < j
  PROVE  Rank(S, i) < Rank(S, j)
<1>. DEFINE T == {k \in S : k <= i}
            U == {k \in S : k <= j}
<1>0. i \in Nat /\ j \in Nat /\ \A k \in S : k \in Nat
  OBVIOUS
<1>1. T \in SUBSET U /\ j \in U /\ j \notin T
  <2>1. ASSUME NEW k \in T PROVE k \in U
    <3>1. k \in S /\ k \in Nat /\ k <= i
      BY <1>0, <2>1
    <3>. QED
      BY <3>1, <1>0
  <2>2. ~(j <= i) /\ j <= j
    BY <1>0
  <2>. QED
    BY <2>1, <2>2
<1>2. IsFiniteSet(U)
  BY FS_Subset
<1>3. IsFiniteSet(T) /\ Cardinality(T) <= Cardinality(U) /\ Cardinality(U) # Cardinality(T)
  BY <1>1, <1>2, FS_Subset
<1>4. Cardinality(T) \in Nat /\ Cardinality(U) \in Nat
  BY <1>2, <1>3, FS_CardinalityType
<1>. QED
  BY <1>3, <1>4 DEF Rank

(* InOrder is a sequence as long as the set has elements.                   *)
LEMMA InOrderIsFunction ==
  ASSUME NEW S
  PROVE  InOrder(S) = [n \in 1..Cardinality(S) |-> InOrder(S)[n]]
<1>. DEFINE At_(n) == CHOOSE i \in S : Cardinality({j \in S : j <= i}) = n
<1>1. InOrder(S) = [n \in 1..Cardinality(S) |-> At_(n)]
  BY DEF InOrder
<1>. HIDE DEF At_
<1>. QED
  BY <1>1

(* InOrder enumerates the set, the smaller elements first.                  *)
LEMMA InOrderEnumerates ==
  ASSUME NEW S \in SUBSET Nat, IsFiniteSet(S)
  PROVE  /\ InOrder(S) \in [1..Cardinality(S) -> S]
         /\ \A n \in 1..Cardinality(S) : Rank(S, InOrder(S)[n]) = n
         /\ \A i \in S : InOrder(S)[Rank(S, i)] = i
<1>. DEFINE N == Cardinality(S)
            rank == [i \in S |-> Rank(S, i)]
<1>1. N \in Nat /\ IsFiniteSet(1..N) /\ Cardinality(1..N) = N
  BY FS_CardinalityType, FS_Interval
<1>2. rank \in [S -> 1..N]
  BY RankType
<1>3. ASSUME NEW i \in S, NEW j \in S, i # j PROVE rank[i] # rank[j]
  <2>1. rank[i] \in Nat /\ rank[j] \in Nat
    BY <1>2, <1>1
  <2>2. CASE i < j
    BY <2>1, <2>2, RankGrows
  <2>3. CASE j < i
    BY <2>1, <2>3, RankGrows
  <2>. QED
    BY <2>2, <2>3, <1>3
<1>4. rank \in Injection(S, 1..N)
  BY <1>2, <1>3 DEF Injection, IsInjective
<1>5. rank \in Surjection(S, 1..N)
  BY <1>1, <1>4, FS_Injection
<1>6. \A n \in 1..N : \E i \in S : Rank(S, i) = n
  BY <1>5 DEF Surjection
<1>7. ASSUME NEW n \in 1..N
      PROVE  InOrder(S)[n] \in S /\ Rank(S, InOrder(S)[n]) = n
  <2>1. InOrder(S)[n] = CHOOSE i \in S : Rank(S, i) = n
    BY <1>7 DEF InOrder, Rank
  <2>. QED
    BY <2>1, <1>6
<1>8. ASSUME NEW i \in S PROVE InOrder(S)[Rank(S, i)] = i
  <2>1. Rank(S, i) \in 1..N
    BY RankType
  <2>2. /\ InOrder(S)[Rank(S, i)] \in S
        /\ Rank(S, InOrder(S)[Rank(S, i)]) = Rank(S, i)
    BY <2>1, <1>7
  <2>. QED
    BY <2>2, <1>3
<1>9. InOrder(S) = [n \in 1..N |-> InOrder(S)[n]]
  BY InOrderIsFunction
<1>. HIDE DEF N
<1>10. InOrder(S) \in [1..N -> S]
  BY <1>7, <1>9
<1>. QED
  BY <1>7, <1>8, <1>10 DEF N

(* How many elements are below a number.                                    *)
Below(S, from) == Cardinality({i \in S : i < from})

(* The elements from a number on, in order, are those after the ones below. *)
LEMMA InOrderFrom ==
  ASSUME NEW S \in SUBSET Nat, IsFiniteSet(S), NEW from \in Nat
  PROVE  /\ Below(S, from) \in Nat /\ Below(S, from) <= Cardinality(S)
         /\ InOrder({i \in S : i >= from})
              = [n \in 1..(Cardinality(S) - Below(S, from)) |->
                   InOrder(S)[Below(S, from) + n]]
<1>. DEFINE B == {i \in S : i < from}
            R == {i \in S : i >= from}
            d == Cardinality(B)
<1>00. d = Below(S, from)
  BY DEF Below
<1>1. IsFiniteSet(B) /\ IsFiniteSet(R) /\ Cardinality(B) <= Cardinality(S)
  BY FS_Subset
<1>2. d \in Nat /\ Cardinality(S) \in Nat /\ Cardinality(R) \in Nat
  BY <1>1, FS_CardinalityType
<1>0. \A i \in S : i \in Nat
  OBVIOUS
<1>3. S = B \cup R /\ B \cap R = {} /\ R \in SUBSET Nat
  <2>1. \A i \in S : (i < from) <=> ~(i >= from)
    BY <1>0
  <2>. QED
    BY <2>1, <1>0
<1>4. Cardinality(R) = Cardinality(S) - d
  <2>1. Cardinality(B \cup R) = Cardinality(B) + Cardinality(R) - Cardinality(B \cap R)
    BY <1>1, FS_Union
  <2>2. Cardinality(B \cup R) = Cardinality(S) /\ Cardinality(B \cap R) = 0 /\ Cardinality(B) = d
    BY <1>1, <1>3, FS_EmptySet
  <2>. QED
    BY ONLY <2>1, <2>2, <1>2
<1>5. ASSUME NEW i \in R PROVE Rank(S, i) = d + Rank(R, i)
  <2>. DEFINE T == {j \in R : j <= i}
  <2>1. IsFiniteSet(T)
    BY <1>1, FS_Subset
  <2>0. i \in Nat /\ i >= from /\ i \in S
    BY <1>0
  <2>2. {j \in S : j <= i} = B \cup T /\ B \cap T = {}
    <3>1. \A j \in S : /\ (j < from) <=> ~(j >= from)
                       /\ j < from => j <= i
      BY <1>0, <2>0
    <3>. QED
      BY <3>1
  <2>3. Cardinality(B \cup T) = Cardinality(B) + Cardinality(T) - Cardinality(B \cap T)
    BY <2>1, <1>1, FS_Union
  <2>4. Cardinality(T) \in Nat /\ Cardinality(B \cap T) = 0
    BY <2>1, <2>2, FS_CardinalityType, FS_EmptySet
  <2>5. Rank(S, i) = Cardinality(B \cup T) /\ Rank(R, i) = Cardinality(T)
    BY <2>2 DEF Rank
  <2>. HIDE DEF B, T
  <2>. QED
    BY <2>3, <2>4, <2>5, <1>1, <1>2
<1>6. ASSUME NEW n \in 1..Cardinality(R) PROVE InOrder(R)[n] = InOrder(S)[d + n]
  <2>0. InOrder(R) \in [1..Cardinality(R) -> R] /\ \A m \in 1..Cardinality(R) : Rank(R, InOrder(R)[m]) = m
    BY <1>1, <1>3, InOrderEnumerates
  <2>1. InOrder(R)[n] \in R /\ Rank(R, InOrder(R)[n]) = n
    BY <2>0
  <2>2. Rank(S, InOrder(R)[n]) = d + n
    BY <2>1, <1>5
  <2>. QED
    BY <2>1, <2>2, <1>3, InOrderEnumerates
<1>7. InOrder(R) = [n \in 1..Cardinality(R) |-> InOrder(R)[n]]
  BY InOrderIsFunction
<1>8. InOrder(R) = [n \in 1..Cardinality(R) |-> InOrder(S)[d + n]]
  BY <1>6, <1>7
<1>9. InOrder(R) = [n \in 1..(Cardinality(S) - d) |-> InOrder(S)[d + n]]
  BY <1>4, <1>8
<1>. QED
  BY <1>00, <1>1, <1>2, <1>9

-----------------------------------------------------------------------------
(* The chunks.  All is the text's ordinary statements in order; those       *)
(* before a place of the text are the first ones.                           *)
All == InOrder(Writes)
Before(i) == Below(Writes, i)

RanStep == [stmt : Nat, chunk : Nat \ {0}, ok : BOOLEAN]
StreamType == [tx : BOOLEAN, pending : SUBSET Nat, durable : SUBSET Nat]

ChunkTypes ==
  /\ text \in Seq(Statement)
  /\ at \in {"off", "next", "single", "begin", "chunk", "commit", "read", "over"}
  /\ next \in 1..(Len(text) + 1) /\ eof \in BOOLEAN
  /\ chunk \in Seq(Nat) /\ slots \in [1..ChunkSize -> Nat]
  /\ stream \in StreamType
  /\ ran \in Seq(RanStep) /\ chunks \in Nat /\ step \in Nat
  /\ index \in Nat /\ asks \in Nat

(* The statements executed so far are the first ones, and the current chunk *)
(* holds those that come next: how many of it have been executed tells      *)
(* where it starts.                                                         *)
Taken ==
  /\ Len(ran) - step + Len(chunk) = Before(next)
  /\ \A i \in 1..Len(chunk) :
       chunk[i] = All[Len(ran) - step + i] /\ slots[i] = chunk[i]
  /\ step <= Len(chunk) /\ Len(chunk) <= ChunkSize /\ step <= Len(ran)
  /\ Len(chunk) < ChunkSize => eof
  /\ eof <=> next > Len(text)

InTurn ==
  /\ Len(ran) <= Cardinality(Writes)
  /\ \A i \in DOMAIN ran : ran[i].stmt = All[i]
  /\ at = "next" => Len(ran) = Before(next)
  /\ at \in {"single", "begin", "chunk"} => Taken
  /\ at \in {"off", "single", "begin"} => ran = <<>> /\ step = 0 /\ chunks = 0
  /\ at = "next" /\ chunks = 0 => ran = <<>>
  /\ at = "single" => Len(chunk) = 1
  /\ at = "commit" => Len(ran) = Cardinality(Writes)
  /\ at \in {"commit", "read"} => chunks > 0

(* While the transaction of the chunks is open nothing is durable, and its  *)
(* rows are those of the steps that succeeded.                              *)
RowsRan == {ran[i].stmt : i \in {j \in DOMAIN ran : ran[j].ok}}

NotBegun == at \in {"off", "single", "begin"} \/ (at = "next" /\ chunks = 0)
Begun == at \in {"chunk", "commit"} \/ (at = "next" /\ chunks > 0)

RowsInv ==
  /\ IsFiniteSet(stream.pending) /\ IsFiniteSet(stream.durable)
  /\ NotBegun => stream.pending = {} /\ stream.durable = {}
  /\ Begun /\ stream.tx => stream.pending = RowsRan /\ stream.durable = {}
  /\ at = "read" => stream.durable = RowsRan
  /\ back.how # "none" => at = "over"
  /\ LongTextReportedIsDurable

(* The index never runs ahead of what is durable.                           *)
IndexInv ==
  /\ IsFiniteSet(durable) /\ IsFiniteSet(pending)
  /\ at # "off" => durable = {} /\ index <= Given(stream.durable)
  /\ NotBegun => asks = 0
  /\ Begun /\ stream.tx => asks = 1
  /\ at = "off" /\ phase \in {"request", "batch"} => index <= 1
  /\ at = "off" /\ ((phase = "read" /\ ~SomeStepFailed) \/ phase = "rows")
       => index = Given(durable)
  /\ at = "off" /\ phase = "over" /\ outcome = "ok" => index = Given(durable)
  /\ at = "read" \/ back.how = "ok" => index = Given(stream.durable)

(* The invariant of a call of executeStmt.                                  *)
ChunksInv == ChunkTypes /\ InTurn /\ RowsInv /\ IndexInv

-----------------------------------------------------------------------------
(* The ordinary statements of a text are finitely many.                     *)
LEMMA WritesFinite ==
  ASSUME text \in Seq(Statement)
  PROVE  /\ Writes \in SUBSET Nat /\ IsFiniteSet(Writes) /\ Cardinality(Writes) \in Nat
         /\ \A i \in Writes : i \in 1..Len(text)
         /\ Len(text) \in Nat
<1>1. Len(text) \in Nat
  OBVIOUS
<1>2. Writes \subseteq 1..Len(text)
  BY DEF Writes
<1>3. IsFiniteSet(1..Len(text))
  BY <1>1, FS_Interval
<1>4. IsFiniteSet(Writes) /\ Cardinality(Writes) \in Nat
  BY <1>2, <1>3, FS_Subset, FS_CardinalityType
<1>5. \A i \in Writes : i \in 1..Len(text) /\ i \in Nat
  BY <1>1, <1>2
<1>. QED
  BY <1>1, <1>4, <1>5

(* What chunker.Next takes: the next statements, as many as fit in a chunk  *)
(* or as there are.                                                         *)
LEMMA ChunkerTakes ==
  ASSUME text \in Seq(Statement), next \in 1..(Len(text) + 1), ChunkerNext,
         slots \in [1..ChunkSize -> Nat]
  PROVE  \E n \in 0..ChunkSize, to \in 1..(Len(text) + 1) :
           /\ next' = to /\ Before(next) \in Nat
           /\ Before(next) + n = Before(to)
           /\ chunk' \in Seq(Nat) /\ Len(chunk') = n
           /\ slots' \in [1..ChunkSize -> Nat]
           /\ \A i \in 1..n : chunk'[i] = All[Before(next) + i] /\ slots'[i] = chunk'[i]
           /\ n < ChunkSize => to > Len(text)
           /\ eof' = (to > Len(text))
<1>. DEFINE d == Before(next)
            rest == Ordinary(next)
            N == Cardinality(Writes)
            n == IF Len(rest) < ChunkSize THEN Len(rest) ELSE ChunkSize
            Takes(k, to) ==
              /\ next' = to /\ Before(next) \in Nat
              /\ Before(next) + k = Before(to)
              /\ chunk' \in Seq(Nat) /\ Len(chunk') = k
              /\ slots' \in [1..ChunkSize -> Nat]
              /\ \A i \in 1..k : chunk'[i] = All[Before(next) + i] /\ slots'[i] = chunk'[i]
              /\ k < ChunkSize => to > Len(text)
              /\ eof' = (to > Len(text))
<1>. SUFFICES \E k \in 0..ChunkSize, to \in 1..(Len(text) + 1) : Takes(k, to)
  OBVIOUS
<1>0. /\ Writes \in SUBSET Nat /\ IsFiniteSet(Writes) /\ N \in Nat
      /\ \A i \in Writes : i \in 1..Len(text)
      /\ Len(text) \in Nat /\ next \in Nat /\ ChunkSize \in Nat \ {0}
  BY WritesFinite, ExecAssumption
<1>1. /\ d \in Nat /\ d <= N
      /\ rest = [i \in 1..(N - d) |-> All[d + i]]
  BY <1>0, InOrderFrom DEF Before, Ordinary, All
<1>2. All \in [1..N -> Writes] /\ \A i \in 1..N : Rank(Writes, All[i]) = i
  BY <1>0, InOrderEnumerates DEF All
<1>3. /\ chunk' = SubSeq(rest, 1, n)
      /\ next' = IF n = ChunkSize THEN rest[n] + 1 ELSE Len(text) + 1
      /\ eof' = (next' > Len(text))
      /\ slots' = [i \in 1..ChunkSize |-> IF i <= n THEN rest[i] ELSE slots[i]]
  BY DEF ChunkerNext
<1>. HIDE DEF d, rest, N
<1>4. N - d \in Nat
  BY <1>0, <1>1
<1>5. ASSUME NEW i \in 1..(N - d)
      PROVE  rest[i] = All[d + i] /\ All[d + i] \in Writes /\ All[d + i] \in 1..Len(text)
  <2>1. d + i \in 1..N
    BY <1>0, <1>1, <1>4
  <2>2. All[d + i] \in Writes
    BY <2>1, <1>2
  <2>. QED
    BY <2>2, <1>0, <1>1
<1>6. rest \in Seq(Nat) /\ Len(rest) = N - d
  <2>1. rest \in [1..(N - d) -> Nat]
    BY <1>0, <1>1, <1>5
  <2>. QED
    BY <2>1, <1>4
<1>7. n \in Nat /\ n <= N - d /\ n <= ChunkSize /\ (n < ChunkSize => n = N - d)
  BY <1>0, <1>4, <1>6
<1>. HIDE DEF n
<1>8. chunk' \in Seq(Nat) /\ Len(chunk') = n /\ \A i \in 1..n : chunk'[i] = rest[i]
  BY <1>3, <1>6, <1>7
<1>9. \A i \in 1..n : rest[i] = All[d + i] /\ rest[i] \in Nat
  BY <1>5, <1>7, <1>4, <1>0
<1>10. /\ slots' \in [1..ChunkSize -> Nat]
       /\ \A i \in 1..n : slots'[i] = rest[i]
  BY <1>3, <1>7, <1>9, <1>0
<1>11. CASE n = ChunkSize
  <2>1. n \in 1..(N - d) /\ d + n \in 1..N
    BY <1>0, <1>1, <1>4, <1>7, <1>11
  <2>2. rest[n] = All[d + n] /\ rest[n] \in 1..Len(text) /\ Rank(Writes, rest[n]) = d + n
    BY <2>1, <1>2, <1>5
  <2>3. next' = rest[n] + 1 /\ next' \in 1..(Len(text) + 1)
    BY <2>2, <1>0, <1>3, <1>11
  <2>4. \A i \in Writes : i <= rest[n] <=> i < rest[n] + 1
    BY <2>2, <1>0
  <2>5. {i \in Writes : i <= rest[n]} = {i \in Writes : i < rest[n] + 1}
    BY <2>4
  <2>6. Before(rest[n] + 1) = d + n
    BY <2>2, <2>5 DEF Before, Below, Rank
  <2>7. Takes(n, rest[n] + 1)
    <3>1. eof' = (rest[n] + 1 > Len(text))
      BY <2>3, <1>3
    <3>2. d = Before(next)
      BY DEF d
    <3>3. Before(next) \in Nat /\ Before(next) + n = Before(rest[n] + 1)
      BY <3>2, <2>6, <1>1
    <3>4. \A i \in 1..n : chunk'[i] = All[Before(next) + i] /\ slots'[i] = chunk'[i]
      BY <3>2, <1>8, <1>9, <1>10
    <3>5. ~(n < ChunkSize)
      BY <1>0, <1>11
    <3>. QED
      BY <3>1, <3>3, <3>4, <3>5, <2>3, <1>8, <1>10
  <2>8. n \in 0..ChunkSize /\ rest[n] + 1 \in 1..(Len(text) + 1)
    BY <2>3, <1>0, <1>7
  <2>. HIDE DEF Takes
  <2>. QED
    BY <2>7, <2>8
<1>12. CASE n # ChunkSize
  <2>1. n = N - d /\ next' = Len(text) + 1 /\ d + n = N
    BY <1>0, <1>1, <1>3, <1>7, <1>12
  <2>2. {i \in Writes : i < Len(text) + 1} = Writes
    <3>1. \A i \in Writes : i < Len(text) + 1
      BY <1>0
    <3>. QED
      BY <3>1
  <2>3. Before(Len(text) + 1) = N
    BY <2>2 DEF Before, Below, N
  <2>4. Takes(n, Len(text) + 1)
    <3>1. eof' = (Len(text) + 1 > Len(text))
      BY <2>1, <1>3
    <3>2. d = Before(next) /\ Len(text) + 1 > Len(text)
      BY <1>0 DEF d
    <3>. QED
      BY <3>1, <3>2, <2>1, <2>3, <1>1, <1>8, <1>9, <1>10
  <2>5. n \in 0..ChunkSize /\ Len(text) + 1 \in 1..(Len(text) + 1)
    BY <1>0, <1>7
  <2>. HIDE DEF Takes
  <2>. QED
    BY <2>4, <2>5
<1>. QED
  BY <1>11, <1>12

(* The index a result is given with.                                        *)
LEMMA GivenFacts ==
  /\ Given({}) = 1
  /\ \A S : IsFiniteSet(S) => Given(S) \in Nat /\ Given(S) >= 1
<1>. QED
  BY FS_EmptySet, FS_CardinalityType DEF Given

(* It grows with what is durable.                                           *)
LEMMA GivenGrows ==
  ASSUME NEW S, NEW T, IsFiniteSet(T), S \subseteq T
  PROVE  Given(S) <= Given(T)
<1>1. IsFiniteSet(S) /\ Cardinality(S) <= Cardinality(T)
  BY FS_Subset
<1>2. Cardinality(S) \in Nat /\ Cardinality(T) \in Nat
  BY <1>1, FS_CardinalityType
<1>. QED
  BY <1>1, <1>2 DEF Given

(* Nothing has been sent when the call begins.                              *)
LEMMA ChunksInit == ExecInit => ChunksInv
<1>. SUFFICES ASSUME ExecInit PROVE ChunksInv
  OBVIOUS
<1>1. text \in Seq(Statement) /\ Len(text) \in Nat /\ inTx \in BOOLEAN
  BY TextsAreSequences DEF ExecInit, Init
<1>2. IsFiniteSet({}) /\ Cardinality(Writes) \in Nat
  BY <1>1, FS_EmptySet, WritesFinite
<1>3. ChunkTypes
  <2>1. 1 \in 1..(Len(text) + 1)
    BY <1>1
  <2>2. slots \in [1..ChunkSize -> Nat]
    BY DEF ExecInit, NoSlot
  <2>3. stream \in StreamType /\ chunk \in Seq(Nat) /\ ran \in Seq(RanStep)
    BY <1>1 DEF ExecInit, StreamType
  <2>4. index \in Nat /\ asks \in Nat /\ chunks \in Nat /\ step \in Nat /\ eof \in BOOLEAN
    <3>1. index \in 0..1 /\ asks = 0 /\ chunks = 0 /\ step = 0
      BY DEF ExecInit
    <3>2. eof \in BOOLEAN
      BY DEF ExecInit
    <3>. QED
      BY <3>1, <3>2
  <2>5. at \in {"off", "next"} /\ next = 1
    BY DEF ExecInit
  <2>. QED
    BY <1>1, <2>1, <2>2, <2>3, <2>4, <2>5 DEF ChunkTypes
<1>4. InTurn
  <2>1. {j \in Writes : j < 1} = {}
    BY <1>1, WritesFinite
  <2>2. Before(next) = 0
    BY <2>1, FS_EmptySet DEF Before, Below, ExecInit
  <2>. QED
    BY <1>2, <2>2 DEF ExecInit, InTurn
<1>5. RowsInv
  BY <1>2 DEF ExecInit, RowsInv, NotBegun, Begun, LongTextReportedIsDurable
<1>6. IndexInv
  BY <1>2, GivenFacts DEF ExecInit, Init, IndexInv, NotBegun, Begun
<1>. QED
  BY <1>3, <1>4, <1>5, <1>6 DEF ChunksInv

-----------------------------------------------------------------------------
(* The text is that of the call throughout.                                 *)
LEMMA SameText ==
  ASSUME text' = text, NEW i
  PROVE  Writes' = Writes /\ All' = All /\ Before(i)' = Before(i)
BY DEF Writes, All, Before

(* What the parts of the invariant about the result of the call say of a    *)
(* step that leaves the text in chunks and the call open.                   *)
LEMMA StillOpen ==
  ASSUME ChunksInv, UNCHANGED <<vars, back>>, at \notin {"off", "over"}, at' # "off",
         ChunkTypes', InTurn',
         IsFiniteSet(stream'.pending), IsFiniteSet(stream'.durable),
         NotBegun' => stream'.pending = {} /\ stream'.durable = {} /\ asks' = 0,
         Begun' /\ stream'.tx => stream'.pending = RowsRan' /\ stream'.durable = {} /\ asks' = 1,
         at' = "read" => stream'.durable = RowsRan' /\ index' = Given(stream'.durable),
         index' <= Given(stream'.durable)
  PROVE  ChunksInv'
<1>1. back.how = "none" /\ back'.how = "none"
  BY DEF ChunksInv, RowsInv
<1>2. durable' = {} /\ pending' = pending /\ IsFiniteSet(durable) /\ IsFiniteSet(pending)
  BY DEF ChunksInv, IndexInv, vars, server
<1>3. RowsInv'
  BY <1>1 DEF RowsInv, LongTextReportedIsDurable
<1>4. durable' = durable
  BY DEF vars, server
<1>5. IndexInv'
  BY <1>1, <1>2, <1>4 DEF IndexInv
<1>. QED
  BY <1>3, <1>5 DEF ChunksInv

(* The same for a step that ends the call.                                  *)
LEMMA NowOver ==
  ASSUME ChunksInv, UNCHANGED vars, at # "off", at' = "over",
         ChunkTypes', InTurn',
         IsFiniteSet(stream'.pending), IsFiniteSet(stream'.durable),
         LongTextReportedIsDurable',
         back'.how = "ok" => index' = Given(stream'.durable),
         index' <= Given(stream'.durable)
  PROVE  ChunksInv'
<1>1. ~NotBegun' /\ ~Begun' /\ at' # "read" /\ at' # "off"
  BY DEF NotBegun, Begun
<1>2. durable' = {} /\ pending' = pending /\ IsFiniteSet(durable) /\ IsFiniteSet(pending)
      /\ durable' = durable
  BY DEF ChunksInv, IndexInv, vars, server
<1>3. RowsInv'
  BY <1>1 DEF RowsInv
<1>4. IndexInv'
  BY <1>1, <1>2 DEF IndexInv
<1>. QED
  BY <1>3, <1>4 DEF ChunksInv

(* A chunk is taken from the text.                                          *)
LEMMA TakesChunkKeeps ==
  ASSUME ChunksInv, TakesChunk, UNCHANGED vars
  PROVE  ChunksInv'
<1>1. PICK n \in 0..ChunkSize, to \in 1..(Len(text) + 1) :
           /\ next' = to /\ Before(next) \in Nat
           /\ Before(next) + n = Before(to)
           /\ chunk' \in Seq(Nat) /\ Len(chunk') = n
           /\ slots' \in [1..ChunkSize -> Nat]
           /\ \A i \in 1..n : chunk'[i] = All[Before(next) + i] /\ slots'[i] = chunk'[i]
           /\ n < ChunkSize => to > Len(text)
           /\ eof' = (to > Len(text))
  BY ChunkerTakes DEF ChunksInv, ChunkTypes, TakesChunk
<1>2. text' = text
  BY DEF vars, call
<1>3. /\ at = "next" /\ step' = 0
      /\ UNCHANGED <<stream, ran, chunks, index, asks, back>>
      /\ at' \in IF chunks = 0 THEN {"single", "begin"} ELSE {"chunk"}
  BY DEF TakesChunk, FirstChunk
<1>4. /\ chunks \in Nat /\ Len(ran) \in Nat /\ Len(ran) = Before(next)
      /\ Len(text) \in Nat /\ ChunkSize \in Nat \ {0}
  BY <1>3, ExecAssumption DEF ChunksInv, ChunkTypes, InTurn
<1>5. ChunkTypes'
  BY <1>1, <1>2, <1>3 DEF ChunksInv, ChunkTypes
<1>6. Taken'
  <2>1. Len(ran') - step' + Len(chunk') = Before(next)'
    <3>1. Writes' = Writes
      BY <1>2, SameText
    <3>2. Before(next)' = Below(Writes, to) /\ Before(to) = Below(Writes, to)
      BY <3>1, <1>1 DEF Before
    <3>. QED
      BY <3>2, <1>1, <1>3, <1>4
  <2>2. ASSUME NEW i \in 1..Len(chunk')
        PROVE  chunk'[i] = All'[Len(ran') - step' + i] /\ slots'[i] = chunk'[i]
    <3>1. Len(ran') - step' + i = Before(next) + i
      BY <1>3, <1>4
    <3>. QED
      BY <3>1, <2>2, <1>1, <1>2, SameText
  <2>3. eof' <=> next' > Len(text')
    BY <1>1, <1>2
  <2>4. Len(chunk') < ChunkSize => eof'
    BY <1>1
  <2>5. step' <= Len(chunk') /\ Len(chunk') <= ChunkSize /\ step' <= Len(ran')
    BY <1>1, <1>3, <1>4
  <2>. QED
    BY <2>1, <2>2, <2>3, <2>4, <2>5 DEF Taken
<1>7. InTurn'
  <2>1. Len(ran) <= Cardinality(Writes) /\ \A i \in DOMAIN ran : ran[i].stmt = All[i]
    BY DEF ChunksInv, InTurn
  <2>2. chunks = 0 => ran = <<>>
    BY <1>3 DEF ChunksInv, InTurn
  <2>3. at' = "single" => Len(chunk') = 1
    BY DEF TakesChunk
  <2>. QED
    BY <2>1, <2>2, <2>3, <1>2, <1>3, <1>6, SameText DEF InTurn
<1>8. (NotBegun' <=> NotBegun) /\ (Begun' <=> Begun)
  BY <1>3, <1>4 DEF NotBegun, Begun
<1>9. /\ IsFiniteSet(stream.pending) /\ IsFiniteSet(stream.durable)
      /\ NotBegun => stream.pending = {} /\ stream.durable = {} /\ asks = 0
      /\ Begun /\ stream.tx => stream.pending = RowsRan /\ stream.durable = {} /\ asks = 1
      /\ index <= Given(stream.durable)
  BY <1>3 DEF ChunksInv, RowsInv, IndexInv
<1>10. RowsRan' = RowsRan /\ stream' = stream /\ asks' = asks /\ index' = index
  BY <1>3 DEF RowsRan
<1>11. at \notin {"off", "over"} /\ at' \notin {"off", "read"} /\ back' = back
  BY <1>3
<1>. QED
  BY <1>5, <1>7, <1>8, <1>9, <1>10, <1>11, StillOpen DEF ChunksInv

(* A result tells the connection how far the database has come.             *)
LEMMA LearnedFacts ==
  ASSUME NEW k \in Nat, NEW g \in Nat, k <= g
  PROVE  Learned(k, g) = g
BY DEF Learned

(* What a request does to the rows of the stream.                           *)
LEMMA StreamFacts ==
  ASSUME stream \in StreamType, IsFiniteSet(stream.pending), IsFiniteSet(stream.durable),
         NEW i \in Nat, NEW s, s \in {stream, WithRow(i), Rolled, Ends(stream.pending)}
  PROVE  /\ s \in StreamType /\ IsFiniteSet(s.pending) /\ IsFiniteSet(s.durable)
         /\ stream.durable \subseteq s.durable
<1>1. /\ IsFiniteSet(stream.pending \cup {i}) /\ IsFiniteSet(stream.durable \cup {i})
      /\ IsFiniteSet(stream.durable \cup stream.pending) /\ IsFiniteSet({})
  BY FS_AddElement, FS_Union, FS_EmptySet
<1>2. CASE s = stream
  BY <1>2
<1>3. CASE s = WithRow(i)
  BY <1>1, <1>3 DEF WithRow, StreamType
<1>4. CASE s = Rolled
  BY <1>1, <1>4 DEF Rolled, StreamType
<1>5. CASE s = Ends(stream.pending)
  BY <1>1, <1>5 DEF Ends, Rolled, StreamType
<1>. QED
  BY <1>2, <1>3, <1>4, <1>5

(* The index stays behind when more becomes durable.                        *)
LEMMA IndexBehind ==
  ASSUME NEW k \in Nat, NEW S, NEW T, IsFiniteSet(T), S \subseteq T, k <= Given(S)
  PROVE  k <= Given(T) /\ Given(T) \in Nat /\ Learned(k, Given(T)) = Given(T)
<1>1. IsFiniteSet(S) /\ Given(S) <= Given(T)
  BY GivenGrows, FS_Subset
<1>2. Given(S) \in Nat /\ Given(T) \in Nat
  BY <1>1, GivenFacts
<1>3. k <= Given(T)
  BY <1>1, <1>2
<1>. QED
  BY <1>2, <1>3, LearnedFacts

(* The only statement of a text goes out by itself.                         *)
LEMMA ExecutesSingleKeeps ==
  ASSUME ChunksInv, ExecutesSingle, UNCHANGED vars
  PROVE  ChunksInv'
<1>1. /\ at = "single" /\ at' = "over"
      /\ UNCHANGED <<chunker, ran, chunks, step, asks>>
      /\ back'.how = "ok" => stream' = WithRow(chunk[1])
      /\ stream' \in {stream, WithRow(chunk[1])}
  BY DEF ExecutesSingle, Gives, GivesError
<1>2. text' = text
  BY DEF vars, call
<1>3. /\ stream \in StreamType /\ IsFiniteSet(stream.pending) /\ IsFiniteSet(stream.durable)
      /\ index \in Nat /\ index <= Given(stream.durable) /\ chunks = 0 /\ asks \in Nat
      /\ chunk \in Seq(Nat) /\ Len(chunk) = 1
  BY <1>1 DEF ChunksInv, ChunkTypes, RowsInv, IndexInv, InTurn
<1>4. chunk[1] \in Nat
  <2>1. 1 \in 1..Len(chunk)
    BY <1>3
  <2>2. chunk \in Seq(Nat)
    BY <1>3
  <2>. QED
    BY ONLY <2>1, <2>2
<1>5. PICK s : s = stream' /\ s \in {stream, WithRow(chunk[1])}
  BY <1>1
<1>6. /\ s \in StreamType /\ IsFiniteSet(s.pending) /\ IsFiniteSet(s.durable)
      /\ stream.durable \subseteq s.durable
  BY <1>3, <1>4, <1>5, StreamFacts
<1>7. /\ index <= Given(s.durable) /\ Given(s.durable) \in Nat
      /\ Learned(index, Given(s.durable)) = Given(s.durable)
  BY <1>3, <1>6, IndexBehind
<1>8. index' = IF back'.how = "ok" THEN Learned(index, Given(s.durable)) ELSE index
  BY <1>5 DEF ExecutesSingle, Learns
<1>9. index' \in Nat /\ index' <= Given(s.durable) /\ (back'.how = "ok" => index' = Given(s.durable))
  BY <1>3, <1>7, <1>8
<1>10. ChunkTypes'
  BY <1>1, <1>2, <1>3, <1>5, <1>6, <1>9 DEF ChunksInv, ChunkTypes, chunker
<1>11. InTurn'
  BY <1>1, <1>2, SameText DEF ChunksInv, InTurn, chunker
<1>12. LongTextReportedIsDurable'
  BY <1>1, <1>3 DEF LongTextReportedIsDurable
<1>. QED
  BY <1>1, <1>5, <1>6, <1>9, <1>10, <1>11, <1>12, NowOver

(* BEGIN.                                                                   *)
LEMMA BeginsChunksKeeps ==
  ASSUME ChunksInv, BeginsChunks, UNCHANGED vars
  PROVE  ChunksInv'
<1>1. /\ at = "begin" /\ UNCHANGED <<chunker, ran, chunks, step>>
      /\ asks' = IF asks = 0 THEN index' ELSE asks
      /\ index' = IF at' = "chunk" THEN Learned(index, Given(stream.durable)) ELSE index
  BY DEF BeginsChunks, AddsReplicationIndex, Learns
<1>2. text' = text
  BY DEF vars, call
<1>3. /\ stream \in StreamType /\ stream.pending = {} /\ stream.durable = {}
      /\ index \in Nat /\ index <= 1 /\ chunks = 0 /\ asks = 0 /\ ran = <<>>
      /\ Given({}) = 1 /\ IsFiniteSet({})
  BY <1>1, GivenFacts, FS_EmptySet
     DEF ChunksInv, ChunkTypes, RowsInv, IndexInv, InTurn, NotBegun
<1>4. Learned(index, 1) = 1
  BY <1>3, LearnedFacts
<1>5. index' \in Nat /\ index' <= 1 /\ asks' = index' /\ (at' = "chunk" => index' = 1)
  BY <1>1, <1>3, <1>4
<1>6. /\ stream' \in {stream, [stream EXCEPT !.tx = TRUE]}
      /\ \/ at' = "chunk" /\ back' = back
         \/ at' = "over" /\ back'.how = "error"
  BY DEF BeginsChunks, GivesError, Gives
<1>7. stream' \in StreamType /\ stream'.pending = {} /\ stream'.durable = {}
  BY <1>3, <1>6 DEF StreamType
<1>8. ChunkTypes'
  BY <1>1, <1>2, <1>5, <1>6, <1>7 DEF ChunksInv, ChunkTypes, chunker
<1>9. Writes' = Writes /\ All' = All /\ (Taken' <=> Taken)
  BY <1>1, <1>2 DEF Taken, chunker, Writes, All, Before
<1>10. InTurn'
  BY <1>1, <1>6, <1>9 DEF ChunksInv, InTurn, chunker
<1>11. CASE at' = "chunk"
  <2>1. RowsRan' = {}
    BY <1>1, <1>3 DEF RowsRan
  <2>2. ~NotBegun'
    BY <1>11 DEF NotBegun
  <2>3. back' = back /\ at' # "read"
    BY <1>6, <1>11
  <2>. QED
    BY <2>1, <2>2, <2>3, <1>1, <1>3, <1>5, <1>7, <1>8, <1>10, <1>11, StillOpen
<1>12. CASE at' = "over"
  <2>1. back'.how = "error"
    BY <1>6, <1>12
  <2>2. LongTextReportedIsDurable'
    BY <2>1 DEF LongTextReportedIsDurable
  <2>. QED
    BY <2>1, <2>2, <1>1, <1>3, <1>5, <1>7, <1>8, <1>10, <1>12, NowOver
<1>. QED
  BY <1>6, <1>11, <1>12

(* The steps of the message are the current chunk, whatever else is left in *)
(* the slots.                                                               *)
LEMMA StepsAreTheChunk ==
  ASSUME ChunksInv, at = "chunk"
  PROVE  /\ Len(Steps) = Len(chunk) /\ Len(chunk) \in Nat
         /\ \A i \in 1..Len(chunk) : Steps[i] = chunk[i] /\ chunk[i] \in Nat
<1>1. /\ chunk \in Seq(Nat) /\ slots \in [1..ChunkSize -> Nat] /\ ChunkSize \in Nat
      /\ \A i \in 1..Len(chunk) : slots[i] = chunk[i]
      /\ Len(chunk) <= ChunkSize /\ Len(chunk) \in Nat
  BY ExecAssumption DEF ChunksInv, ChunkTypes, InTurn, Taken
<1>2. \A i \in 1..Len(chunk) : chunk[i] \in Nat
  BY <1>1
<1>3. slots \in Seq(Nat) /\ Len(slots) = ChunkSize
  BY <1>1
<1>4. CASE Len(chunk) < ChunkSize
  <2>1. Steps = SubSeq(slots, 1, Len(chunk))
    BY <1>4 DEF Steps
  <2>2. Len(Steps) = Len(chunk) /\ \A i \in 1..Len(chunk) : Steps[i] = slots[i]
    BY <2>1, <1>1, <1>3, <1>4
  <2>. QED
    BY <2>2, <1>1, <1>2
<1>5. CASE ~(Len(chunk) < ChunkSize)
  <2>1. Steps = slots
    BY <1>5 DEF Steps
  <2>. QED
    BY <2>1, <1>1, <1>2, <1>3, <1>5
<1>. QED
  BY <1>4, <1>5

(* No more ordinary statements come before a place than there are.          *)
LEMMA BeforeFacts ==
  ASSUME text \in Seq(Statement), NEW i \in 1..(Len(text) + 1)
  PROVE  /\ Before(i) \in Nat /\ Before(i) <= Cardinality(Writes) /\ Cardinality(Writes) \in Nat
         /\ i > Len(text) => Before(i) = Cardinality(Writes)
<1>1. /\ Writes \in SUBSET Nat /\ IsFiniteSet(Writes) /\ Cardinality(Writes) \in Nat
      /\ \A j \in Writes : j \in 1..Len(text)
      /\ Len(text) \in Nat /\ i \in Nat
  BY WritesFinite
<1>2. Before(i) \in Nat /\ Before(i) <= Cardinality(Writes)
  BY <1>1, InOrderFrom DEF Before
<1>3. ASSUME i > Len(text) PROVE Before(i) = Cardinality(Writes)
  <2>1. \A j \in Writes : j < i
    BY <1>1, <1>3
  <2>2. {j \in Writes : j < i} = Writes
    BY <2>1
  <2>. QED
    BY <2>2 DEF Before, Below
<1>. QED
  BY <1>1, <1>2, <1>3

(* A step of the current chunk.                                             *)
LEMMA ExecutesStepKeeps ==
  ASSUME ChunksInv, ExecutesStep, UNCHANGED vars
  PROVE  ChunksInv'
<1>1. /\ at = "chunk" /\ step < Len(Steps) /\ step' = step + 1
      /\ UNCHANGED <<at, chunker, chunks, index, asks, back>>
  BY DEF ExecutesStep
<1>2. text' = text
  BY DEF vars, call
<1>3. /\ stream \in StreamType /\ IsFiniteSet(stream.pending) /\ IsFiniteSet(stream.durable)
      /\ index \in Nat /\ index <= Given(stream.durable) /\ chunks \in Nat /\ asks \in Nat
      /\ step \in Nat /\ ran \in Seq(RanStep) /\ Len(ran) \in Nat /\ Taken
      /\ text \in Seq(Statement) /\ next \in 1..(Len(text) + 1)
      /\ Len(ran) <= Cardinality(Writes)
      /\ \A i \in DOMAIN ran : ran[i].stmt = All[i]
  BY <1>1 DEF ChunksInv, ChunkTypes, RowsInv, IndexInv, InTurn
<1>4. /\ step + 1 \in 1..Len(chunk) /\ Len(chunk) \in Nat /\ step <= Len(ran)
      /\ Steps[step + 1] = chunk[step + 1] /\ chunk[step + 1] \in Nat
      /\ chunk[step + 1] = All[Len(ran) - step + (step + 1)]
      /\ Len(ran) - step + Len(chunk) = Before(next)
  <2>1. Len(Steps) = Len(chunk) /\ Len(chunk) \in Nat
        /\ \A i \in 1..Len(chunk) : Steps[i] = chunk[i] /\ chunk[i] \in Nat
    BY <1>1, StepsAreTheChunk
  <2>2. step + 1 \in 1..Len(chunk)
    BY <2>1, <1>1, <1>3
  <2>. QED
    BY <2>1, <2>2, <1>3 DEF Taken
<1>. DEFINE s == chunk[step + 1]
<1>5. s \in Nat /\ s = All[Len(ran) + 1] /\ Len(ran) + 1 <= Cardinality(Writes)
  <2>1. Len(ran) - step + (step + 1) = Len(ran) + 1
    BY <1>3
  <2>2. Before(next) \in Nat /\ Before(next) <= Cardinality(Writes) /\ Cardinality(Writes) \in Nat
    BY <1>3, BeforeFacts
  <2>3. Len(ran) + 1 <= Before(next)
    BY <1>3, <1>4, <2>2
  <2>. QED
    BY <2>1, <2>2, <2>3, <1>3, <1>4
<1>6. PICK ok \in BOOLEAN :
        /\ ran' = Append(ran, [stmt |-> s, chunk |-> chunks + 1, ok |-> ok])
        /\ stream' \in IF ok THEN {WithRow(s)} ELSE {stream, Rolled}
  BY <1>1, <1>4 DEF ExecutesStep
<1>. HIDE DEF s
<1>. DEFINE r == [stmt |-> s, chunk |-> chunks + 1, ok |-> ok]
<1>7. /\ r \in RanStep /\ r.stmt = s /\ r.ok = ok
  BY <1>3, <1>5 DEF RanStep
<1>8. /\ ran' \in Seq(RanStep) /\ Len(ran') = Len(ran) + 1
      /\ DOMAIN ran' = 1..(Len(ran) + 1) /\ DOMAIN ran = 1..Len(ran)
      /\ \A i \in 1..Len(ran) : ran'[i] = ran[i]
      /\ ran'[Len(ran) + 1] = r
  <2>. HIDE DEF r
  <2>. QED
    BY <1>3, <1>6, <1>7 DEF r
<1>9. RowsRan' = IF ok THEN RowsRan \cup {s} ELSE RowsRan
  <2>1. RowsRan' = {ran'[i].stmt : i \in {j \in 1..(Len(ran) + 1) : ran'[j].ok}}
    BY <1>8 DEF RowsRan
  <2>2. RowsRan = {ran[i].stmt : i \in {j \in 1..Len(ran) : ran[j].ok}}
    BY <1>8 DEF RowsRan
  <2>3. 1..(Len(ran) + 1) = 1..Len(ran) \cup {Len(ran) + 1}
    BY <1>3
  <2>4. ran'[Len(ran) + 1].stmt = s /\ ran'[Len(ran) + 1].ok = ok
    BY <1>7, <1>8
  <2>. HIDE DEF r
  <2>5. {j \in 1..(Len(ran) + 1) : ran'[j].ok}
          = IF ok THEN {j \in 1..Len(ran) : ran[j].ok} \cup {Len(ran) + 1}
                  ELSE {j \in 1..Len(ran) : ran[j].ok}
    BY <2>3, <2>4, <1>8
  <2>. QED
    BY <2>1, <2>2, <2>4, <2>5, <1>8
<1>. HIDE DEF r
<1>10. PICK t : t = stream' /\ t \in IF ok THEN {WithRow(s)} ELSE {stream, Rolled}
  BY <1>6
<1>11. /\ t \in StreamType /\ IsFiniteSet(t.pending) /\ IsFiniteSet(t.durable)
       /\ stream.durable \subseteq t.durable
  BY <1>3, <1>5, <1>10, StreamFacts
<1>12. index <= Given(t.durable)
  BY <1>3, <1>11, IndexBehind
<1>13. ChunkTypes'
  BY <1>1, <1>2, <1>3, <1>8, <1>10, <1>11 DEF ChunksInv, ChunkTypes, chunker
<1>14. Taken'
  <2>1. Len(ran') - step' = Len(ran) - step
    BY <1>1, <1>3, <1>8
  <2>2. Before(next)' = Before(next) /\ All' = All
    BY <1>1, <1>2 DEF chunker, Before, Writes, All
  <2>3. step' <= Len(chunk) /\ step' <= Len(ran')
    BY <1>1, <1>3, <1>4, <1>8
  <2>. QED
    BY <2>1, <2>2, <2>3, <1>1, <1>2, <1>3 DEF Taken, chunker
<1>15. InTurn'
  <2>1. Writes' = Writes /\ All' = All
    BY <1>2, SameText
  <2>2. \A i \in 1..(Len(ran) + 1) : ran'[i].stmt = All[i]
    BY <1>3, <1>5, <1>7, <1>8
  <2>. QED
    BY <2>1, <2>2, <1>1, <1>5, <1>8, <1>14 DEF InTurn
<1>16. Begun /\ Begun' /\ ~NotBegun'
  BY <1>1 DEF Begun, NotBegun
<1>17. ASSUME t.tx PROVE t.pending = RowsRan' /\ t.durable = {} /\ asks' = 1
  <2>1. stream.tx
    BY <1>17, <1>10, <1>3 DEF WithRow, Rolled, StreamType
  <2>2. stream.pending = RowsRan /\ stream.durable = {} /\ asks = 1
    BY <2>1, <1>16 DEF ChunksInv, RowsInv, IndexInv
  <2>3. CASE ok
    BY <2>1, <2>2, <2>3, <1>1, <1>3, <1>9, <1>10 DEF WithRow, StreamType
  <2>4. CASE ~ok
    BY <2>2, <2>4, <1>1, <1>3, <1>9, <1>10, <1>17 DEF Rolled, StreamType
  <2>. QED
    BY <2>3, <2>4
<1>. QED
  BY <1>1, <1>10, <1>11, <1>12, <1>13, <1>15, <1>16, <1>17, StillOpen

(* The answer to a chunk: the next one is taken, or COMMIT sent.            *)
LEMMA ReadsChunkKeeps ==
  ASSUME ChunksInv, ReadsChunk, UNCHANGED vars
  PROVE  ChunksInv'
<1>1. /\ at = "chunk" /\ step = Len(Steps) /\ chunks' = chunks + 1
      /\ at' = IF eof THEN "commit" ELSE "next"
      /\ UNCHANGED <<chunker, stream, ran, step, asks, back>>
      /\ index' \in {index, Learned(index, Given(stream.durable))}
  BY DEF ReadsChunk, Learns
<1>2. text' = text
  BY DEF vars, call
<1>3. /\ IsFiniteSet(stream.pending) /\ IsFiniteSet(stream.durable)
      /\ index \in Nat /\ index <= Given(stream.durable) /\ chunks \in Nat
      /\ Len(ran) \in Nat /\ Len(chunk) \in Nat /\ Taken
      /\ text \in Seq(Statement) /\ next \in 1..(Len(text) + 1)
  BY <1>1 DEF ChunksInv, ChunkTypes, RowsInv, IndexInv, InTurn
<1>4. Given(stream.durable) \in Nat
  BY <1>3, GivenFacts
<1>5. index' \in Nat /\ index' <= Given(stream.durable)
  BY <1>1, <1>3, <1>4, LearnedFacts
<1>6. ChunkTypes'
  BY <1>1, <1>2, <1>3, <1>5 DEF ChunksInv, ChunkTypes, chunker
<1>7. Len(ran) = Before(next) /\ (eof => Len(ran) = Cardinality(Writes))
  <2>1. step = Len(chunk)
    BY <1>1, StepsAreTheChunk
  <2>2. Len(ran) = Before(next)
    BY <2>1, <1>3 DEF Taken
  <2>3. eof => next > Len(text)
    BY <1>3 DEF Taken
  <2>. QED
    BY <2>2, <2>3, <1>3, BeforeFacts
<1>8. InTurn'
  <2>1. Writes' = Writes /\ All' = All /\ Before(next)' = Before(next)
    BY <1>1, <1>2 DEF chunker, Before, Writes, All
  <2>2. chunks' > 0
    BY <1>1, <1>3
  <2>. QED
    BY <2>1, <2>2, <1>1, <1>7 DEF ChunksInv, InTurn
<1>9. Begun /\ Begun' /\ ~NotBegun' /\ at' \notin {"off", "read"} /\ RowsRan' = RowsRan
  BY <1>1, <1>3 DEF Begun, NotBegun, RowsRan
<1>10. stream.tx => stream.pending = RowsRan /\ stream.durable = {} /\ asks = 1
  BY <1>9 DEF ChunksInv, RowsInv, IndexInv
<1>. QED
  BY <1>1, <1>3, <1>5, <1>6, <1>8, <1>9, <1>10, StillOpen

(* A call that ends leaves the order of what was executed alone.            *)
LEMMA OverInTurn ==
  ASSUME ChunksInv, text' = text, UNCHANGED ran, at' = "over"
  PROVE  InTurn'
<1>1. Writes' = Writes /\ All' = All
  BY SameText
<1>. QED
  BY <1>1 DEF ChunksInv, InTurn

(* The request of a chunk fails.                                            *)
LEMMA LosesChunkKeeps ==
  ASSUME ChunksInv, LosesChunk, UNCHANGED vars
  PROVE  ChunksInv'
<1>1. /\ at = "chunk" /\ at' = "over" /\ stream' = Rolled /\ back'.how = "error"
      /\ UNCHANGED <<chunker, ran, chunks, step, index, asks>>
  BY DEF LosesChunk, GivesError, Gives
<1>2. text' = text
  BY DEF vars, call
<1>3. /\ stream \in StreamType /\ IsFiniteSet(stream.pending) /\ IsFiniteSet(stream.durable)
      /\ index \in Nat /\ index <= Given(stream.durable) /\ 0 \in Nat
  BY <1>1 DEF ChunksInv, ChunkTypes, RowsInv, IndexInv
<1>4. /\ stream' \in StreamType /\ IsFiniteSet(stream'.pending) /\ IsFiniteSet(stream'.durable)
      /\ stream'.durable = stream.durable
  <2>1. Rolled \in StreamType /\ IsFiniteSet(Rolled.pending) /\ IsFiniteSet(Rolled.durable)
    BY <1>3, StreamFacts
  <2>2. Rolled.durable = stream.durable
    BY <1>3 DEF Rolled, StreamType
  <2>. QED
    BY <2>1, <2>2, <1>1
<1>5. ChunkTypes'
  BY <1>1, <1>2, <1>4 DEF ChunksInv, ChunkTypes, chunker
<1>6. InTurn' /\ LongTextReportedIsDurable'
  BY <1>1, <1>2, OverInTurn DEF LongTextReportedIsDurable
<1>. QED
  BY <1>1, <1>3, <1>4, <1>5, <1>6, NowOver

(* COMMIT.                                                                  *)
LEMMA CommitsChunksKeeps ==
  ASSUME ChunksInv, CommitsChunks, UNCHANGED vars
  PROVE  ChunksInv'
<1>1. /\ at = "commit"
      /\ UNCHANGED <<chunker, ran, chunks, step, asks>>
      /\ \/ stream.tx /\ stream' = Ends(stream.pending) /\ at' = "read" /\ back' = back
         \/ /\ stream' \in {Rolled, Ends(stream.pending)}
            /\ at' = "over" /\ back'.how = "error"
  BY DEF CommitsChunks, AfterCommitError, GivesError, Gives
<1>2. text' = text
  BY DEF vars, call
<1>3. /\ stream \in StreamType /\ IsFiniteSet(stream.pending) /\ IsFiniteSet(stream.durable)
      /\ index \in Nat /\ index <= Given(stream.durable) /\ 0 \in Nat
      /\ chunks > 0
  BY <1>1 DEF ChunksInv, ChunkTypes, RowsInv, IndexInv, InTurn
<1>4. PICK s : s = stream' /\ s \in {Rolled, Ends(stream.pending)}
  BY <1>1
<1>5. /\ s \in StreamType /\ IsFiniteSet(s.pending) /\ IsFiniteSet(s.durable)
      /\ stream.durable \subseteq s.durable
  BY <1>3, <1>4, StreamFacts
<1>6. /\ index <= Given(s.durable) /\ Given(s.durable) \in Nat
      /\ Learned(index, Given(s.durable)) = Given(s.durable)
  BY <1>3, <1>5, IndexBehind
<1>7. index' = IF at' = "read" THEN Learned(index, Given(s.durable)) ELSE index
  BY <1>4 DEF CommitsChunks, Learns
<1>8. index' \in Nat /\ index' <= Given(s.durable) /\ (at' = "read" => index' = Given(s.durable))
  BY <1>3, <1>6, <1>7
<1>9. ChunkTypes'
  BY <1>1, <1>2, <1>4, <1>5, <1>8 DEF ChunksInv, ChunkTypes, chunker
<1>10. Writes' = Writes /\ All' = All /\ RowsRan' = RowsRan
  BY <1>1, <1>2 DEF Writes, All, RowsRan
<1>11. InTurn'
  BY <1>1, <1>3, <1>10 DEF ChunksInv, InTurn
<1>12. CASE at' = "read"
  <2>1. stream.tx /\ s = Ends(stream.pending) /\ back' = back
    BY <1>1, <1>4, <1>12
  <2>2. stream.pending = RowsRan /\ stream.durable = {}
    BY <2>1, <1>1 DEF ChunksInv, RowsInv, Begun
  <2>3. s.durable = RowsRan
    BY <2>1, <2>2, <1>3 DEF Ends, Rolled, StreamType
  <2>4. ~NotBegun' /\ ~Begun'
    BY <1>12 DEF NotBegun, Begun
  <2>. QED
    BY <2>1, <2>3, <2>4, <1>1, <1>4, <1>5, <1>8, <1>9, <1>10, <1>11, <1>12, StillOpen
<1>13. CASE at' = "over"
  <2>1. back'.how = "error"
    BY <1>1, <1>13
  <2>2. LongTextReportedIsDurable'
    BY <2>1 DEF LongTextReportedIsDurable
  <2>. QED
    BY <2>1, <2>2, <1>1, <1>4, <1>5, <1>8, <1>9, <1>11, <1>13, NowOver
<1>. QED
  BY <1>1, <1>12, <1>13

(* What the call returns.                                                   *)
LEMMA ReadsChunkResultsKeeps ==
  ASSUME ChunksInv, ReadsChunkResults, UNCHANGED vars
  PROVE  ChunksInv'
<1>1. /\ at = "read" /\ at' = "over"
      /\ back'.how = "ok" => ~FirstStepFailed
      /\ UNCHANGED <<chunker, stream, ran, chunks, step, index, asks>>
  BY DEF ReadsChunkResults, GivesError, Gives
<1>2. text' = text
  BY DEF vars, call
<1>3. /\ IsFiniteSet(stream.pending) /\ IsFiniteSet(stream.durable)
      /\ index \in Nat /\ index <= Given(stream.durable) /\ index = Given(stream.durable)
      /\ ran \in Seq(RanStep) /\ stream.durable = RowsRan
  BY <1>1 DEF ChunksInv, ChunkTypes, RowsInv, IndexInv
<1>4. ChunkTypes'
  BY <1>1, <1>2 DEF ChunksInv, ChunkTypes, chunker
<1>5. InTurn'
  BY <1>1, <1>2, OverInTurn
<1>6. LongTextReportedIsDurable'
  <2>1. ASSUME back'.how = "ok", NEW i \in DOMAIN ran
        PROVE  ran[i].ok \/ ran[i].chunk > 1
    <3>0. ran[i] \in RanStep
      BY <1>3, <2>1
    <3>1. ran[i].chunk \in Nat \ {0}
      BY <3>0 DEF RanStep
    <3>2. ran[i].chunk = 1 => ran[i].ok
      BY <1>1, <2>1 DEF FirstStepFailed, FirstSteps
    <3>. QED
      BY <3>1, <3>2
  <2>. QED
    BY <2>1, <1>1, <1>3 DEF LongTextReportedIsDurable, RowsRan
<1>. QED
  BY <1>1, <1>3, <1>4, <1>5, <1>6, NowOver

(* A batch inserts one row at a time.                                       *)
LEMMA RowsStayFinite ==
  ASSUME Next, IsFiniteSet(durable), IsFiniteSet(pending)
  PROVE  IsFiniteSet(durable') /\ IsFiniteSet(pending')
<1>1. /\ IsFiniteSet(durable \cup {At}) /\ IsFiniteSet(pending \cup {At})
      /\ IsFiniteSet(durable \cup pending) /\ IsFiniteSet({})
  BY FS_AddElement, FS_Union, FS_EmptySet
<1>2. CASE StepSucceeds
  BY <1>1, <1>2 DEF StepSucceeds, Write, Begin, Commit, Rollback
<1>3. CASE StepFails
  BY <1>1, <1>3 DEF StepFails
<1>4. CASE UNCHANGED <<durable, pending>>
  BY <1>4
<1>. QED
  BY <1>2, <1>3, <1>4 DEF Next, ServerRejects, ServerStarts, StepIsSkipped, ServerAnswers,
       ReadsError, ReturnsResult, ReturnsRows, NextResultSet, RowsClose, Over, server, vars

(* A text that goes out as one request: the index is that of its result.    *)
LEMMA AsOneRequestKeeps ==
  ASSUME ChunksInv, AsOneRequest
  PROVE  ChunksInv'
<1>1. /\ at = "off" /\ Next
      /\ UNCHANGED <<at, chunker, stream, ran, chunks, step, asks, back>>
      /\ IF phase = "batch" /\ phase' = "read"
         THEN index' = IF ~SomeStepFailed THEN Learned(index, Given(durable)) ELSE index
         ELSE index' = index
  BY DEF AsOneRequest, Learns
<1>2. text' = text
  BY <1>1 DEF Next, ServerRejects, ServerStarts, StepSucceeds, StepFails, StepIsSkipped,
       ServerAnswers, ReadsError, ReturnsResult, ReturnsRows, NextResultSet, RowsClose,
       Over, vars, call
<1>3. /\ IsFiniteSet(durable) /\ IsFiniteSet(pending) /\ index \in Nat
      /\ phase \in {"request", "batch"} => index <= 1
      /\ (phase = "read" /\ ~SomeStepFailed) \/ phase = "rows" => index = Given(durable)
      /\ phase = "over" /\ outcome = "ok" => index = Given(durable)
      /\ back.how = "none" /\ NotBegun
  BY <1>1 DEF ChunksInv, ChunkTypes, RowsInv, IndexInv, NotBegun
<1>4. /\ Given(durable) \in Nat
      /\ phase = "batch" => Learned(index, Given(durable)) = Given(durable)
  BY <1>3, GivenFacts, LearnedFacts
<1>5. index' \in Nat
  BY <1>1, <1>3, <1>4
<1>6. ChunkTypes'
  BY <1>1, <1>2, <1>5 DEF ChunksInv, ChunkTypes, chunker
<1>7. InTurn'
  <2>1. Writes' = Writes /\ All' = All
    BY <1>2, SameText
  <2>. QED
    BY <2>1, <1>1 DEF ChunksInv, InTurn
<1>8. RowsInv'
  BY <1>1, <1>3 DEF ChunksInv, RowsInv, NotBegun, Begun, RowsRan, LongTextReportedIsDurable
<1>9. /\ phase' \in {"request", "batch"} => index' <= 1
      /\ (phase' = "read" /\ ~SomeStepFailed') \/ phase' = "rows" => index' = Given(durable')
      /\ phase' = "over" /\ outcome' = "ok" => index' = Given(durable')
  <2>1. CASE ServerRejects \/ ServerStarts
    BY <2>1, <1>1, <1>3 DEF ServerRejects, ServerStarts, Fails
  <2>2. CASE StepSucceeds \/ StepFails \/ StepIsSkipped
    BY <2>2, <1>1, <1>3 DEF StepSucceeds, StepFails, StepIsSkipped, Runs
  <2>3. CASE ServerAnswers
    <3>1. /\ phase = "batch" /\ phase' = "read" /\ durable' = durable
          /\ SomeStepFailed' = SomeStepFailed
      BY <2>3 DEF ServerAnswers, server, SomeStepFailed
    <3>. QED
      BY <3>1, <1>1, <1>4
  <2>4. CASE ReadsError \/ ReturnsResult \/ ReturnsRows
    <3>1. /\ phase = "read" /\ durable' = durable /\ index' = index
          /\ phase' \in {"rows", "over"}
          /\ (outcome' = "error" /\ phase' = "over") \/ ~SomeStepFailed
      BY <2>4, <1>1 DEF ReadsError, ReturnsResult, ReturnsRows, Fails, server
    <3>. QED
      BY <3>1, <1>3
  <2>5. CASE NextResultSet \/ RowsClose
    <3>1. phase = "rows" /\ durable' = durable /\ index' = index /\ phase' \in {"rows", "over"}
      BY <2>5, <1>1 DEF NextResultSet, RowsClose, server
    <3>. QED
      BY <3>1, <1>3
  <2>6. CASE Over
    BY <2>6, <1>1, <1>3 DEF Over, vars, server, client
  <2>. QED
    BY <2>1, <2>2, <2>3, <2>4, <2>5, <2>6, <1>1 DEF Next
<1>10. IsFiniteSet(durable') /\ IsFiniteSet(pending')
  BY <1>1, <1>3, RowsStayFinite
<1>11. asks' = 0 /\ ~Begun' /\ at' = "off" /\ back'.how = "none"
  BY <1>1, <1>3 DEF ChunksInv, IndexInv, Begun
<1>12. IndexInv'
  BY <1>9, <1>10, <1>11 DEF IndexInv
<1>. QED
  BY <1>6, <1>7, <1>8, <1>12 DEF ChunksInv

-----------------------------------------------------------------------------
(* Every step keeps the invariant.                                          *)
LEMMA ChunksNext == ChunksInv /\ [ExecNext]_<<vars, chunkVars>> => ChunksInv'
<1>. SUFFICES ASSUME ChunksInv, [ExecNext]_<<vars, chunkVars>> PROVE ChunksInv'
  OBVIOUS
<1>1. CASE AsOneRequest
  BY <1>1, AsOneRequestKeeps
<1>2. CASE ExecuteInChunks
  <2>1. UNCHANGED vars
    BY <1>2 DEF ExecuteInChunks
  <2>2. CASE TakesChunk \/ ExecutesSingle \/ BeginsChunks
    BY <2>1, <2>2, TakesChunkKeeps, ExecutesSingleKeeps, BeginsChunksKeeps
  <2>3. CASE ExecutesStep \/ ReadsChunk \/ LosesChunk
    BY <2>1, <2>3, ExecutesStepKeeps, ReadsChunkKeeps, LosesChunkKeeps
  <2>4. CASE CommitsChunks \/ ReadsChunkResults
    BY <2>1, <2>4, CommitsChunksKeeps, ReadsChunkResultsKeeps
  <2>. QED
    BY <1>2, <2>2, <2>3, <2>4 DEF ExecuteInChunks
<1>3. CASE UNCHANGED <<vars, chunkVars>>
  <2>1. ChunkTypes'
    BY <1>3 DEF ChunksInv, ChunkTypes, vars, call, chunkVars, chunker
  <2>2. Writes' = Writes /\ All' = All /\ (Taken' <=> Taken) /\ Before(next)' = Before(next)
    BY <1>3 DEF Taken, chunkVars, chunker, vars, call, Writes, All, Before
  <2>3. InTurn'
    BY <1>3, <2>2 DEF ChunksInv, InTurn, chunkVars, chunker
  <2>4. RowsInv'
    BY <1>3 DEF ChunksInv, RowsInv, chunkVars, NotBegun, Begun, RowsRan,
         LongTextReportedIsDurable
  <2>5. IndexInv'
    BY <1>3 DEF ChunksInv, IndexInv, chunkVars, vars, server, client, NotBegun, Begun,
         SomeStepFailed
  <2>. QED
    BY <2>1, <2>3, <2>4, <2>5 DEF ChunksInv
<1>. QED
  BY <1>1, <1>2, <1>3 DEF ExecNext, ChunksOver

(* The invariant of a call, whether it sends its text as one request or in  *)
(* chunks.                                                                  *)
THEOREM ChunksInvariance == ExecSpec => []ChunksInv
  BY ChunksInit, ChunksNext, PTL DEF ExecSpec

(* However long the text and however small the chunks, its ordinary         *)
(* statements are executed once each and in their order: executeInChunks    *)
(* never sends again what an earlier chunk left in the slots.               *)
THEOREM ChunksInOrder == ExecSpec => []EachStatementOnceInOrder
<1>1. ChunksInv => EachStatementOnceInOrder
  <2>. SUFFICES ASSUME ChunksInv PROVE EachStatementOnceInOrder
    OBVIOUS
  <2>. DEFINE N == Cardinality(Writes)
              stmts == [i \in DOMAIN ran |-> ran[i].stmt]
  <2>1. /\ Writes \in SUBSET Nat /\ IsFiniteSet(Writes) /\ N \in Nat
        /\ \A i \in Writes : i \in 1..Len(text)
        /\ Len(text) \in Nat
    BY WritesFinite DEF ChunksInv, ChunkTypes
  <2>2. {i \in Writes : i >= 1} = Writes
    <3>1. \A i \in Writes : i >= 1
      BY <2>1
    <3>. QED
      BY <3>1
  <2>3. Ordinary(1) = All
    BY <2>2 DEF Ordinary, All
  <2>4. All \in [1..N -> Writes]
    BY <2>1, InOrderEnumerates DEF All
  <2>. HIDE DEF N
  <2>5. All \in Seq(Nat) /\ Len(All) = N
    <3>1. All \in [1..N -> Nat]
      BY <2>1, <2>4
    <3>. QED
      BY <3>1, <2>1
  <2>6. /\ ran \in Seq(RanStep) /\ Len(ran) \in Nat /\ Len(ran) <= N
        /\ \A i \in DOMAIN ran : ran[i].stmt = All[i]
    BY DEF ChunksInv, ChunkTypes, InTurn, N
  <2>7. DOMAIN ran = 1..Len(ran) /\ stmts = [i \in 1..Len(ran) |-> All[i]]
    BY <2>6
  <2>8. stmts \in Seq(Nat) /\ Len(stmts) = Len(ran)
    <3>1. ASSUME NEW i \in 1..Len(ran) PROVE All[i] \in Nat
      <4>1. i \in 1..N
        BY <2>1, <2>6
      <4>2. All[i] \in Writes
        BY <4>1, <2>4
      <4>. QED
        BY <4>2, <2>1
    <3>. QED
      BY <3>1, <2>6, <2>7
  <2>9. SubSeq(stmts, 1, Len(stmts)) = SubSeq(All, 1, Len(stmts))
    <3>1. SubSeq(stmts, 1, Len(ran)) = [i \in 1..Len(ran) |-> stmts[i]]
      BY <2>6, <2>8
    <3>2. SubSeq(All, 1, Len(ran)) = [i \in 1..Len(ran) |-> All[i]]
      BY <2>5, <2>6
    <3>. QED
      BY <3>1, <3>2, <2>7, <2>8
  <2>10. IsPrefix(stmts, Ordinary(1))
    <3>. HIDE DEF stmts
    <3>. QED
      BY <2>3, <2>5, <2>6, <2>8, <2>9 DEF IsPrefix
  <2>11. at = "commit" => Len(ran) = Len(Ordinary(1))
    BY <2>3, <2>5 DEF ChunksInv, InTurn, N
  <2>12. at = "chunk" /\ Len(chunk) < ChunkSize => eof
    BY DEF ChunksInv, InTurn, Taken
  <2>. QED
    BY <2>10, <2>11, <2>12 DEF EachStatementOnceInOrder
<1>. QED
  BY <1>1, ChunksInvariance, PTL

(* A long text reported as executed is durable but for steps that failed    *)
(* after its first chunk.                                                   *)
THEOREM LongTextDurable == ExecSpec => []LongTextReportedIsDurable
<1>1. ChunksInv => LongTextReportedIsDurable
  BY DEF ChunksInv, RowsInv
<1>. QED
  BY <1>1, ChunksInvariance, PTL

(* The connection never asks a replica for less than it has made durable:   *)
(* neither after a call, nor in the chunks whose message keeps the index of *)
(* its first sending.                                                       *)
THEOREM ReadsSeeWrites == ExecSpec => []ReadsFollowWrites
<1>1. ChunksInv => ReadsFollowWrites
  <2>. SUFFICES ASSUME ChunksInv PROVE ReadsFollowWrites
    OBVIOUS
  <2>1. ASSUME at = "off", phase = "over", outcome = "ok"
        PROVE  index = Given(durable \cup stream.durable)
    <3>1. stream.durable = {} /\ index = Given(durable)
      BY <2>1 DEF ChunksInv, RowsInv, IndexInv, NotBegun
    <3>. QED
      BY <3>1
  <2>2. ASSUME back.how = "ok" PROVE index = Given(durable \cup stream.durable)
    <3>1. at = "over"
      BY <2>2 DEF ChunksInv, RowsInv
    <3>2. durable = {} /\ index = Given(stream.durable)
      BY <2>2, <3>1 DEF ChunksInv, IndexInv
    <3>. QED
      BY <3>2
  <2>3. ASSUME at = "chunk", stream.tx PROVE asks = Given(stream.durable)
    <3>1. stream.durable = {} /\ asks = 1
      BY <2>3 DEF ChunksInv, RowsInv, IndexInv, Begun
    <3>. QED
      BY <3>1, GivenFacts
  <2>. QED
    BY <2>1, <2>2, <2>3 DEF ReadsFollowWrites
<1>. QED
  BY <1>1, ChunksInvariance, PTL

-----------------------------------------------------------------------------
(* Where the steps of the first chunk are: it has the first of them all, if *)
(* the text has any, since a chunk that another follows is full.            *)
FirstInv ==
  /\ ran # <<>> => ran[1].chunk = 1
  /\ at \in {"next", "chunk"} /\ chunks > 0 => ran # <<>>
  /\ at = "read" => Len(ran) = Cardinality(Writes)
  /\ back.how = "panic" => query /\ Writes = {}

(* The text, and who asked for it, stay the same.                           *)
LEMMA SameCall ==
  ASSUME [ExecNext]_<<vars, chunkVars>>
  PROVE  text' = text /\ query' = query /\ Writes' = Writes
<1>1. UNCHANGED call
  BY DEF ExecNext, AsOneRequest, ExecuteInChunks, ChunksOver, vars, Next,
     ServerRejects, ServerStarts, StepSucceeds, StepFails, StepIsSkipped, ServerAnswers,
     ReadsError, ReturnsResult, ReturnsRows, NextResultSet, RowsClose, Over
<1>. QED
  BY <1>1 DEF call, Writes

(* Every step keeps the first chunk where it is.                            *)
LEMMA FirstNext ==
  ASSUME ChunksInv, FirstInv, [ExecNext]_<<vars, chunkVars>>
  PROVE  FirstInv'
<1>1. text' = text /\ query' = query /\ Writes' = Writes
  BY SameCall
<1>2. /\ ran \in Seq(RanStep) /\ Len(ran) \in Nat /\ chunks \in Nat
      /\ chunk \in Seq(Nat) /\ Len(chunk) \in Nat /\ step \in Nat
  BY DEF ChunksInv, ChunkTypes
<1>3. CASE AsOneRequest \/ UNCHANGED <<vars, chunkVars>>
  BY <1>1, <1>3 DEF AsOneRequest, chunkVars, FirstInv
<1>4. CASE TakesChunk
  BY <1>1, <1>4 DEF TakesChunk, FirstInv
<1>5. CASE ExecutesSingle \/ LosesChunk
  BY <1>1, <1>5 DEF ExecutesSingle, LosesChunk, GivesError, Gives, FirstInv
<1>6. CASE BeginsChunks
  <2>1. /\ UNCHANGED <<ran, chunks>> /\ chunks = 0 /\ at' # "read" /\ at' # "next"
        /\ back' = back \/ back'.how = "error"
    BY <1>6 DEF BeginsChunks, GivesError, Gives, ChunksInv, InTurn
  <2>. QED
    BY <1>1, <2>1 DEF FirstInv
<1>7. CASE ExecutesStep
  <2>1. PICK r : r.chunk = chunks + 1 /\ ran' = Append(ran, r)
    BY <1>7 DEF ExecutesStep
  <2>2. at = "chunk" /\ UNCHANGED <<at, chunks, back>>
    BY <1>7 DEF ExecutesStep
  <2>3. ran' # <<>> /\ ran'[1] = IF ran = <<>> THEN r ELSE ran[1]
    BY <1>2, <2>1
  <2>4. ran = <<>> => chunks = 0
    BY <1>2, <2>2 DEF FirstInv
  <2>. QED
    BY <1>1, <2>1, <2>2, <2>3, <2>4 DEF FirstInv
<1>8. CASE ReadsChunk
  <2>1. /\ at = "chunk" /\ step = Len(Steps) /\ UNCHANGED <<ran, back>>
        /\ at' = IF eof THEN "commit" ELSE "next"
    BY <1>8 DEF ReadsChunk
  <2>2. Taken
    BY <2>1 DEF ChunksInv, InTurn
  <2>3. step = Len(chunk)
    BY <2>1, StepsAreTheChunk
  <2>4. at' = "next" => ran # <<>>
    <3>1. ASSUME at' = "next" PROVE Len(ran) > 0
      <4>1. Len(chunk) >= ChunkSize
        BY <2>1, <2>2, <3>1, <1>2, ExecAssumption DEF Taken
      <4>. QED
        BY <4>1, <2>2, <2>3, <1>2, ExecAssumption DEF Taken
    <3>. QED
      BY <3>1
  <2>. QED
    BY <1>1, <2>1, <2>4 DEF FirstInv
<1>9. CASE CommitsChunks
  <2>1. /\ at = "commit" /\ UNCHANGED <<ran, chunks>> /\ at' \in {"read", "over"}
        /\ back' = back \/ back'.how = "error"
    BY <1>9 DEF CommitsChunks, AfterCommitError, GivesError, Gives
  <2>2. Len(ran) = Cardinality(Writes)
    BY <2>1 DEF ChunksInv, InTurn
  <2>. QED
    BY <1>1, <2>1, <2>2 DEF FirstInv
<1>10. CASE ReadsChunkResults
  <2>1. /\ at = "read" /\ at' = "over" /\ UNCHANGED ran
        /\ back'.how = "panic" => query /\ FirstSteps = {}
    BY <1>10 DEF ReadsChunkResults, GivesError, Gives
  <2>2. ASSUME FirstSteps = {} PROVE Writes = {}
    <3>1. ran = <<>>
      <4>1. ran # <<>> => 1 \in FirstSteps
        BY <1>2 DEF FirstInv, FirstSteps
      <4>. QED
        BY <4>1, <2>2
    <3>2. Cardinality(Writes) = 0
      BY <2>1, <3>1 DEF FirstInv
    <3>3. IsFiniteSet(Writes)
      BY WritesFinite DEF ChunksInv, ChunkTypes
    <3>. QED
      BY <3>2, <3>3, FS_EmptySet
  <2>. QED
    BY <1>1, <2>1, <2>2 DEF FirstInv
<1>. QED
  BY <1>3, <1>4, <1>5, <1>6, <1>7, <1>8, <1>9, <1>10
  DEF ExecNext, ExecuteInChunks, ChunksOver

(* The actions of a text sent as one request are those of Batch, and the    *)
(* chunks leave its variables alone: what Batch says of a request holds of  *)
(* the requests executeStmt sends as one.  It says nothing of chunks.       *)
LEMMA RequestsAreBatches == ExecSpec => Spec
<1>1. ExecInit => Init
  BY DEF ExecInit
<1>2. [ExecNext]_<<vars, chunkVars>> => [Next]_vars
  BY DEF ExecNext, AsOneRequest, ExecuteInChunks, ChunksOver
<1>. QED
  BY <1>1, <1>2, PTL DEF ExecSpec, Spec

(* Neither ExecContext nor QueryContext nor the rows index a result that is *)
(* not there, but for QueryContext of a long text without ordinary          *)
(* statements.                                                              *)
THEOREM PanicFree == ExecSpec => []PanicsOnlyWithoutStatements
<1>1. ExecInit => FirstInv
  BY DEF ExecInit, FirstInv
<1>2. DriverInv /\ FirstInv => PanicsOnlyWithoutStatements
  BY DEF DriverInv, FirstInv, PanicsOnlyWithoutStatements
<1>3. ExecSpec => []FirstInv
  BY <1>1, FirstNext, ChunksInvariance, PTL DEF ExecSpec
<1>. QED
  BY <1>2, <1>3, RequestsAreBatches, ReadsInvariance, PTL
=============================================================================
