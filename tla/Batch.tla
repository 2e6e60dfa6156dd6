-------------------------------- MODULE Batch --------------------------------
(***************************************************************************)
(* One call of ExecContext or QueryContext with a text of any number of     *)
(* statements that goes out as one request (ExecStmt has the texts that go  *)
(* out in chunks): the request executeStmt builds of it (hranaV2.go and     *)
(* internal/hrana/stream_request.go), its execution step by step on a       *)
(* stream, and what the driver makes of the results.                        *)
(*                                                                          *)
(* The statements that begin and end transactions are told apart; every     *)
(* other one is a write, which inserts one row.  A row is named by the      *)
(* position of its write, which is also its rowid.                          *)
(***************************************************************************)
EXTENDS Naturals, Sequences, FiniteSets, SequencesExt

CONSTANT MaxStmts   \* bound: statements in the text

ASSUME BatchAssumption == MaxStmts \in Nat

Statement == {"begin", "commit", "rollback", "write"}

VARIABLES
  text,      \* the statements of the text
  query,     \* QueryContext, not ExecContext
  schemaDb,  \* the connection is to a schema database
  inTx,      \* the stream has a transaction open when the request comes
  phase,     \* "request", "batch", "read", "rows" or "over"
  results,   \* what has come of each step so far
  tx,        \* the stream has a transaction open
  pending, durable,  \* rows inserted by the text: uncommitted, committed
  outcome,   \* what the call returned
  affected, lastRowId,  \* the driver.Result
  set        \* the current result set of the driver.Rows

call == <<text, query, schemaDb, inTx>>
server == <<results, tx, pending, durable>>
client == <<outcome, affected, lastRowId, set>>
vars == <<call, phase, server, client>>

Texts == BoundedSeq(Statement, MaxStmts)

Init ==
  /\ text \in Texts
  /\ query \in BOOLEAN /\ schemaDb \in BOOLEAN /\ inTx \in BOOLEAN
  /\ phase = "request"
  /\ results = <<>>
  /\ tx = inTx
  /\ pending = {} /\ durable = {}
  /\ outcome = "none"
  /\ affected = 0 /\ lastRowId = 0
  /\ set = 0

-----------------------------------------------------------------------------
(* The request.  A text of one statement is executed as such; any other is  *)
(* a batch, and but for schema databases each step of it runs only if the   *)
(* one before succeeded, and a ROLLBACK only if the last did not.           *)
Single == Len(text) = 1
Transactional == ~schemaDb /\ ~Single

Always == [type |-> "always", step |-> 0]
ConditionAlways(i) == Always   \* mutant: no conditions
ConditionOnFirst(i) ==         \* mutant: every step waits for the first only
  IF Transactional /\ i > 1 THEN [type |-> "ok", step |-> 1] ELSE Always
Condition(i) ==
  IF Transactional /\ i > 1 THEN [type |-> "ok", step |-> i - 1] ELSE Always

RollbackIfFirstFailed == [type |-> "not", step |-> 1]  \* mutant
RollbackCondition == [type |-> "not", step |-> Len(text)]

StepCount == IF Transactional THEN Len(text) + 1 ELSE Len(text)
Step(i) ==
  IF i <= Len(text) THEN [stmt |-> text[i], cond |-> Condition(i)]
                    ELSE [stmt |-> "rollback", cond |-> RollbackCondition]

(* A condition may only be about an earlier step. *)
WellFormed ==
  \A i \in 1..StepCount :
    Step(i).cond # Always => Step(i).cond.step \in 1..(i - 1)

Fails(what) ==
  /\ outcome' = what
  /\ phase' = "over"
  /\ UNCHANGED <<affected, lastRowId, set>>

ServerRejects ==
  /\ phase = "request" /\ ~WellFormed
  /\ Fails("error")
  /\ UNCHANGED <<call, server>>

ServerStarts ==
  /\ phase = "request" /\ WellFormed
  /\ phase' = "batch"
  /\ UNCHANGED <<call, server, client>>

-----------------------------------------------------------------------------
(* The server executes the steps in order.                                  *)
At == Len(results) + 1
ThisStep == Step(At)

Holds(cond) ==
  CASE cond.type = "always" -> TRUE
    [] cond.type = "ok"     -> results[cond.step] = "ok"
    [] cond.type = "not"    -> results[cond.step] # "ok"

Runs == phase = "batch" /\ At <= StepCount /\ Holds(ThisStep.cond)

Is(stmt) == ThisStep.stmt = stmt

Write ==
  /\ Is("write")
  /\ IF tx THEN pending' = pending \cup {At} /\ UNCHANGED durable
           ELSE durable' = durable \cup {At} /\ UNCHANGED pending
  /\ UNCHANGED tx

Begin ==
  /\ Is("begin") /\ ~tx
  /\ tx' = TRUE
  /\ UNCHANGED <<pending, durable>>

Commit ==
  /\ Is("commit") /\ tx
  /\ tx' = FALSE
  /\ durable' = durable \cup pending /\ pending' = {}

Rollback ==
  /\ Is("rollback") /\ tx
  /\ tx' = FALSE
  /\ pending' = {} /\ UNCHANGED durable

StepSucceeds ==
  /\ Runs
  /\ Write \/ Begin \/ Commit \/ Rollback
  /\ results' = Append(results, "ok")
  /\ UNCHANGED <<call, phase, client>>

(* A statement that fails may take the transaction with it; a ROLLBACK      *)
(* fails only without one.                                                  *)
StepFails ==
  /\ Runs
  /\ Is("rollback") => ~tx
  /\ \/ UNCHANGED <<tx, pending>>
     \/ Is("write") /\ tx /\ tx' = FALSE /\ pending' = {}
  /\ results' = Append(results, "error")
  /\ UNCHANGED <<call, phase, durable, client>>

StepIsSkipped ==
  /\ phase = "batch" /\ At <= StepCount /\ ~Holds(ThisStep.cond)
  /\ results' = Append(results, "none")
  /\ UNCHANGED <<call, phase, tx, pending, durable, client>>

ServerAnswers ==
  /\ phase = "batch" /\ At > StepCount
  /\ phase' = "read"
  /\ UNCHANGED <<call, server, client>>

-----------------------------------------------------------------------------
(* The driver reads the answer.  An error of any step is the call's.        *)
LastStepFailed == Len(results) > 0 /\ Last(results) = "error"  \* mutant
SomeStepFailed == \E i \in DOMAIN results : results[i] = "error"

ReadsError ==
  /\ phase = "read" /\ SomeStepFailed
  /\ Fails("error")
  /\ UNCHANGED <<call, server>>

(* How many of the results are of statements.                               *)
AllResults == Len(results)     \* mutant: the ROLLBACK's is not dropped
AllButLast == IF Len(results) > 1 THEN Len(results) - 1 ELSE Len(results)  \* mutant
StmtResults == IF Transactional THEN Len(results) - 1 ELSE Len(results)

(* A nil pointer or a slice out of range. *)
Panics ==
  IF query THEN Transactional /\ results = <<>>
           ELSE \E i \in 1..StmtResults : results[i] = "none"

(* ExecContext adds up the rows and keeps the last rowid.                   *)
Inserts == {i \in 1..StmtResults : Step(i).stmt = "write"}

ReturnsResult ==
  /\ phase = "read" /\ ~SomeStepFailed /\ ~query
  /\ affected' = Cardinality(Inserts)
  /\ lastRowId' = IF Inserts = {} THEN 0
                  ELSE CHOOSE i \in Inserts : \A j \in Inserts : j <= i
  /\ outcome' = IF Panics THEN "panic" ELSE "ok"
  /\ phase' = "over"
  /\ UNCHANGED <<call, server, set>>

(* QueryContext returns rows; the application goes from one result set to   *)
(* the next.                                                                *)
ReturnsRows ==
  /\ phase = "read" /\ ~SomeStepFailed /\ query
  /\ outcome' = IF Panics THEN "panic" ELSE "ok"
  /\ phase' = IF Panics THEN "over" ELSE "rows"
  /\ UNCHANGED <<call, server, affected, lastRowId, set>>

HasNextResultSet == set + 1 < StmtResults

NextResultSet ==
  /\ phase = "rows" /\ HasNextResultSet
  /\ set' = set + 1
  /\ IF results[set + 2] = "none"
     THEN outcome' = "no results" /\ phase' = "over"
     ELSE UNCHANGED <<outcome, phase>>
  /\ UNCHANGED <<call, server, affected, lastRowId>>

RowsClose ==
  /\ phase = "rows" /\ ~HasNextResultSet
  /\ phase' = "over"
  /\ UNCHANGED <<call, server, client>>

Over == phase = "over" /\ UNCHANGED vars

Next ==
  \/ ServerRejects \/ ServerStarts
  \/ StepSucceeds \/ StepFails \/ StepIsSkipped \/ ServerAnswers
  \/ ReadsError \/ ReturnsResult
  \/ ReturnsRows \/ NextResultSet \/ RowsClose \/ Over

Spec == Init /\ [][Next]_vars

-----------------------------------------------------------------------------
Writes == {i \in 1..Len(text) : text[i] = "write"}

(* Nothing of a text sent as one request runs after a statement of it that  *)
(* failed.                                                                  *)
NothingRunsAfterAFailure ==
  Transactional =>
    \A i, j \in DOMAIN results :
      i < j /\ j <= Len(text) /\ results[i] # "ok" => results[j] = "none"

(* A text that failed leaves no transaction open, and nothing of it that a  *)
(* later COMMIT could make durable.                                         *)
FailureLeavesNoTransaction ==
  phase = "over" /\ outcome = "error" /\ Transactional /\ WellFormed
    => ~tx /\ pending = {}

(* A text that runs inside one transaction, be it its own or one that was   *)
(* open before, becomes durable as a whole or not at all.                   *)
Enclosed ==
  /\ Transactional /\ Len(text) > 1
  /\ text[1] = IF inTx THEN "write" ELSE "begin"
  /\ \A i \in 2..(Len(text) - 1) : text[i] = "write"
EnclosedTextIsAtomic == Enclosed => durable \in {{}, Writes}

(* The driver reports success only if every statement succeeded, and then   *)
(* every row is somewhere: durable, or in the transaction still open, or    *)
(* rolled back by a statement of the text.                                  *)
SuccessIsComplete ==
  outcome = "ok" =>
    /\ \A i \in DOMAIN text : results[i] = "ok"
    /\ (\A i \in DOMAIN text : text[i] # "rollback")
         => durable \cup pending = Writes

(* What the driver reads of a text that succeeded is the results of all its *)
(* statements and no other: ExecContext counts all their rows, and the      *)
(* result sets the application walks through are one for each, none of them *)
(* without a result.                                                        *)
ReadsEveryResult ==
  /\ outcome = "ok" /\ ~query =>
       /\ affected = Cardinality(Writes)
       /\ \A i \in Writes : i <= lastRowId
  /\ phase = "over" /\ outcome = "ok" /\ query /\ text # <<>>
       => set + 1 = Len(text)
  /\ outcome # "no results"
=============================================================================
