------------------------------- MODULE TxStore -------------------------------
(***************************************************************************)
(* What a program that uses transactions expects of its database, without   *)
(* connections, streams, batons, requests or faults: a transaction takes    *)
(* effect at once with everything that was acknowledged in it, and only if  *)
(* its COMMIT was asked for; a statement outside a transaction takes effect *)
(* by itself; and what the program is told is so.                           *)
(*                                                                          *)
(* hranaV2.go promises it between the lines: BeginTx, Commit and Rollback   *)
(* (199-221) are a database/sql/driver.Tx, and the comment on IsValid       *)
(* (119) says that a connection inside a transaction keeps its stream.      *)
(***************************************************************************)
CONSTANTS
  Stmt,       \* the statements a program may execute
  NotIssued,  \* a statement nobody has issued yet
  Tx,         \* transactions
  NoTx        \* outside a transaction

VARIABLES
  issued,     \* the transaction each statement was issued in
  durable,    \* the statements that have taken effect
  acked,      \* the statements the program was told have been executed
  asked, committed, rolledBack,  \* transactions whose COMMIT was asked for,
              \* and those the program was told are committed or rolled back
  doubtful    \* statements issued outside a transaction while the program's
              \* last one may be open: it ended with an error

told == <<acked, asked, committed, rolledBack>>
storeVars == <<issued, durable, told, doubtful>>

Init ==
  /\ issued = [s \in Stmt |-> NotIssued]
  /\ durable = {} /\ acked = {} /\ doubtful = {}
  /\ asked = {} /\ committed = {} /\ rolledBack = {}

In(tx) == {s \in Stmt : issued[s] = tx}
HasTakenEffect(tx) == In(tx) \cap durable # {}

Issues ==
  /\ \E S \in SUBSET In(NotIssued), tx \in Tx \cup {NoTx} :
       issued' = [s \in Stmt |-> IF s \in S THEN tx ELSE issued[s]]
  /\ \E D \in SUBSET (In(NoTx)' \ acked) : doubtful' = doubtful \cup D
  /\ UNCHANGED <<durable, told>>

AsksForCommit ==
  /\ \E tx \in Tx : asked' = asked \cup {tx}
  /\ UNCHANGED <<issued, durable, acked, committed, rolledBack, doubtful>>

(* All of a transaction that was acknowledged, and what the answer to a      *)
(* statement did not arrive of, at once; once; and not after a ROLLBACK.     *)
TakesEffect(tx) ==
  /\ tx \in asked \ rolledBack
  /\ ~HasTakenEffect(tx)
  /\ \E S \in SUBSET (In(tx) \cup In(NoTx)) :
       /\ In(tx) \cap acked \subseteq S
       /\ durable' = durable \cup S
  /\ UNCHANGED <<issued, told, doubtful>>

(* A statement outside a transaction.                                       *)
TakesEffectAlone ==
  /\ \E S \in SUBSET In(NoTx) : durable' = durable \cup S
  /\ UNCHANGED <<issued, told, doubtful>>

(* A statement is acknowledged while its transaction is open, or it has      *)
(* taken effect.                                                            *)
Acknowledges ==
  /\ \E S \in SUBSET Stmt :
       /\ \A s \in S :
            \/ s \in durable \cup doubtful
            \/ /\ issued[s] \in Tx \ committed
               /\ ~HasTakenEffect(issued[s])
       /\ acked' = acked \cup S
  /\ UNCHANGED <<issued, durable, asked, committed, rolledBack, doubtful>>

TellsCommitted(tx) ==
  /\ In(tx) \cap acked \subseteq durable
  /\ committed' = committed \cup {tx}
  /\ UNCHANGED <<issued, durable, acked, asked, rolledBack, doubtful>>

TellsRolledBack(tx) ==
  /\ ~HasTakenEffect(tx)
  /\ rolledBack' = rolledBack \cup {tx}
  /\ UNCHANGED <<issued, durable, acked, asked, committed, doubtful>>

Next ==
  \/ Issues \/ AsksForCommit \/ TakesEffectAlone \/ Acknowledges
  \/ \E tx \in Tx :
       TakesEffect(tx) \/ TellsCommitted(tx) \/ TellsRolledBack(tx)

Spec == Init /\ [][Next]_storeVars
=============================================================================
