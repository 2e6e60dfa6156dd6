------------------------------ MODULE ConnPool ------------------------------
(***************************************************************************)
(* Goroutines that each execute statements through database/sql on a pool  *)
(* of hranaV2 connections.  database/sql is modelled from what the driver   *)
(* and its comments rely on (README.md:29-37, hranaV2.go:97-122): DB.retry  *)
(* makes two attempts with a cached connection and one with a new one, and  *)
(* a pool that has reached MaxOpen makes a goroutine wait for whatever      *)
(* connection comes free first.  Of a connection only what the pool can     *)
(* see is kept: whether its stream is closed (HranaConn has the rest).  A   *)
(* text is one request to the driver, or, if it is long, BEGIN, a number of *)
(* chunks and COMMIT.                                                       *)
(***************************************************************************)
EXTENDS Naturals, FiniteSets

CONSTANTS
  Goroutine,
  Long,     \* those whose texts may be long
  Conn,     \* as many as MaxOpenConns allows
  NoConn,
  MaxIdle   \* MaxIdleConns

ASSUME PoolAssumption ==
  /\ IsFiniteSet(Conn) /\ Conn # {} /\ NoConn \notin Conn
  /\ MaxIdle \in Nat
  /\ Long \subseteq Goroutine

MaxOpen == Cardinality(Conn)
Attempts == 3              \* maxBadConnRetries + 1

VARIABLES
  closed,    \* open connections whose streamClosed is set
  free,      \* freeConn
  numOpen,   \* connections open or being opened
  opening,   \* connections the opener goroutine was asked for
  pc,        \* what each goroutine does
  has,       \* the connection it holds
  attempt,   \* which attempt of DB.retry it is in
  pinned,    \* it keeps its connection for more statements (a sql.Conn)
  part,      \* the request its text is at: "all" of it, or "begin", "chunk"
             \* or "commit" of a text in chunks
  outcome,   \* how its text ended, as the driver returned it
  executed,  \* ghost: the attempts that left something of it in the database
  torn       \* ghost: those whose transaction the server gave up at a chunk

pool == <<free, numOpen, opening>>
ghosts == <<executed, torn>>
vars == <<closed, pool, pc, has, attempt, pinned, part, outcome, ghosts>>

Init ==
  /\ closed = {} /\ free = {}
  /\ numOpen = 0 /\ opening = 0
  /\ pc = [g \in Goroutine |-> "idle"]
  /\ has = [g \in Goroutine |-> NoConn]
  /\ attempt = [g \in Goroutine |-> 1]
  /\ pinned = [g \in Goroutine |-> FALSE]
  /\ part = [g \in Goroutine |-> "all"]
  /\ outcome = [g \in Goroutine |-> "none"]
  /\ executed = [g \in Goroutine |-> {}]
  /\ torn = [g \in Goroutine |-> {}]

-----------------------------------------------------------------------------
(* The pool.                                                                *)
Held == {has[g] : g \in Goroutine} \ {NoConn}
Waiting == {g \in Goroutine : pc[g] = "wait"}
Unused == Conn \ (Held \cup free)

(* hranaV2.Connect: a connection that has not used its stream yet.          *)
NewConn(c) == closed' = closed \ {c}

(* A text of either length, nothing of which has been sent yet.             *)
Text(g) ==
  /\ \E first \in {"all"} \cup (IF g \in Long THEN {"begin"} ELSE {}) :
       part' = [part EXCEPT ![g] = first]
  /\ executed' = [executed EXCEPT ![g] = {}]
  /\ torn' = [torn EXCEPT ![g] = {}]

(* DB.Exec. *)
Exec(g) ==
  /\ pc[g] = "idle"
  /\ Text(g)
  /\ pc' = [pc EXCEPT ![g] = "conn"]
  /\ attempt' = [attempt EXCEPT ![g] = 1]
  /\ pinned' = [pinned EXCEPT ![g] = FALSE]
  /\ outcome' = [outcome EXCEPT ![g] = "none"]
  /\ UNCHANGED <<closed, pool, has>>

Receives(g, c) ==
  /\ has' = [has EXCEPT ![g] = c]
  /\ pc' = [pc EXCEPT ![g] = "exec"]

(* DB.conn: cachedOrNewConn in all attempts but the last, alwaysNewConn.    *)
TakesFree(g) ==
  /\ pc[g] = "conn" /\ attempt[g] < Attempts
  /\ \E c \in free : Receives(g, c) /\ free' = free \ {c}
  /\ UNCHANGED <<closed, numOpen, opening, attempt, pinned, part, outcome, ghosts>>

Opens(g) ==
  /\ pc[g] = "conn" /\ (free = {} \/ attempt[g] = Attempts)
  /\ numOpen < MaxOpen
  /\ numOpen' = numOpen + 1
  /\ \E c \in Unused : Receives(g, c) /\ NewConn(c)
  /\ UNCHANGED <<free, opening, attempt, pinned, part, outcome, ghosts>>

Waits(g) ==
  /\ pc[g] = "conn" /\ (free = {} \/ attempt[g] = Attempts)
  /\ numOpen >= MaxOpen
  /\ pc' = [pc EXCEPT ![g] = "wait"]
  /\ UNCHANGED <<closed, pool, has, attempt, pinned, part, outcome, ghosts>>

(* maybeOpenNewConnections, with n connections open. *)
MaybeOpen(n) ==
  LET wanted == Cardinality(Waiting)
      more == IF wanted < MaxOpen - n THEN wanted ELSE MaxOpen - n
  IN  /\ numOpen' = n + more
      /\ opening' = opening + more

(* The opener goroutine: to a goroutine that waits, else to the free list,  *)
(* or closed if that is full.                                               *)
OpenerDelivers ==
  /\ opening > 0
  /\ \E c \in Unused :
       /\ NewConn(c)
       /\ IF Waiting # {}
          THEN /\ \E g \in Waiting : Receives(g, c)
               /\ opening' = opening - 1
               /\ UNCHANGED <<free, numOpen>>
          ELSE /\ UNCHANGED <<has, pc>>
               /\ opening' = opening - 1
               /\ IF Cardinality(free) < MaxIdle
                  THEN free' = free \cup {c} /\ UNCHANGED numOpen
                  ELSE numOpen' = numOpen - 1 /\ UNCHANGED free
  /\ UNCHANGED <<attempt, pinned, part, outcome, ghosts>>

-----------------------------------------------------------------------------
(* The driver.                                                              *)
IsValidAlways(c) == TRUE       \* mutant: the driver has no Validator
IsValid(c) == c \notin closed

(* What sendPipelineRequest returns for a request that was sent but whose   *)
(* answer was lost.                                                         *)
LostAnswerBadConn == "ErrBadConn"  \* mutant: asks database/sql to try again
LostAnswer == "error"

(* sendPipelineRequest refuses every request, the first of a text or one of *)
(* its chunks or its COMMIT, when the stream is closed; executeInChunks     *)
(* wraps the error, and database/sql still sees what it is.                 *)
Refuses(g) ==
  /\ pc[g] = "exec" /\ has[g] \in closed
  /\ outcome' = [outcome EXCEPT ![g] = "ErrBadConn"]
  /\ pc' = [pc EXCEPT ![g] = "put"]
  /\ UNCHANGED <<closed, pool, has, attempt, pinned, part, ghosts>>

Sends(g) == pc[g] = "exec" /\ has[g] \notin closed
TakesEffect(g) == executed' = [executed EXCEPT ![g] = @ \cup {attempt[g]}]
MayTakeEffect(g) ==
  \/ part[g] # "begin" /\ TakesEffect(g)
  \/ UNCHANGED executed
Ends(g, result) ==
  /\ outcome' = [outcome EXCEPT ![g] = result]
  /\ pc' = [pc EXCEPT ![g] = "put"]
  /\ UNCHANGED <<pool, has, attempt, pinned, part, torn>>

(* The server has executed all of the text, or its COMMIT, and in general   *)
(* closes the stream; a transaction of the program (not modelled) would     *)
(* keep it.                                                                 *)
Answered(g) ==
  /\ Sends(g)
  /\ part[g] \in {"all", "commit"} /\ attempt[g] \notin torn[g]
  /\ TakesEffect(g)
  /\ Ends(g, "ok")
  /\ closed' \in {closed, closed \cup {has[g]}}

(* The stream is in a transaction now, and kept.                            *)
Begun(g) ==
  /\ Sends(g) /\ part[g] = "begin"
  /\ part' = [part EXCEPT ![g] = "chunk"]
  /\ UNCHANGED <<closed, pool, pc, has, attempt, pinned, outcome, ghosts>>

(* A chunk is answered; nobody looks at how its steps went (HranaConn has   *)
(* them).  One that failed may have taken the transaction with it: the      *)
(* steps after it took effect by themselves, and the server in general      *)
(* closes the stream.                                                       *)
ChunkAnswered(g) ==
  /\ Sends(g) /\ part[g] = "chunk"
  /\ \E then \in {"chunk", "commit"} : part' = [part EXCEPT ![g] = then]
  /\ \/ UNCHANGED <<closed, ghosts>>
     \/ /\ torn' = [torn EXCEPT ![g] = @ \cup {attempt[g]}]
        /\ MayTakeEffect(g)
        /\ closed' \in {closed, closed \cup {has[g]}}
  /\ UNCHANGED <<pool, pc, has, attempt, pinned, outcome>>

(* Another status than 200, or an error in the answer, whether or not the   *)
(* request took effect.                                                     *)
Failed(g) ==
  /\ Sends(g)
  /\ MayTakeEffect(g)
  /\ Ends(g, "error")
  /\ closed' = closed \cup {has[g]}

(* No answer, or one with an error that leaves the stream open.             *)
Lost(g) ==
  /\ Sends(g)
  /\ MayTakeEffect(g)
  /\ Ends(g, LostAnswer)
  /\ UNCHANGED closed

-----------------------------------------------------------------------------
(* sql.Conn: another statement on the same connection, and without retry.   *)
ExecPinned(g) ==
  /\ pc[g] = "put" /\ outcome[g] # "ErrBadConn"
  /\ pc' = [pc EXCEPT ![g] = "exec"]
  /\ pinned' = [pinned EXCEPT ![g] = TRUE]
  /\ Text(g)
  /\ UNCHANGED <<closed, pool, has, attempt, outcome>>

(* The connection goes back to the pool: handed to a goroutine that waits,  *)
(* put on the free list, or closed if that is full or the driver says it is *)
(* no good.  Then DB.retry tries again, or DB.Exec returns.                 *)
NoGood(g) == outcome[g] = "ErrBadConn" \/ ~IsValid(has[g])
Retries(g) ==
  outcome[g] = "ErrBadConn" /\ attempt[g] < Attempts /\ ~pinned[g]
GoesOn(g) ==
  /\ attempt' = IF Retries(g) THEN [attempt EXCEPT ![g] = @ + 1] ELSE attempt
  /\ part' = IF Retries(g) /\ part[g] # "all" THEN [part EXCEPT ![g] = "begin"] ELSE part
  /\ UNCHANGED <<pinned, outcome, ghosts>>
ThenAt(g) == IF Retries(g) THEN "conn" ELSE "idle"

HandsOver(g, w) ==
  /\ pc[g] = "put" /\ ~NoGood(g) /\ w \in Waiting
  /\ has' = [has EXCEPT ![g] = NoConn, ![w] = has[g]]
  /\ pc' = [pc EXCEPT ![g] = ThenAt(g), ![w] = "exec"]
  /\ GoesOn(g)
  /\ UNCHANGED <<closed, pool>>

PutsBack(g) ==
  /\ pc[g] = "put" /\ ~NoGood(g) /\ Waiting = {}
  /\ Cardinality(free) < MaxIdle
  /\ free' = free \cup {has[g]}
  /\ has' = [has EXCEPT ![g] = NoConn]
  /\ pc' = [pc EXCEPT ![g] = ThenAt(g)]
  /\ GoesOn(g)
  /\ UNCHANGED <<closed, numOpen, opening>>

(* The pool asks for connections both before and after the Close.           *)
Discards(g) ==
  /\ pc[g] = "put"
  /\ \/ NoGood(g) /\ MaybeOpen(numOpen)
     \/ /\ ~NoGood(g) /\ Waiting = {} /\ Cardinality(free) >= MaxIdle
        /\ UNCHANGED <<numOpen, opening>>
  /\ pc' = [pc EXCEPT ![g] = "close"]
  /\ UNCHANGED <<closed, free, has, attempt, pinned, part, outcome, ghosts>>

CloseConn(g) ==
  /\ pc[g] = "close"
  /\ has' = [has EXCEPT ![g] = NoConn]
  /\ MaybeOpen(numOpen - 1)
  /\ pc' = [pc EXCEPT ![g] = ThenAt(g)]
  /\ GoesOn(g)
  /\ closed' = closed \ {has[g]}
  /\ UNCHANGED free

Next ==
  \/ OpenerDelivers
  \/ \E g \in Goroutine :
       \/ Exec(g) \/ TakesFree(g) \/ Opens(g) \/ Waits(g)
       \/ Refuses(g) \/ Answered(g) \/ Failed(g) \/ Lost(g)
       \/ Begun(g) \/ ChunkAnswered(g)
       \/ \E w \in Goroutine : HandsOver(g, w)
       \/ ExecPinned(g) \/ PutsBack(g) \/ Discards(g) \/ CloseConn(g)

Spec == Init /\ [][Next]_vars

-----------------------------------------------------------------------------
(* README.md:24-37: a connection the server has closed is not handed out    *)
(* again, so "bad connection" reaches no caller, however many goroutines    *)
(* compete for a saturated pool; only one that keeps its connection for a   *)
(* second statement gets it, or one whose long text has lost its            *)
(* transaction at a chunk in every attempt.                                 *)
BadConnOnlyWhenPinned ==
  \A g \in Goroutine :
    pc[g] = "idle" /\ outcome[g] = "ErrBadConn"
      => pinned[g] \/ torn[g] = 1..Attempts

(* A retry repeats nothing of a text, unless it is in chunks, and every     *)
(* attempt before lost its transaction at a chunk: whatever else happens to *)
(* a request, the driver does not ask for another attempt.                  *)
RepeatedOnlyWhenTorn ==
  \A g \in Goroutine : \A a, b \in executed[g] :
    a < b => a \in torn[g] /\ part[g] # "all"

(* hranaV2.go:394: chunks run in a transaction, so that a text of which an  *)
(* attempt came to nothing can be tried again.  Not so: the steps after one *)
(* that takes the transaction with it take effect, the next request is      *)
(* refused with ErrBadConn, and database/sql sends the whole text again.    *)
ExecutedAtMostOnce == \A g \in Goroutine : Cardinality(executed[g]) <= 1
=============================================================================
