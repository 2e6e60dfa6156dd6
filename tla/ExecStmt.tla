------------------------------- MODULE ExecStmt -------------------------------
(***************************************************************************)
(* executeStmt with its two ways to execute a text (hranaV2.go): as one     *)
(* request (Batch), or, when it is longer than 20 MB and has no arguments,  *)
(* in chunks inside a transaction of their own (executeInChunks).           *)
(*                                                                          *)
(* The chunks go out in one message that is used again and again: its steps *)
(* point into the slots of the chunker, which the next chunk overwrites,    *)
(* and its replication index is that of its first sending.  By this index a *)
(* replica knows how far it must be for the connection to see its own rows. *)
(***************************************************************************)
EXTENDS Batch

CONSTANT ChunkSize   \* stands for 4096

ASSUME ExecAssumption == ChunkSize \in Nat \ {0}

VARIABLES
  at,      \* where executeInChunks stands; "off" if the text is short
  next,    \* the next statement the iterator will read
  chunk,   \* the statements of the current chunk, by their positions
  eof,     \* the iterator is at the end of the text
  slots,   \* the array behind the chunks
  stream,  \* the stream: in a transaction? and the rows inserted
  ran,     \* the steps executed: which statement, in which chunk, and if it
           \* succeeded
  chunks,  \* chunks sent
  step,    \* steps of the current chunk executed
  index,   \* the highest replication index the connection has been given
  asks,    \* the replication index in the message of the chunks
  back     \* what the call returned: how, rows affected or result sets

chunker == <<next, chunk, eof, slots>>
chunkVars == <<at, chunker, stream, ran, chunks, step, index, asks, back>>

NoSlot == 0     \* no statement has been put there yet

ExecInit ==
  /\ Init
  /\ at \in IF schemaDb THEN {"off"} ELSE {"off", "next"}
  /\ next = 1 /\ eof = FALSE
  /\ chunk = <<>> /\ slots = [i \in 1..ChunkSize |-> NoSlot]
  /\ stream = [tx |-> inTx, pending |-> {}, durable |-> {}]
  /\ ran = <<>> /\ chunks = 0 /\ step = 0
  /\ index \in 0..1 /\ asks = 0
  /\ back = [how |-> "none", count |-> 0]

-----------------------------------------------------------------------------
(* The index a result is given with: it grows with all that is durable.     *)
Given(rows) == 1 + Cardinality(rows)

LearnedOnce(known, given) == IF known = 0 THEN given ELSE known    \* mutant
Learned(known, given) == IF given > known THEN given ELSE known

(* A result with an error in it gives none.                                 *)
Learns(ok, rows) == index' = IF ok THEN Learned(index, Given(rows)) ELSE index

AsOneRequest ==
  /\ at = "off" /\ Next
  /\ IF phase = "batch" /\ phase' = "read"
     THEN Learns(~SomeStepFailed, durable) ELSE UNCHANGED index
  /\ UNCHANGED <<at, chunker, stream, ran, chunks, step, asks, back>>

(* The message is given an index when it is first sent.                     *)
AddsReplicationIndex == asks' = IF asks = 0 THEN index' ELSE asks

(* chunker.Next: up to ChunkSize statements, but for those that begin or    *)
(* end transactions; the end of the text is noticed with the last of them.  *)
InOrder(S) ==
  [n \in 1..Cardinality(S) |-> CHOOSE i \in S : Cardinality({j \in S : j <= i}) = n]

Ordinary(from) == InOrder({i \in Writes : i >= from})

ChunkerNext ==
  LET rest == Ordinary(next)
      n == IF Len(rest) < ChunkSize THEN Len(rest) ELSE ChunkSize
  IN  /\ chunk' = SubSeq(rest, 1, n)
      /\ next' = IF n = ChunkSize THEN rest[n] + 1 ELSE Len(text) + 1
      /\ eof' = (next' > Len(text))
      /\ slots' = [i \in 1..ChunkSize |-> IF i <= n THEN rest[i] ELSE slots[i]]

FirstChunk == chunks = 0

TakesChunk ==
  /\ at = "next"
  /\ ChunkerNext
  /\ at' = IF ~FirstChunk THEN "chunk"
           ELSE IF eof' /\ Len(chunk') = 1 THEN "single" ELSE "begin"
  /\ step' = 0
  /\ UNCHANGED <<stream, ran, chunks, index, asks, back>>

Gives(how, count) == at' = "over" /\ back' = [how |-> how, count |-> count]
GivesError == Gives("error", 0)

(* A statement on the stream that inserts a row. *)
WithRow(i) ==
  IF stream.tx THEN [stream EXCEPT !.pending = @ \cup {i}]
               ELSE [stream EXCEPT !.durable = @ \cup {i}]
Rolled == [stream EXCEPT !.tx = FALSE, !.pending = {}]
Ends(kept) == [Rolled EXCEPT !.durable = @ \cup kept]

(* executeSingleStmt, for a text of one statement. *)
ExecutesSingle ==
  /\ at = "single"
  /\ \/ stream' = WithRow(chunk[1]) /\ Gives("ok", 1)
     \/ stream' \in {stream, WithRow(chunk[1])} /\ GivesError
  /\ Learns(back'.how = "ok", stream'.durable)
  /\ UNCHANGED <<chunker, ran, chunks, step, asks>>

(* BEGIN; if it fails, or its answer is lost, the stream is left as it is.  *)
BeginsChunks ==
  /\ at = "begin"
  /\ \/ ~stream.tx /\ stream' = [stream EXCEPT !.tx = TRUE]
        /\ at' = "chunk" /\ UNCHANGED back
     \/ stream' \in {stream, [stream EXCEPT !.tx = TRUE]} /\ GivesError
  /\ Learns(at' = "chunk", stream.durable)
  /\ AddsReplicationIndex
  /\ UNCHANGED <<chunker, ran, chunks, step>>

(* The steps of the message: the slots, cut to the chunk's length when the  *)
(* chunk is short.                                                          *)
StepsUncut == slots            \* mutant: the steps are not cut
Steps == IF Len(chunk) < ChunkSize THEN SubSeq(slots, 1, Len(chunk)) ELSE slots

(* A step that fails is passed over by the next, and may take the           *)
(* transaction with it.                                                     *)
ExecutesStep ==
  /\ at = "chunk" /\ step < Len(Steps)
  /\ step' = step + 1
  /\ \E ok \in BOOLEAN :
       /\ ran' = Append(ran, [stmt |-> Steps[step'], chunk |-> chunks + 1, ok |-> ok])
       /\ stream' \in IF ok THEN {WithRow(Steps[step'])} ELSE {stream, Rolled}
  /\ UNCHANGED <<at, chunker, chunks, index, asks, back>>

ReadsChunk ==
  /\ at = "chunk" /\ step = Len(Steps)
  /\ chunks' = chunks + 1
  /\ at' = IF eof THEN "commit" ELSE "next"
  /\ Learns(\A i \in DOMAIN ran : ran[i].chunk = chunks' => ran[i].ok, stream.durable)
  /\ UNCHANGED <<chunker, stream, ran, step, asks, back>>

(* The request of a chunk fails: closeStream rolls the transaction back.    *)
LosesChunk ==
  /\ at = "chunk"
  /\ stream' = Rolled
  /\ GivesError
  /\ UNCHANGED <<chunker, ran, chunks, step, index, asks>>

AfterCommitErrorIgnored == at' = "read" /\ UNCHANGED back   \* mutant
AfterCommitError == GivesError

CommitsChunks ==
  /\ at = "commit"
  /\ \/ stream.tx /\ stream' = Ends(stream.pending) /\ at' = "read" /\ UNCHANGED back
     \/ stream' \in {Rolled, Ends(stream.pending)} /\ AfterCommitError
  /\ Learns(at' = "read", stream'.durable)
  /\ UNCHANGED <<chunker, ran, chunks, step, asks>>

(* ExecContext and QueryContext read the first of the results, and leave    *)
(* out its last step as if it were a ROLLBACK.                              *)
FirstSteps == {i \in DOMAIN ran : ran[i].chunk = 1}

FirstStepFailed == \E i \in FirstSteps : ~ran[i].ok

ReadsChunkResults ==
  /\ at = "read"
  /\ IF FirstStepFailed THEN GivesError
     ELSE IF FirstSteps # {} THEN Gives("ok", Cardinality(FirstSteps) - 1)
     ELSE IF query THEN Gives("panic", 0) ELSE Gives("ok", 0)
  /\ UNCHANGED <<chunker, stream, ran, chunks, step, index, asks>>

ExecuteInChunks ==
  /\ \/ TakesChunk \/ ExecutesSingle \/ BeginsChunks
     \/ ExecutesStep \/ ReadsChunk \/ LosesChunk
     \/ CommitsChunks \/ ReadsChunkResults
  /\ UNCHANGED vars

ChunksOver == at = "over" /\ UNCHANGED <<vars, chunkVars>>

ExecNext ==
  \/ AsOneRequest
  \/ ExecuteInChunks
  \/ ChunksOver

ExecSpec == ExecInit /\ [][ExecNext]_<<vars, chunkVars>>

-----------------------------------------------------------------------------
(* The chunks are a text's ordinary statements, each executed once and in   *)
(* its turn: no slot of an earlier chunk is sent again, none is left out,   *)
(* and a chunk that is not full is the last.                                *)
EachStatementOnceInOrder ==
  /\ IsPrefix([i \in DOMAIN ran |-> ran[i].stmt], Ordinary(1))
  /\ at = "commit" => Len(ran) = Len(Ordinary(1))
  /\ at = "chunk" /\ Len(chunk) < ChunkSize => eof

(* A long text that is reported as executed is durable but for the steps    *)
(* that failed, none of them in its first chunk.                            *)
LongTextReportedIsDurable ==
  back.how = "ok" /\ chunks > 0 =>
    /\ stream.durable = {ran[i].stmt : i \in {j \in DOMAIN ran : ran[j].ok}}
    /\ \A i \in DOMAIN ran : ran[i].ok \/ ran[i].chunk > 1

(* The driver indexes no result that is not there, be the text sent as one  *)
(* request or in chunks, with one exception: QueryContext of a long text    *)
(* that only begins and ends transactions cuts the last of no step results  *)
(* off (hranaV2.go:648).                                                    *)
PanicsOnlyWithoutStatements ==
  /\ outcome # "panic"
  /\ back.how = "panic" => query /\ Writes = {}

(* Once a call has succeeded, the next request of the connection asks for   *)
(* all the rows it made durable, on whichever replica it is served; and a   *)
(* chunk asks for all that was durable when its transaction began, though   *)
(* its message is not given a later index.                                  *)
ReadsFollowWrites ==
  /\ (at = "off" /\ phase = "over" /\ outcome = "ok") \/ back.how = "ok"
       => index = Given(durable \cup stream.durable)
  /\ at = "chunk" /\ stream.tx => asks = Given(stream.durable)
=============================================================================
