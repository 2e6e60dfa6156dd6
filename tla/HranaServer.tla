----------------------------- MODULE HranaServer -----------------------------
(***************************************************************************)
(* The Hrana server, as the HTTP client in src/ uses it.  Nothing under    *)
(* src/ implements it: it is modelled from what the client sends, what it  *)
(* reads back, and what the comments of hranaV2.go say the server does.    *)
(*                                                                         *)
(* A STREAM is the server's half of a connection: it lives on one node,    *)
(* may hold one open transaction, and is addressed by a BATON.  Every      *)
(* answer replaces the baton, so a request carrying an older one is        *)
(* refused.  A request without a baton opens a new stream.                 *)
(***************************************************************************)
EXTENDS Naturals, FiniteSets

CONSTANTS
  Node,       \* the servers behind the configured address
  Entry,      \* the configured address: it may reach any node
  Stream,     \* identities of streams
  Stmt,       \* identities of the statements (or pieces of text) executed
  NoBaton,    \* the empty baton: no stream
  NoUrl,      \* the empty BaseUrl of an answer: keep using the same address
  KeepIdle,   \* {FALSE}: a stream without a transaction is closed with the
              \* answer (hranaV2.go:100-102); BOOLEAN: it may be kept instead
  StepFails   \* {FALSE}: the steps of a chunk succeed; BOOLEAN: they may fail

ASSUME ServerAssumption ==
  /\ Entry \notin Node
  /\ NoUrl \notin Node \cup {Entry}
  /\ NoBaton \notin Stream \X Nat
  /\ KeepIdle \subseteq BOOLEAN
  /\ StepFails \subseteq BOOLEAN

NoTx == 0              \* no transaction; transactions are numbered from 1
Tx == Nat \ {NoTx}
Url == Node \cup {Entry}
Baton == Stream \X Nat \* <<stream, how many answers it has given>>

VARIABLES
  stream,     \* the streams
  committed   \* statements whose effect is durable

serverVars == <<stream, committed>>

(* A request: its baton and the address it is sent to, what it asks for,    *)
(* the statement it carries, and (ghost) the application's transaction and  *)
(* session on whose behalf it was sent.                                     *)
Kind == {"exec", "begin", "chunk", "commit", "rollback", "close"}
Request == [id: Nat, baton: Baton \cup {NoBaton}, url: Url, kind: Kind,
            stmt: SUBSET Stmt, tx: Nat, sess: Nat]

(* An answer: did the HTTP exchange end with 200, the new baton and the    *)
(* address to use from now on, did the request succeed, and did every step *)
(* of a batch.                                                             *)
Reply == [http: BOOLEAN, baton: Baton \cup {NoBaton},
          baseUrl: Node \cup {NoUrl}, ok: BOOLEAN, steps: BOOLEAN]

StreamState == [status: {"unused", "open", "closed"}, node: Node \cup {NoUrl},
                gen: Nat, tx: Nat, pending: SUBSET Stmt, sess: Nat]

ServerTypeOK ==
  /\ stream \in [Stream -> StreamState]
  /\ committed \in SUBSET Stmt

ServerInit ==
  /\ stream = [s \in Stream |-> [status |-> "unused", node |-> NoUrl, gen |-> 0,
                                 tx |-> NoTx, pending |-> {}, sess |-> 0]]
  /\ committed = {}

ReachedBy(url) == IF url = Entry THEN Node ELSE {url}

-----------------------------------------------------------------------------
(* What executing request m may do when the stream's transaction is tx and  *)
(* its uncommitted statements are pending: does it succeed, do all its      *)
(* steps, which transaction and pending statements are left, and what       *)
(* becomes durable.                                                         *)
Leaves(ok, steps, tx, pending, durable) ==
  [ok |-> ok, steps |-> steps, tx |-> tx, pending |-> pending,
   durable |-> durable]

Unchanged(ok, steps, tx, pending) == Leaves(ok, steps, tx, pending, {})
Ends(ok, durable) == Leaves(ok, TRUE, NoTx, {}, durable)
Applies(m, tx, pending) ==
  IF tx = NoTx THEN Leaves(TRUE, TRUE, NoTx, {}, m.stmt)
               ELSE Leaves(TRUE, TRUE, tx, pending \cup m.stmt, {})

(* A failed statement may take the transaction with it: SQLite rolls back   *)
(* on some errors, and a failed BatchStream runs its own ROLLBACK step.     *)
Executed(m, tx, pending) ==
  {Applies(m, tx, pending), Unchanged(FALSE, FALSE, tx, pending),
   Ends(FALSE, {})}

(* The steps of a chunk carry no condition: one that fails is reported in   *)
(* the result of the batch, and the request as a whole succeeds.            *)
Chunked(m, tx, pending) ==
  {Applies(m, tx, pending)}
    \cup {Unchanged(TRUE, FALSE, tx, pending) : f \in StepFails \cap {TRUE}}

Outcomes(m, tx, pending) ==
  CASE m.kind = "exec"  -> Executed(m, tx, pending)
    [] m.kind = "chunk" -> Chunked(m, tx, pending)
    [] m.kind = "begin" ->
         {Unchanged(FALSE, TRUE, tx, pending)}
           \cup (IF tx = NoTx THEN {Unchanged(TRUE, TRUE, m.tx, {})} ELSE {})
    [] m.kind = "commit" ->
         {Unchanged(FALSE, TRUE, tx, pending)}
           \cup (IF tx = NoTx THEN {} ELSE {Ends(TRUE, pending)})
    [] m.kind = "rollback" ->
         {IF tx = NoTx THEN Unchanged(FALSE, TRUE, tx, pending)
                       ELSE Ends(TRUE, {})}
    [] m.kind = "close" -> {Ends(TRUE, {})}

(* May the stream outlive a request that left transaction tx? *)
MayKeep(m, tx) ==
  CASE m.kind = "close" -> {FALSE}
    [] m.kind # "close" /\ tx # NoTx -> {TRUE}
    [] m.kind # "close" /\ tx = NoTx -> KeepIdle

(* An answer leaves the address alone only where it leads to this node.     *)
BaseUrls(url, n) == {n} \cup (IF ReachedBy(url) = {n} THEN {NoUrl} ELSE {})

-----------------------------------------------------------------------------
(* A request whose baton is current continues its stream s on node n; one   *)
(* without a baton starts s there.                                          *)
Accepts(m, n, s) ==
  IF m.baton = NoBaton
  THEN stream[s].status = "unused"
  ELSE /\ m.baton = <<s, stream[s].gen>>
       /\ stream[s].status = "open"
       /\ stream[s].node = n

SessionOf(m, s) == IF m.baton = NoBaton THEN m.sess ELSE stream[s].sess

OutcomesOn(m, s) ==
  IF m.baton = NoBaton THEN Outcomes(m, NoTx, {})
                       ELSE Outcomes(m, stream[s].tx, stream[s].pending)

(* The request has had outcome o, and the stream is kept or closed. *)
Executes(m, n, s, o, keep) ==
  /\ stream' = [stream EXCEPT ![s] =
       [status |-> IF keep THEN "open" ELSE "closed", node |-> n,
        gen |-> stream[s].gen + 1, tx |-> o.tx, pending |-> o.pending,
        sess |-> SessionOf(m, s)]]
  /\ committed' = committed \cup o.durable

Answer(s, o, keep, base) ==
  [http |-> TRUE, baseUrl |-> base, ok |-> o.ok, steps |-> o.steps,
   baton |-> IF keep THEN <<s, stream[s].gen + 1>> ELSE NoBaton]

(* Any other status than 200: the baton is not current, or the server (or a *)
(* proxy before it) fails.                                                  *)
Refusal == [http |-> FALSE, baton |-> NoBaton, baseUrl |-> NoUrl,
            ok |-> FALSE, steps |-> FALSE]

(* The server gives up a stream it has not heard of for a while, and rolls  *)
(* back what was open on it.                                                *)
Expire(s) ==
  /\ stream[s].status = "open"
  /\ stream' = [stream EXCEPT ![s].status = "closed", ![s].tx = NoTx,
                              ![s].pending = {}]
  /\ UNCHANGED committed
=============================================================================
