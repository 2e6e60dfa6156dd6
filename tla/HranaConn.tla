------------------------------ MODULE HranaConn ------------------------------
(***************************************************************************)
(* One hranaV2Conn (libsql/internal/http/hranaV2/hranaV2.go) between the    *)
(* application that uses it through database/sql and the Hrana server.      *)
(*                                                                          *)
(* The driver's calls are synchronous and database/sql makes one at a time, *)
(* but the requests they send are not: a call that gives up leaves its      *)
(* request behind, to be served later or never, and Close and closeStream   *)
(* send theirs from a goroutine of their own.  net holds them all, and the  *)
(* server takes them in any order.                                          *)
(***************************************************************************)
EXTENDS HranaServer

CONSTANTS
  NoReply,      \* no answer has arrived
  NotIssued,    \* a statement nobody has issued yet
  Chunks,       \* requests the text of an executeInChunks call is split into
  MaxSessions,  \* bound: times the connection is taken from the pool
  MaxTx,        \* bound: transactions begun
  MaxReqs,      \* bound: a call starts only after fewer requests than this
  MaxFaults     \* bound: exchanges that fail for no fault of the request

ASSUME ConnAssumption ==
  /\ NoReply \notin Reply
  /\ NotIssued \notin Nat
  /\ Chunks \in Nat \ {0}
  /\ MaxSessions \in Nat
  /\ MaxTx \in Nat
  /\ MaxReqs \in Nat
  /\ MaxFaults \in Nat

VARIABLES
  conn,     \* hranaV2Conn: its url, baton and streamClosed
  call,     \* the driver call in progress
  net,      \* requests sent and not yet served
  reply,    \* the answer to the request the call waits for
  app,      \* where database/sql has the connection, the number of the session
            \* it serves, the transaction the application has open, and whether
            \* one of the session's sql.Tx ended with an error
  reqs, txs, faults,  \* requests sent, transactions begun and faults so far
  stmtTx,   \* ghost: the transaction each issued statement was issued in
  acked,    \* ghost: statements whose call (or chunk) succeeded
  verdict   \* ghost: transactions whose COMMIT was asked for, whose COMMIT and
            \* whose ROLLBACK succeeded, and those begun by executeInChunks;
            \* statements issued outside a transaction after a failed sql.Tx

clientVars == <<conn, call, reply, app>>
ghostVars == <<stmtTx, acked, verdict>>
vars == <<serverVars, clientVars, net, reqs, txs, faults, ghostVars>>

Conn == [url: Url, baton: Baton \cup {NoBaton}, streamClosed: BOOLEAN]
Call == [phase: {"idle", "send", "wait"}, kind: Kind, chunked: BOOLEAN,
         left: Nat, stmt: SUBSET Stmt, tx: Nat, id: Nat]
App == [state: {"none", "idle", "used"}, sess: Nat, tx: Nat, failed: BOOLEAN]
Verdict == [asked: SUBSET Nat, committed: SUBSET Nat, rolledBack: SUBSET Nat,
            chunked: SUBSET Nat, doubtful: SUBSET Stmt]

TypeOK ==
  /\ ServerTypeOK
  /\ conn \in Conn
  /\ call \in Call
  /\ net \in SUBSET Request
  /\ reply \in Reply \cup {NoReply}
  /\ app \in App
  /\ reqs \in Nat /\ txs \in Nat /\ faults \in Nat
  /\ stmtTx \in [Stmt -> Nat \cup {NotIssued}]
  /\ acked \in SUBSET Stmt
  /\ verdict \in Verdict

NewConn == [url |-> Entry, baton |-> NoBaton, streamClosed |-> FALSE]
NoCall == [phase |-> "idle", kind |-> "exec", chunked |-> FALSE, left |-> 0,
           stmt |-> {}, tx |-> NoTx, id |-> 0]
NewSession(state, sess) ==
  [state |-> state, sess |-> sess, tx |-> NoTx, failed |-> FALSE]

Init ==
  /\ ServerInit
  /\ conn = NewConn
  /\ call = NoCall
  /\ net = {}
  /\ reply = NoReply
  /\ app = NewSession("none", 0)
  /\ reqs = 0 /\ txs = 0 /\ faults = 0
  /\ stmtTx = [s \in Stmt |-> NotIssued]
  /\ acked = {}
  /\ verdict = [asked |-> {}, committed |-> {}, rolledBack |-> {},
                chunked |-> {}, doubtful |-> {}]

-----------------------------------------------------------------------------
(* hranaV2Conn.Close and closeStream: a goroutine sends a close request     *)
(* with the baton and the address of the moment, and nobody waits for it.   *)
CloseRequestsNever(c) == {}    \* mutant: nobody tells the server
CloseRequests(c) ==
  IF c.baton = NoBaton THEN {}
  ELSE {[id |-> reqs + 1, baton |-> c.baton, url |-> c.url,
         kind |-> "close", stmt |-> {}, tx |-> NoTx, sess |-> app.sess]}

SendsClose(c) ==
  /\ net' = net \cup CloseRequests(c)
  /\ reqs' = IF CloseRequests(c) = {} THEN reqs ELSE reqs + 1

(* closeStream also forgets the baton, but not that the stream was closed.  *)
WithoutStreamKept(c) == c      \* mutant: the baton is not forgotten
WithoutStream(c) == [c EXCEPT !.baton = NoBaton]

(* Validator: may database/sql hand the connection out again? *)
IsValid(c) == ~c.streamClosed

-----------------------------------------------------------------------------
(* database/sql: the connector's Connect makes a connection for a session;  *)
(* when the session ends the connection goes back to the pool if it is      *)
(* valid and is closed if not; the pool resets it before the next session,  *)
(* or closes it.                                                            *)
Connect ==
  /\ app.state = "none" /\ app.sess < MaxSessions
  /\ conn' = NewConn
  /\ app' = NewSession("used", app.sess + 1)
  /\ UNCHANGED <<serverVars, call, reply, net, reqs, txs, faults, ghostVars>>

ResetSession ==
  /\ app.state = "idle" /\ app.sess < MaxSessions
  /\ SendsClose(conn)
  /\ conn' = WithoutStream(conn)
  /\ app' = NewSession("used", app.sess + 1)
  /\ UNCHANGED <<serverVars, call, reply, txs, faults, ghostVars>>

EndSession ==
  /\ app.state = "used" /\ call.phase = "idle"
  /\ IF IsValid(conn)
     THEN /\ app' = NewSession("idle", app.sess)
          /\ UNCHANGED <<net, reqs>>
     ELSE /\ SendsClose(conn)
          /\ app' = NewSession("none", app.sess)
  /\ UNCHANGED <<serverVars, conn, call, reply, txs, faults, ghostVars>>

Close ==
  /\ app.state = "idle"
  /\ SendsClose(conn)
  /\ app' = [app EXCEPT !.state = "none"]
  /\ UNCHANGED <<serverVars, conn, call, reply, txs, faults, ghostVars>>

-----------------------------------------------------------------------------
(* The driver calls the application makes. *)
Starts(kind, chunked, tx) ==
  /\ app.state = "used" /\ call.phase = "idle" /\ reqs < MaxReqs
  /\ call' = [NoCall EXCEPT !.phase = "send", !.kind = kind,
                            !.chunked = chunked, !.tx = tx,
                            !.left = IF chunked THEN Chunks ELSE 0]
  /\ UNCHANGED <<serverVars, conn, net, reply, app, reqs, faults, stmtTx, acked>>

(* Only statements the model can still name are issued.  *)
Unissued == {s \in Stmt : stmtTx[s] = NotIssued}

ExecContext ==
  /\ Unissued # {}
  /\ Starts("exec", FALSE, app.tx)
  /\ UNCHANGED <<txs, verdict>>

Begins(chunked) ==
  /\ txs < MaxTx
  /\ Starts("begin", chunked, txs + 1)
  /\ txs' = txs + 1

BeginTx == Begins(FALSE) /\ UNCHANGED verdict

ExecInChunks ==
  /\ Cardinality(Unissued) >= Chunks
  /\ Begins(TRUE)
  /\ verdict' = [verdict EXCEPT !.chunked = @ \cup {txs + 1}]

Commit ==
  /\ app.tx # NoTx
  /\ Starts("commit", FALSE, app.tx)
  /\ UNCHANGED <<txs, verdict>>

Rollback ==
  /\ app.tx # NoTx
  /\ Starts("rollback", FALSE, app.tx)
  /\ UNCHANGED <<txs, verdict>>

-----------------------------------------------------------------------------
(* A driver call is over: what the application learns from it. *)
Succeeds ==
  /\ acked' = acked \cup call.stmt
  /\ app' = [app EXCEPT !.tx = CASE call.chunked \/ call.kind = "exec" -> @
                                 [] ~call.chunked /\ call.kind = "begin" -> call.tx
                                 [] OTHER -> NoTx]
  /\ verdict' = CASE call.kind = "commit" ->
                       [verdict EXCEPT !.committed = @ \cup {call.tx}]
                  [] call.kind = "rollback" ->
                       [verdict EXCEPT !.rolledBack = @ \cup {call.tx}]
                  [] OTHER -> verdict

(* executeInChunks: BEGIN, then the chunks, then COMMIT. *)
HasNext == call.chunked /\ call.kind # "commit"
NextRequestEarlyCommit ==      \* mutant: COMMIT before the last chunk
  [call EXCEPT !.phase = "send", !.stmt = {},
               !.kind = IF call.left > 1 THEN "chunk" ELSE "commit",
               !.left = IF call.left > 1 THEN @ - 1 ELSE 0]
NextRequestUncounted ==        \* mutant: counts down past the last chunk
  [call EXCEPT !.phase = "send", !.stmt = {}, !.left = @ - 1,
               !.kind = IF call.left > 0 THEN "chunk" ELSE "commit"]
NextRequest ==
  [call EXCEPT !.phase = "send", !.stmt = {},
               !.kind = IF call.left > 0 THEN "chunk" ELSE "commit",
               !.left = IF call.left > 0 THEN @ - 1 ELSE 0]

(* executeInChunks gives its stream up when a chunk or the COMMIT fails,    *)
(* not when the BEGIN does.                                                 *)
GivesStreamUpNever == FALSE    \* mutant: the failed transaction stays open
GivesStreamUp == call.chunked /\ call.kind # "begin"

(* A failed COMMIT or ROLLBACK ends database/sql's Tx like one that         *)
(* succeeded; a program that sends the two as texts on its sql.Conn takes   *)
(* the transaction for still open.                                          *)
AfterFailure ==
  {app} \cup {[app EXCEPT !.tx = NoTx, !.failed = TRUE] :
                k \in {call.kind} \cap {"commit", "rollback"}}

(* The request of the call has succeeded or failed and the connection is    *)
(* now c: go on with the next one, or return.                               *)
Returns(ok, c) ==
  /\ reply' = NoReply
  /\ IF ok
     THEN /\ conn' = c
          /\ call' = IF HasNext THEN NextRequest ELSE NoCall
          /\ Succeeds
          /\ UNCHANGED <<net, reqs>>
     ELSE /\ call' = NoCall
          /\ app' \in IF call.chunked THEN {app} ELSE AfterFailure
          /\ UNCHANGED <<acked, verdict>>
          /\ IF GivesStreamUp
             THEN SendsClose(c) /\ conn' = WithoutStream(c)
             ELSE conn' = c /\ UNCHANGED <<net, reqs>>

-----------------------------------------------------------------------------
(* hranaV2Conn.sendPipelineRequest, up to the HTTP request: refuse if the   *)
(* stream is closed, else attach the baton and send.                        *)
RefusedNever(c) == FALSE       \* mutant: sends although the stream is closed
Refused(c) == c.streamClosed

Message(stmts) ==
  [id |-> reqs + 1, baton |-> conn.baton, url |-> conn.url,
   kind |-> call.kind, stmt |-> stmts, tx |-> call.tx, sess |-> app.sess]

CarriesStmt == call.kind \in {"exec", "chunk"}

SendPipelineRequest ==
  /\ call.phase = "send" /\ ~Refused(conn)
  /\ \E stmts \in IF CarriesStmt THEN {{s} : s \in Unissued} ELSE {{}} :
       /\ net' = net \cup {Message(stmts)}
       /\ call' = [call EXCEPT !.phase = "wait", !.stmt = stmts,
                               !.id = reqs + 1]
       /\ stmtTx' = [s \in Stmt |-> IF s \in stmts THEN call.tx ELSE stmtTx[s]]
  /\ reqs' = reqs + 1
  /\ verdict' = CASE call.kind = "commit" ->
                       [verdict EXCEPT !.asked = @ \cup {call.tx}]
                  [] call.kind # "commit" /\ app.failed /\ call.tx = NoTx ->
                       [verdict EXCEPT !.doubtful = @ \cup call'.stmt]
                  [] OTHER -> verdict
  /\ UNCHANGED <<serverVars, conn, reply, app, txs, faults, acked>>

(* "stream is closed: driver: bad connection" *)
ErrBadConn ==
  /\ call.phase = "send" /\ Refused(conn)
  /\ Returns(FALSE, conn)
  /\ UNCHANGED <<serverVars, txs, faults, stmtTx>>

(* ... and from the answer on.  Any status but 200 marks the stream closed  *)
(* and leaves the rest alone; so does an answer without a baton.            *)
AfterReplyUnmarked(c, r) ==    \* mutant: a missing baton does not mark it closed
  IF ~r.http THEN [c EXCEPT !.streamClosed = TRUE]
  ELSE [c EXCEPT !.url = IF r.baseUrl = NoUrl THEN @ ELSE r.baseUrl,
                 !.baton = r.baton]
AfterReplySameUrl(c, r) ==     \* mutant: the BaseUrl of the answer is ignored
  IF ~r.http THEN [c EXCEPT !.streamClosed = TRUE]
  ELSE [c EXCEPT !.baton = r.baton, !.streamClosed = @ \/ r.baton = NoBaton]
AfterReply(c, r) ==
  IF ~r.http THEN [c EXCEPT !.streamClosed = TRUE]
  ELSE [url |-> IF r.baseUrl = NoUrl THEN c.url ELSE r.baseUrl,
        baton |-> r.baton,
        streamClosed |-> c.streamClosed \/ r.baton = NoBaton]

ReceiveReply ==
  /\ call.phase = "wait" /\ reply # NoReply
  /\ Returns(reply.http /\ reply.ok, AfterReply(conn, reply))
  /\ UNCHANGED <<serverVars, txs, faults, stmtTx>>

(* The exchange fails on the client's side (network error, cancelled        *)
(* context, unreadable answer): the connection is left as it was.           *)
AfterTransportError(c) == c

TransportError ==
  /\ call.phase = "wait" /\ faults < MaxFaults
  /\ faults' = faults + 1
  /\ Returns(FALSE, AfterTransportError(conn))
  /\ UNCHANGED <<serverVars, txs, stmtTx>>

-----------------------------------------------------------------------------
(* The network and the server.  An answer reaches the call that waits for   *)
(* it, and nobody if that call has given up.                                *)
Delivers(m, r) ==
  reply' = IF call.phase = "wait" /\ call.id = m.id THEN r ELSE reply

(* The server executes the request and closes the stream, or not; a proxy   *)
(* may still turn the answer into another status.                           *)
ServerExecutes(m) ==
  /\ m \in net
  /\ net' = net \ {m}
  /\ \E n \in ReachedBy(m.url), s \in Stream :
       /\ Accepts(m, n, s)
       /\ \E o \in OutcomesOn(m, s) : \E keep \in MayKeep(m, o.tx) :
            /\ Executes(m, n, s, o, keep)
            /\ \/ /\ \E base \in BaseUrls(m.url, n) :
                       Delivers(m, Answer(s, o, keep, base))
                  /\ UNCHANGED faults
               \/ /\ faults < MaxFaults /\ faults' = faults + 1
                  /\ Delivers(m, Refusal)
  /\ UNCHANGED <<conn, call, app, reqs, txs, ghostVars>>

(* The baton is not the stream's latest, the stream is gone or lives on     *)
(* another node, or the server starts no more streams.                      *)
ServerRefuses(m) ==
  /\ m \in net
  /\ net' = net \ {m}
  /\ \E n \in ReachedBy(m.url) : \A s \in Stream : ~Accepts(m, n, s)
  /\ Delivers(m, Refusal)
  /\ UNCHANGED <<serverVars, conn, call, app, reqs, txs, faults, ghostVars>>

(* An error that has nothing to do with the request. *)
ServerFails(m) ==
  /\ m \in net
  /\ net' = net \ {m}
  /\ faults < MaxFaults /\ faults' = faults + 1
  /\ Delivers(m, Refusal)
  /\ UNCHANGED <<serverVars, conn, call, app, reqs, txs, ghostVars>>

StreamExpires ==
  /\ \E s \in Stream : Expire(s)
  /\ UNCHANGED <<clientVars, net, reqs, txs, faults, ghostVars>>

-----------------------------------------------------------------------------
(* The bounds are reached and nothing is under way. *)
Finished ==
  /\ app.state = "none" /\ app.sess = MaxSessions /\ net = {}
  /\ UNCHANGED vars

Pool == Connect \/ ResetSession \/ EndSession \/ Close
Calls == ExecContext \/ BeginTx \/ ExecInChunks \/ Commit \/ Rollback
Driver == SendPipelineRequest \/ ErrBadConn \/ ReceiveReply \/ TransportError
Server == \/ \E m \in net : ServerExecutes(m) \/ ServerRefuses(m) \/ ServerFails(m)
          \/ StreamExpires

Next == Pool \/ Calls \/ Driver \/ Server \/ Finished

Spec == Init /\ [][Next]_vars

-----------------------------------------------------------------------------
(* A statement executed inside a transaction takes effect only if the       *)
(* application asked for that transaction to be committed: whatever the     *)
(* network and the server do, it never runs on a stream of its own.         *)
TxEffectsNeedCommit ==
  \A s \in committed : stmtTx[s] \in {NoTx} \cup verdict.asked

(* What the driver tells the application is true: a statement acknowledged  *)
(* outside a transaction is durable, unless an sql.Tx of the same session   *)
(* ended with an error before it, so are all those acknowledged in a        *)
(* transaction whose COMMIT succeeded, and none of those of a transaction   *)
(* whose ROLLBACK succeeded.                                                *)
AcksAreTruthful ==
  /\ \A s \in acked \ verdict.doubtful :
       stmtTx[s] \in {NoTx} \cup verdict.committed => s \in committed
  /\ \A s \in committed : stmtTx[s] \notin verdict.rolledBack

(* A transaction is durable with all that was acknowledged in it or not at  *)
(* all, also when the outcome of its COMMIT was lost.                       *)
CommitIsAtomic ==
  \A s \in committed : \A u \in acked :
    stmtTx[s] # NoTx /\ stmtTx[u] = stmtTx[s] => u \in committed

(* All of it at once: the connection, with its server and its network, is a *)
(* store whose transactions happen as a whole or not at all, and which      *)
(* tells the truth about them.                                              *)
Store == INSTANCE TxStore WITH
           Tx <- 1..MaxTx, issued <- stmtTx, durable <- committed,
           asked <- verdict.asked, committed <- verdict.committed,
           rolledBack <- verdict.rolledBack, doubtful <- verdict.doubtful
ImplementsTxStore == Store!Spec

(* executeInChunks: all the chunks of a text take effect, or none does.     *)
ChunkedExecIsAtomic ==
  \A tx \in verdict.chunked :
    LET effect == {s \in committed : stmtTx[s] = tx}
    IN  effect = {} \/ Cardinality(effect) = Chunks

(* A request that continues a stream continues one its own session started: *)
(* nothing a borrower of the connection left open reaches the next one.     *)
SessionsAreIsolated ==
  \A m \in net : m.baton # NoBaton /\ m.kind # "close"
                  => stream[m.baton[1]].sess = m.sess

(* A stream the client has asked the server to close is not used again: the *)
(* close request, which nobody waits for, cannot overtake a statement.      *)
GivenUpStreamsAreLeftAlone ==
  \A m \in net :
    m.kind = "close" /\ app.state = "used" /\ conn.baton # NoBaton
      => conn.baton[1] # m.baton[1]

(* A request that continues a stream is sent to the node that has it.       *)
BatonsGoHome ==
  \A m \in net : m.baton # NoBaton
                  => ReachedBy(m.url) = {stream[m.baton[1]].node}

(* A stream no connection knows and no close request is under way for: one  *)
(* the server can only let expire.                                          *)
Known(s) ==
  \/ app.state # "none" /\ conn.baton = <<s, stream[s].gen>>
  \/ \E m \in net : m.baton = <<s, stream[s].gen>>
  \/ call.phase = "wait" /\ reply # NoReply /\ reply.baton = <<s, stream[s].gen>>

Orphans == {s \in Stream : stream[s].status = "open" /\ ~Known(s)}

(* The client leaks no stream of its own doing: each one left behind is the *)
(* work of a failed exchange.                                               *)
OrphansComeFromFaults == Cardinality(Orphans) <= faults
=============================================================================
