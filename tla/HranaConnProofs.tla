--------------------------- MODULE HranaConnProofs ---------------------------
(***************************************************************************)
(* Theorems about HranaConn, for any nodes, streams, statements and bounds. *)
(***************************************************************************)
EXTENDS HranaConn, FiniteSetTheorems, TLAPS

-----------------------------------------------------------------------------
(* Facts about the types, used to keep the records out of the later proofs. *)

(* Connect returns a connection.                                           *)
LEMMA NewConnType == NewConn \in Conn
  BY DEF NewConn, Conn, Url, Baton

(* A connection at rest has the type of one in a call.                     *)
LEMMA NoCallType == NoCall \in Call
  BY DEF NoCall, Call, Kind, NoTx

(* A session begins and ends without a transaction, and a call that fails   *)
(* leaves at most that behind.                                              *)
LEMMA SessionType ==
  /\ \A state \in {"none", "idle", "used"}, n \in Nat :
       /\ NewSession(state, n) \in App
       /\ NewSession(state, n).state = state /\ NewSession(state, n).sess = n
       /\ NewSession(state, n).tx = NoTx
  /\ \A a \in AfterFailure :
       app \in App =>
         /\ a \in App /\ a.state = app.state /\ a.sess = app.sess
         /\ a.tx \in {app.tx, NoTx}
  BY DEF NewSession, AfterFailure, App, NoTx

(* What a server answers that will not serve a request is a reply.         *)
LEMMA RefusalType == Refusal \in Reply
  BY DEF Refusal, Reply

(* A close request is a request, and closeStream leaves a connection. *)
LEMMA CloseType ==
  ASSUME TypeOK, NEW c \in Conn, SendsClose(c)
  PROVE  net' \in SUBSET Request /\ reqs' \in Nat /\ WithoutStream(c) \in Conn
<1>1. CloseRequests(c) \in SUBSET Request
  BY DEF TypeOK, CloseRequests, Request, Conn, App, Kind, NoTx
<1>2. WithoutStream(c) \in Conn
  BY DEF WithoutStream, Conn
<1>. QED BY <1>1, <1>2 DEF SendsClose, TypeOK

(* What sendPipelineRequest makes of the connection is a connection. *)
LEMMA AfterReplyType ==
  ASSUME NEW c \in Conn, NEW r \in Reply
  PROVE  AfterReply(c, r) \in Conn
  BY DEF AfterReply, Conn, Reply, Url

(* A driver call that returns keeps the types of the client.               *)
LEMMA ReturnsType ==
  ASSUME TypeOK, NEW ok \in BOOLEAN, NEW c \in Conn, Returns(ok, c)
  PROVE  /\ conn' \in Conn /\ call' \in Call /\ net' \in SUBSET Request
         /\ reply' = NoReply /\ app' \in App /\ reqs' \in Nat
         /\ acked' \in SUBSET Stmt
         /\ verdict' \in Verdict
<1>0. call \in Call /\ app \in App /\ net \in SUBSET Request /\ reqs \in Nat
  BY DEF TypeOK
<1>1. CASE ok
  <2>1. NextRequest \in Call
    <3>1. (IF call.left > 0 THEN call.left - 1 ELSE 0) \in Nat
      BY <1>0 DEF Call
    <3>2. (IF call.left > 0 THEN "chunk" ELSE "commit") \in Kind
      BY DEF Kind
    <3>. QED BY <1>0, <3>1, <3>2 DEF NextRequest, Call
  <2>2. acked' \in SUBSET Stmt
    BY <1>1 DEF TypeOK, Returns, Succeeds, Call
  <2>3. app' \in App
    BY <1>1, <1>0 DEF Returns, Succeeds, Call, App, NoTx
  <2>4. verdict' \in Verdict
    BY <1>1 DEF TypeOK, Returns, Succeeds, Call, Verdict
  <2>. QED BY <1>1, <1>0, <2>1, <2>2, <2>3, <2>4, NoCallType DEF Returns
<1>2. CASE ~ok
  <2>1. app' \in App
    BY <1>2, <1>0, SessionType DEF Returns
  <2>. QED BY <1>2, <1>0, <2>1, NoCallType, CloseType DEF Returns, TypeOK
<1>. QED BY <1>1, <1>2

(* The shapes an outcome can have, whatever the kind of the request. *)
OutcomeShape(m, tx, pending, o) ==
  \/ m.kind \in {"exec", "chunk"} /\ o = Applies(m, tx, pending)
  \/ \E ok, steps \in BOOLEAN :
       /\ o = Unchanged(ok, steps, tx, pending)
       /\ ok => m.kind = "chunk"
  \/ \E ok \in BOOLEAN : o = Ends(ok, {})
  \/ m.kind = "commit" /\ tx # NoTx /\ o = Ends(TRUE, pending)
  \/ m.kind = "begin" /\ tx = NoTx /\ o = Unchanged(TRUE, TRUE, m.tx, {})

(* Every outcome of executing a request has one of the shapes above.       *)
LEMMA OutcomeShapes ==
  ASSUME NEW m \in Request, NEW tx \in Nat, NEW pending \in SUBSET Stmt,
         NEW o \in Outcomes(m, tx, pending)
  PROVE  OutcomeShape(m, tx, pending, o)
<1>1. CASE m.kind = "exec"
  BY <1>1 DEF Outcomes, Executed, OutcomeShape
<1>2. CASE m.kind = "chunk"
  BY <1>2 DEF Outcomes, Chunked, OutcomeShape
<1>3. CASE m.kind = "begin"
  BY <1>3 DEF Outcomes, OutcomeShape
<1>4. CASE m.kind = "commit"
  BY <1>4 DEF Outcomes, OutcomeShape
<1>5. CASE m.kind = "rollback"
  BY <1>5 DEF Outcomes, OutcomeShape
<1>6. CASE m.kind = "close"
  BY <1>6 DEF Outcomes, OutcomeShape
<1>. QED BY <1>1, <1>2, <1>3, <1>4, <1>5, <1>6 DEF Kind, Request

(* Executing a request leaves a stream of the right type. *)
LEMMA OutcomesType ==
  ASSUME NEW m \in Request, NEW tx \in Nat, NEW pending \in SUBSET Stmt,
         NEW o \in Outcomes(m, tx, pending)
  PROVE  /\ o.tx \in Nat /\ o.pending \in SUBSET Stmt
         /\ o.durable \in SUBSET Stmt /\ o.ok \in BOOLEAN
         /\ o.steps \in BOOLEAN
<1>1. m.kind \in Kind /\ m.stmt \in SUBSET Stmt /\ m.tx \in Nat
  BY DEF Request
<1>3. CASE o = Applies(m, tx, pending)
  <2>1. CASE tx = NoTx
    BY <1>1, <1>3, <2>1 DEF Applies, Leaves, NoTx
  <2>2. CASE tx # NoTx
    <3>1. pending \cup m.stmt \in SUBSET Stmt
      BY <1>1
    <3>. QED BY <1>3, <2>2, <3>1 DEF Applies, Leaves
  <2>. QED BY <2>1, <2>2
<1>4. ASSUME NEW ok \in BOOLEAN, NEW steps \in BOOLEAN,
             o = Unchanged(ok, steps, tx, pending)
      PROVE  /\ o.tx \in Nat /\ o.pending \in SUBSET Stmt
             /\ o.durable \in SUBSET Stmt /\ o.ok \in BOOLEAN
             /\ o.steps \in BOOLEAN
  BY <1>4 DEF Unchanged, Leaves
<1>5. ASSUME NEW ok \in BOOLEAN, o = Ends(ok, {})
      PROVE  /\ o.tx \in Nat /\ o.pending \in SUBSET Stmt
             /\ o.durable \in SUBSET Stmt /\ o.ok \in BOOLEAN
             /\ o.steps \in BOOLEAN
  BY <1>5 DEF Ends, Leaves, NoTx
<1>6. CASE o = Ends(TRUE, pending)
  BY <1>6 DEF Ends, Leaves, NoTx
<1>7. CASE o = Unchanged(TRUE, TRUE, m.tx, {})
  BY <1>1, <1>7 DEF Unchanged, Leaves
<1>8. \/ o = Applies(m, tx, pending)
      \/ \E ok, steps \in BOOLEAN : o = Unchanged(ok, steps, tx, pending)
      \/ \E ok \in BOOLEAN : o = Ends(ok, {})
      \/ o = Ends(TRUE, pending)
      \/ o = Unchanged(TRUE, TRUE, m.tx, {})
  BY OutcomeShapes DEF OutcomeShape
<1>. QED BY <1>3, <1>4, <1>5, <1>6, <1>7, <1>8

(* Executing a request keeps the types of the server and of its answer.    *)
LEMMA ExecutesType ==
  ASSUME TypeOK, NEW m \in Request, NEW n \in Node, NEW s \in Stream,
         NEW o \in OutcomesOn(m, s), NEW keep \in BOOLEAN,
         Executes(m, n, s, o, keep)
  PROVE  /\ ServerTypeOK'
         /\ \A base \in Node \cup {NoUrl} : Answer(s, o, keep, base) \in Reply
<1>0. stream \in [Stream -> StreamState]
  BY DEF TypeOK, ServerTypeOK
<1>1. /\ o.tx \in Nat /\ o.pending \in SUBSET Stmt /\ o.durable \in SUBSET Stmt
      /\ o.ok \in BOOLEAN /\ o.steps \in BOOLEAN
  BY <1>0, OutcomesType DEF OutcomesOn, StreamState, NoTx
<1>2. SessionOf(m, s) \in Nat
  BY <1>0 DEF SessionOf, StreamState, Request
<1>3. stream' \in [Stream -> StreamState]
  BY <1>0, <1>1, <1>2 DEF Executes, StreamState
<1>4. committed' \in SUBSET Stmt
  BY <1>1 DEF Executes, TypeOK, ServerTypeOK
<1>5. ASSUME NEW base \in Node \cup {NoUrl}
      PROVE  Answer(s, o, keep, base) \in Reply
  <2>1. stream[s].gen + 1 \in Nat
    BY <1>0 DEF StreamState
  <2>2. (IF keep THEN <<s, stream[s].gen + 1>> ELSE NoBaton)
          \in Baton \cup {NoBaton}
    BY <2>1 DEF Baton
  <2>. QED BY <1>1, <2>2 DEF Answer, Reply
<1>. QED BY <1>3, <1>4, <1>5 DEF ServerTypeOK

(* Whether the server keeps a stream open is a Boolean.                    *)
LEMMA KeepType ==
  ASSUME NEW m, NEW tx
  PROVE  MayKeep(m, tx) \subseteq BOOLEAN
  BY ServerAssumption DEF MayKeep

(* The base URL of an answer is a node or none.                            *)
LEMMA BaseUrlsType ==
  ASSUME NEW url, NEW n \in Node
  PROVE  BaseUrls(url, n) \subseteq Node \cup {NoUrl}
  BY DEF BaseUrls

(* A request reaches a node.                                               *)
LEMMA ReachedType ==
  ASSUME NEW m \in Request
  PROVE  ReachedBy(m.url) \subseteq Node
  BY DEF ReachedBy, Request, Url

-----------------------------------------------------------------------------
(* The variables keep their types: what the driver makes of any answer, and *)
(* what the server makes of any request, is again a connection, a request,  *)
(* a stream.                                                                *)
THEOREM TypeCorrect == Spec => []TypeOK
<1>1. Init => TypeOK
  <2>1. ASSUME Init PROVE ServerTypeOK
    BY <2>1 DEF Init, ServerInit, ServerTypeOK, StreamState, NoTx
  <2>. QED BY <2>1, NewConnType, NoCallType, SessionType
       DEF Init, TypeOK, Verdict
<1>2. TypeOK /\ [Next]_vars => TypeOK'
  <2> SUFFICES ASSUME TypeOK, [Next]_vars PROVE TypeOK'
    OBVIOUS
  <2>. conn \in Conn /\ call \in Call /\ app \in App /\ net \in SUBSET Request
    BY DEF TypeOK
  <2>. USE DEF serverVars, clientVars, ghostVars
  <2>1. CASE Connect
    BY <2>1, NewConnType, SessionType DEF Connect, TypeOK, ServerTypeOK, App
  <2>2. CASE ResetSession
    BY <2>2, CloseType, SessionType DEF ResetSession, TypeOK, ServerTypeOK, App
  <2>3. CASE EndSession
    <3>1. app' \in App
      BY <2>3, SessionType DEF EndSession, App
    <3>. QED BY <2>3, <3>1, CloseType DEF EndSession, TypeOK, ServerTypeOK
  <2>4. CASE Close
    BY <2>4, CloseType DEF Close, TypeOK, ServerTypeOK, App
  <2>5. ASSUME NEW kind \in Kind, NEW chunked \in BOOLEAN, NEW tx \in Nat,
               Starts(kind, chunked, tx)
        PROVE  call' \in Call
    BY <2>5, ConnAssumption DEF Starts, NoCall, Call, NoTx
  <2>6. CASE ExecContext
    BY <2>5, <2>6 DEF ExecContext, Starts, TypeOK, ServerTypeOK, App, Kind
  <2>7. CASE BeginTx
    <3>1. txs + 1 \in Nat /\ "begin" \in Kind
      BY DEF TypeOK, Kind
    <3>2. call' \in Call
      BY <2>5, <2>7, <3>1 DEF BeginTx, Begins
    <3>. QED BY <2>7, <3>1, <3>2 DEF BeginTx, Begins, Starts, TypeOK, ServerTypeOK
  <2>8. CASE ExecInChunks
    <3>1. txs + 1 \in Nat /\ "begin" \in Kind
      BY DEF TypeOK, Kind
    <3>2. call' \in Call
      BY <2>5, <2>8, <3>1 DEF ExecInChunks, Begins
    <3>3. verdict' \in Verdict
      BY <2>8, <3>1 DEF ExecInChunks, TypeOK, Verdict
    <3>. QED BY <2>8, <3>1, <3>2, <3>3
         DEF ExecInChunks, Begins, Starts, TypeOK, ServerTypeOK
  <2>9. CASE Commit
    BY <2>5, <2>9 DEF Commit, Starts, TypeOK, ServerTypeOK, App, Kind
  <2>10. CASE Rollback
    BY <2>5, <2>10 DEF Rollback, Starts, TypeOK, ServerTypeOK, App, Kind
  <2>11. CASE SendPipelineRequest
    <3>1. PICK stmts \in SUBSET Stmt :
             /\ net' = net \cup {Message(stmts)}
             /\ call' = [call EXCEPT !.phase = "wait", !.stmt = stmts,
                                     !.id = reqs + 1]
             /\ stmtTx' = [s \in Stmt |-> IF s \in stmts THEN call.tx
                                                          ELSE stmtTx[s]]
      <4>1. \A stmts \in IF CarriesStmt THEN {{s} : s \in Unissued} ELSE {{}} :
              stmts \in SUBSET Stmt
        BY DEF Unissued
      <4>. QED BY <2>11, <4>1 DEF SendPipelineRequest
    <3>2. Message(stmts) \in Request
      BY DEF Message, Request, TypeOK, Conn, Call, App
    <3>3. call' \in Call
      <4>1. reqs + 1 \in Nat
        BY DEF TypeOK
      <4>. QED BY <3>1, <4>1 DEF Call
    <3>4. stmtTx' \in [Stmt -> Nat \cup {NotIssued}]
      BY <3>1 DEF Call, TypeOK
    <3>5. verdict' \in Verdict
      BY <2>11, <3>3 DEF SendPipelineRequest, TypeOK, Call, Verdict
    <3>. QED BY <2>11, <3>1, <3>2, <3>3, <3>4, <3>5
         DEF SendPipelineRequest, TypeOK, ServerTypeOK
  <2>12. CASE ErrBadConn
    BY <2>12, ReturnsType DEF ErrBadConn, TypeOK, ServerTypeOK
  <2>13. CASE ReceiveReply
    <3>1. reply \in Reply
      BY <2>13 DEF ReceiveReply, TypeOK
    <3>2. (reply.http /\ reply.ok) \in BOOLEAN
      BY <3>1 DEF Reply
    <3>. QED BY <2>13, <3>1, <3>2, AfterReplyType, ReturnsType
         DEF ReceiveReply, TypeOK, ServerTypeOK
  <2>14. CASE TransportError
    <3>1. Returns(FALSE, conn)
      BY <2>14 DEF TransportError, AfterTransportError
    <3>2. faults' \in Nat
      BY <2>14 DEF TransportError, TypeOK
    <3>. QED BY <2>14, <3>1, <3>2, ReturnsType DEF TransportError, TypeOK, ServerTypeOK
  <2>15. ASSUME NEW m \in net, ServerExecutes(m) PROVE TypeOK'
    <3>1. PICK n \in ReachedBy(m.url), s \in Stream :
            \E o \in OutcomesOn(m, s) : \E keep \in MayKeep(m, o.tx) :
              /\ Executes(m, n, s, o, keep)
              /\ \/ /\ \E base \in BaseUrls(m.url, n) :
                         Delivers(m, Answer(s, o, keep, base))
                    /\ UNCHANGED faults
                 \/ /\ faults < MaxFaults /\ faults' = faults + 1
                    /\ Delivers(m, Refusal)
      BY <2>15 DEF ServerExecutes
    <3>2. PICK o \in OutcomesOn(m, s), keep \in BOOLEAN :
              /\ Executes(m, n, s, o, keep)
              /\ \/ /\ \E base \in BaseUrls(m.url, n) :
                         Delivers(m, Answer(s, o, keep, base))
                    /\ UNCHANGED faults
                 \/ /\ faults' = faults + 1
                    /\ Delivers(m, Refusal)
      BY <3>1, KeepType
    <3>3. m \in Request /\ n \in Node
      BY ReachedType
    <3>4. /\ ServerTypeOK'
          /\ \A base \in Node \cup {NoUrl} : Answer(s, o, keep, base) \in Reply
      BY <3>2, <3>3, ExecutesType
    <3>5. reply' \in Reply \cup {NoReply} /\ faults' \in Nat
      BY <3>2, <3>3, <3>4, BaseUrlsType, RefusalType DEF Delivers, TypeOK
    <3>. QED BY <2>15, <3>4, <3>5 DEF ServerExecutes, TypeOK
  <2>16. ASSUME NEW m \in net, ServerRefuses(m) PROVE TypeOK'
    BY <2>16, RefusalType DEF ServerRefuses, Delivers, TypeOK, ServerTypeOK
  <2>17. ASSUME NEW m \in net, ServerFails(m) PROVE TypeOK'
    BY <2>17, RefusalType DEF ServerFails, Delivers, TypeOK, ServerTypeOK
  <2>18. CASE StreamExpires
    <3>1. PICK s \in Stream : Expire(s)
      BY <2>18 DEF StreamExpires
    <3>2. stream[s] \in StreamState
      BY DEF TypeOK, ServerTypeOK
    <3>3. [stream[s] EXCEPT !.status = "closed", !.tx = NoTx, !.pending = {}]
            \in StreamState
      BY <3>2 DEF StreamState, NoTx
    <3>4. stream' = [stream EXCEPT ![s] =
             [stream[s] EXCEPT !.status = "closed", !.tx = NoTx, !.pending = {}]]
      BY <3>1, <3>2 DEF Expire, StreamState, TypeOK, ServerTypeOK
    <3>5. ServerTypeOK'
      BY <3>1, <3>3, <3>4 DEF Expire, TypeOK, ServerTypeOK
    <3>. QED BY <2>18, <3>5 DEF StreamExpires, TypeOK
  <2>19. CASE UNCHANGED vars
    BY <2>19 DEF vars, TypeOK, ServerTypeOK
  <2>. QED BY <2>1, <2>2, <2>3, <2>4, <2>6, <2>7, <2>8, <2>9, <2>10, <2>11,
              <2>12, <2>13, <2>14, <2>15, <2>16, <2>17, <2>18, <2>19
       DEF Next, Pool, Calls, Driver, Server, Finished
<1>. QED BY <1>1, <1>2, PTL DEF Spec

-----------------------------------------------------------------------------
(* The invariant behind the theorems on streams.  A baton someone may still *)
(* use (the connection, a request on its way, an answer that has arrived)   *)
(* belongs to a stream that was started, by the session that will use it,   *)
(* on the node the request will reach; and nobody but a close request holds *)
(* a baton of a stream that was given up.                                   *)
Started(b) == b # NoBaton => stream[b[1]].status # "unused"
OfSession(b, sess) == b # NoBaton => stream[b[1]].sess = sess
AtHome(b, url) == b # NoBaton => ReachedBy(url) = {stream[b[1]].node}
Apart(a, b) == a # NoBaton /\ b # NoBaton => a[1] # b[1]

Awaited(m) == call.phase = "wait" /\ m.id = call.id

NotGivenUp(b) == \A m \in net : m.kind = "close" => Apart(m.baton, b)

CallInv ==
  /\ call.phase # "idle" => app.state = "used"
  /\ call.phase = "wait" => call.id <= reqs
  /\ reply # NoReply => call.phase = "wait"
  /\ call.kind # "close"

GoodConn(c) ==
  /\ Started(c.baton) /\ AtHome(c.baton, c.url)
  /\ app.state = "used" => OfSession(c.baton, app.sess) /\ NotGivenUp(c.baton)

GoodRequest(m) ==
  /\ m.id <= reqs
  /\ Started(m.baton) /\ AtHome(m.baton, m.url)
  /\ m.kind # "close" => OfSession(m.baton, m.sess)
  /\ m.kind = "close" => m.baton # NoBaton
  /\ Awaited(m) => /\ m.kind # "close" /\ m.sess = app.sess
                   /\ m.url = conn.url /\ NotGivenUp(m.baton)

GoodReply(r) ==
  /\ Started(r.baton)
  /\ AtHome(r.baton, IF r.baseUrl = NoUrl THEN conn.url ELSE r.baseUrl)
  /\ OfSession(r.baton, app.sess)
  /\ NotGivenUp(r.baton)

StreamInv ==
  /\ CallInv
  /\ GoodConn(conn)
  /\ \A m \in net : GoodRequest(m)
  /\ reply # NoReply => GoodReply(reply)

(* A request that nobody waits for stays good as long as the streams do.    *)
LEMMA UnawaitedRequest ==
  ASSUME StreamInv, NEW m \in net, stream' = stream, reqs' >= reqs,
         reqs \in Nat, reqs' \in Nat, m.id \in Nat, ~Awaited(m)'
  PROVE  GoodRequest(m)'
  BY DEF StreamInv, GoodRequest, Started, OfSession, AtHome

(* A close request for the baton of a connection is good. *)
LEMMA CloseIsGood ==
  ASSUME TypeOK, StreamInv, NEW c \in Conn, GoodConn(c), SendsClose(c),
         stream' = stream, NEW m \in CloseRequests(c), ~Awaited(m)'
  PROVE  GoodRequest(m)'
  BY DEF SendsClose, CloseRequests, GoodConn, GoodRequest, Started, AtHome, TypeOK

(* The request of a call has ended with the connection being c. *)
LEMMA ReturnsKeeps ==
  ASSUME TypeOK, StreamInv, NEW ok \in BOOLEAN, NEW c \in Conn, GoodConn(c),
         app.state = "used", stream' = stream, Returns(ok, c)
  PROVE  StreamInv'
<1>. USE DEF TypeOK
<1>1. reply' = NoReply /\ call'.phase \in {"idle", "send"} /\ call'.kind # "close"
      /\ app'.state = "used" /\ app'.sess = app.sess
  <2>1. NextRequest.phase = "send" /\ NextRequest.kind # "close"
    BY DEF NextRequest, Call
  <2>2. NoCall.phase = "idle" /\ NoCall.kind # "close"
    BY DEF NoCall
  <2>3. app'.state = app.state /\ app'.sess = app.sess
    BY SessionType DEF Returns, Succeeds, App
  <2>. QED BY <2>1, <2>2, <2>3 DEF Returns
<1>2. CASE ok \/ ~GivesStreamUp
  <2>1. conn' = c /\ net' = net /\ reqs' = reqs
    BY <1>2 DEF Returns
  <2>2. GoodConn(conn)'
    BY <1>1, <2>1 DEF GoodConn, Started, AtHome, OfSession, NotGivenUp, Apart
  <2>3. \A m \in net' : GoodRequest(m)'
    BY <1>1, <2>1, UnawaitedRequest DEF Awaited, Request
  <2>. QED BY <1>1, <2>2, <2>3 DEF StreamInv, CallInv
<1>3. CASE ~ok /\ GivesStreamUp
  <2>1. SendsClose(c) /\ conn' = WithoutStream(c)
    BY <1>3 DEF Returns
  <2>2. GoodConn(conn)'
    BY <2>1 DEF GoodConn, WithoutStream, Conn, Started, AtHome, OfSession,
                NotGivenUp, Apart
  <2>3. ASSUME NEW m \in net' PROVE GoodRequest(m)'
    <3>1. reqs' \in Nat /\ reqs' >= reqs /\ net' = net \cup CloseRequests(c)
      BY <2>1 DEF SendsClose
    <3>2. ~Awaited(m)'
      BY <1>1 DEF Awaited
    <3>. QED BY <2>1, <3>1, <3>2, CloseIsGood, UnawaitedRequest DEF Request
  <2>. QED BY <1>1, <2>2, <2>3 DEF StreamInv, CallInv
<1>. QED BY <1>2, <1>3

(* A stream keeps its session and its node for as long as it lives. *)
LEMMA ExecutesKeeps ==
  ASSUME TypeOK, NEW m \in net, NEW n \in Node, NEW s \in Stream,
         Accepts(m, n, s), NEW o, NEW keep \in BOOLEAN,
         Executes(m, n, s, o, keep)
  PROVE  /\ \A t \in Stream : stream[t].status # "unused" =>
              /\ stream'[t].status # "unused"
              /\ stream'[t].node = stream[t].node
              /\ stream'[t].sess = stream[t].sess
         /\ stream'[s].status # "unused" /\ stream'[s].node = n
         /\ stream'[s].sess = SessionOf(m, s)
  BY DEF TypeOK, ServerTypeOK, StreamState, Accepts, Executes, SessionOf

(* Whatever the server does, what was good stays good: the client has not   *)
(* moved, no stream has changed hands, and a new answer is good itself.     *)
LEMMA ServerKeeps ==
  ASSUME TypeOK, StreamInv, net' \subseteq net, UNCHANGED <<conn, call, app, reqs>>,
         \A t \in Stream : stream[t].status # "unused" =>
              /\ stream'[t].status # "unused"
              /\ stream'[t].node = stream[t].node
              /\ stream'[t].sess = stream[t].sess,
         \/ reply' = reply
         \/ call.phase = "wait" /\ GoodReply(reply)'
  PROVE  StreamInv'
<1>. USE DEF TypeOK
<1>1. \A b \in Baton \cup {NoBaton} : b # NoBaton => b[1] \in Stream
  BY DEF Baton
<1>2. \A b \in Baton \cup {NoBaton} : Started(b) =>
        /\ Started(b)'
        /\ \A sess \in Nat : OfSession(b, sess) => OfSession(b, sess)'
        /\ \A url \in Url : AtHome(b, url) => AtHome(b, url)'
  BY <1>1 DEF Started, OfSession, AtHome
<1>3. GoodConn(conn)'
  BY <1>2 DEF StreamInv, GoodConn, NotGivenUp, Conn, App
<1>4. ASSUME NEW q \in net' PROVE GoodRequest(q)'
  BY <1>2 DEF StreamInv, GoodRequest, Awaited, NotGivenUp, Request
<1>5. CallInv'
  BY DEF StreamInv, CallInv
<1>6. ASSUME reply' # NoReply PROVE GoodReply(reply)'
  <2>1. CASE reply' = reply
    <3>1. /\ reply.baton \in Baton \cup {NoBaton}
          /\ (IF reply.baseUrl = NoUrl THEN conn.url ELSE reply.baseUrl) \in Url
      BY <1>6, <2>1 DEF Reply, Conn, Url
    <3>. QED BY <1>2, <1>6, <2>1, <3>1 DEF StreamInv, GoodReply, NotGivenUp, App
  <2>. QED BY <2>1
<1>. QED BY <1>3, <1>4, <1>5, <1>6 DEF StreamInv

(* Serving a request keeps StreamInv, given that its answer has a good     *)
(* baton.                                                                  *)
LEMMA ServedKeeps ==
  ASSUME TypeOK, StreamInv, NEW m \in net, NEW r \in Reply, net' = net \ {m},
         Delivers(m, r), UNCHANGED <<conn, call, app, reqs>>,
         \A t \in Stream : stream[t].status # "unused" =>
              /\ stream'[t].status # "unused"
              /\ stream'[t].node = stream[t].node
              /\ stream'[t].sess = stream[t].sess,
         Awaited(m) => GoodReply(r)'
  PROVE  StreamInv'
<1>1. \/ reply' = reply
      \/ call.phase = "wait" /\ GoodReply(reply)'
  <2>1. CASE Awaited(m)
    <3>1. reply' = r
      BY <2>1 DEF Delivers, Awaited
    <3>. QED BY <2>1, <3>1 DEF Awaited, GoodReply
  <2>2. CASE ~Awaited(m)
    <3>1. reply' = reply
      BY <2>2 DEF Delivers, Awaited
    <3>. QED BY <3>1
  <2>. QED BY <2>1, <2>2
<1>. QED BY <1>1, ServerKeeps

(* The answer of the server names the stream that executed the request.     *)
LEMMA AnswerIsGood ==
  ASSUME TypeOK, StreamInv, NEW m \in net, net' = net \ {m},
         NEW n \in ReachedBy(m.url), NEW s \in Stream, Accepts(m, n, s),
         NEW o, NEW keep \in BOOLEAN, NEW base \in BaseUrls(m.url, n),
         Executes(m, n, s, o, keep), Awaited(m), UNCHANGED <<conn, app>>,
         NEW r, r = Answer(s, o, keep, base)
  PROVE  GoodReply(r)'
<1>1. CASE ~keep
  <2>1. r.baton = NoBaton
    BY <1>1 DEF Answer
  <2>. QED BY <2>1 DEF GoodReply, Started, AtHome, OfSession, NotGivenUp, Apart
<1>2. CASE keep
  <2>1. r.baton = <<s, stream[s].gen + 1>> /\ r.baseUrl = base
    BY <1>2 DEF Answer
  <2>2. n \in Node /\ m \in Request
    BY ReachedType DEF TypeOK
  <2>3. /\ stream'[s].status # "unused" /\ stream'[s].node = n
        /\ stream'[s].sess = SessionOf(m, s)
    BY <2>2, ExecutesKeeps
  <2>4. GoodRequest(m) /\ m.sess = app.sess /\ m.url = conn.url
        /\ m.kind # "close" /\ NotGivenUp(m.baton)
    BY DEF StreamInv, GoodRequest
  <2>5. SessionOf(m, s) = app.sess
    BY <2>4 DEF SessionOf, GoodRequest, OfSession, Accepts
  <2>6. ReachedBy(IF base = NoUrl THEN conn.url ELSE base) = {n}
    BY <2>2, <2>4, ServerAssumption DEF BaseUrls, ReachedBy
  <2>7. ASSUME NEW q \in net', q.kind = "close" PROVE Apart(q.baton, r.baton)
    <3>1. Apart(q.baton, m.baton) /\ Started(q.baton)
      BY <2>4, <2>7 DEF NotGivenUp, StreamInv, GoodRequest
    <3>. QED BY <2>1, <3>1 DEF Apart, Started, Accepts
  <2>8. r.baton # NoBaton /\ r.baton[1] = s
    BY <2>1, ServerAssumption DEF TypeOK, ServerTypeOK, StreamState
  <2>. QED BY <2>1, <2>3, <2>5, <2>6, <2>7, <2>8
       DEF GoodReply, Started, AtHome, OfSession, NotGivenUp
<1>. QED BY <1>1, <1>2

(* A refusal names no stream. *)
LEMMA RefusalIsGood == GoodReply(Refusal)'
  BY DEF GoodReply, Refusal, Started, AtHome, OfSession, NotGivenUp, Apart

(* A new session: the connection is new, or has given up its stream. *)
LEMMA FreshConn ==
  ASSUME NEW c, c.baton = NoBaton, conn' = c
  PROVE  GoodConn(conn)'
  BY DEF GoodConn, Started, AtHome, OfSession, NotGivenUp, Apart

(* StreamInv holds when the connection is made.                            *)
LEMMA StreamInvInit == Init => StreamInv
  BY DEF Init, StreamInv, CallInv, GoodConn, NewConn, NoCall, Started, AtHome,
         OfSession, NotGivenUp, Apart

(* Every action of HranaConn preserves StreamInv.                          *)
LEMMA StreamInvNext == TypeOK /\ StreamInv /\ [Next]_vars => StreamInv'
<1> SUFFICES ASSUME TypeOK, StreamInv, [Next]_vars PROVE StreamInv'
  OBVIOUS
<1>. USE DEF TypeOK, serverVars, clientVars, ghostVars
<1>0. /\ \A m \in net : GoodRequest(m) /\ m \in Request
      /\ CallInv /\ GoodConn(conn) /\ (reply # NoReply => GoodReply(reply))
  BY DEF StreamInv
<1>1. CASE Connect
  <2>1. call.phase = "idle" /\ reply = NoReply
    BY <1>0, <1>1 DEF Connect, CallInv
  <2>2. GoodConn(conn)'
    <3>1. NewConn.baton = NoBaton
      BY DEF NewConn
    <3>. QED BY <1>1, <3>1, FreshConn DEF Connect
  <2>3. \A m \in net' : GoodRequest(m)'
    BY <1>0, <1>1, <2>1, UnawaitedRequest DEF Connect, Awaited, Request
  <2>. QED BY <1>0, <1>1, <2>1, <2>2, <2>3 DEF Connect, StreamInv, CallInv
<1>2. ASSUME app.state = "used" => call.phase = "idle",
             SendsClose(conn), stream' = stream, call' = call, NEW m \in net'
      PROVE  GoodRequest(m)'
  <2>1. call.phase = "idle"
    BY <1>0, <1>2 DEF CallInv
  <2>2. reqs' \in Nat /\ reqs' >= reqs /\ net' = net \cup CloseRequests(conn)
    BY <1>2 DEF SendsClose
  <2>. QED BY <1>0, <1>2, <2>1, <2>2, CloseIsGood, UnawaitedRequest
       DEF Awaited, Request
<1>3. CASE ResetSession
  <2>1. GoodConn(conn)'
    BY <1>3, FreshConn DEF ResetSession, WithoutStream, Conn
  <2>. QED BY <1>0, <1>2, <1>3, <2>1 DEF ResetSession, StreamInv, CallInv
<1>4. CASE EndSession
  <2>1. GoodConn(conn)'
    <3>1. app'.state # "used" /\ app'.sess = app.sess
      BY <1>4, SessionType DEF EndSession, App
    <3>. QED BY <1>0, <1>4, <3>1 DEF EndSession, GoodConn, Started, AtHome
  <2>2. \A m \in net' : GoodRequest(m)'
    <3>1. CASE IsValid(conn)
      BY <1>0, <1>4, <3>1, UnawaitedRequest DEF EndSession, Awaited, Request
    <3>2. CASE ~IsValid(conn)
      BY <1>2, <1>4, <3>2 DEF EndSession
    <3>. QED BY <3>1, <3>2
  <2>. QED BY <1>0, <1>4, <2>1, <2>2 DEF EndSession, StreamInv, CallInv
<1>5. CASE Close
  <2>1. GoodConn(conn)'
    BY <1>0, <1>5 DEF Close, GoodConn, Started, AtHome, App
  <2>2. \A m \in net' : GoodRequest(m)'
    <3>1. SendsClose(conn) /\ stream' = stream /\ call' = call /\ app.state = "idle"
      BY <1>5 DEF Close
    <3>. QED BY <1>2, <3>1
  <2>. QED BY <1>0, <1>5, <2>1, <2>2 DEF Close, StreamInv, CallInv
<1>6. ASSUME NEW kind \in {"exec", "begin", "commit", "rollback"},
             NEW chunked \in BOOLEAN, NEW tx \in Nat, Starts(kind, chunked, tx)
      PROVE  StreamInv'
  <2>1. call'.phase = "send" /\ call'.kind = kind
    BY <1>6 DEF Starts, NoCall
  <2>2. \A m \in net' : GoodRequest(m)'
    BY <1>0, <1>6, <2>1, UnawaitedRequest DEF Starts, Awaited, Request
  <2>3. GoodConn(conn)'
    BY <1>0, <1>6 DEF Starts, GoodConn, Started, AtHome, OfSession, NotGivenUp
  <2>. QED BY <1>0, <1>6, <2>1, <2>2, <2>3 DEF Starts, StreamInv, CallInv
<1>7. CASE Calls
  <2>1. app.tx \in Nat /\ txs + 1 \in Nat
    BY DEF App
  <2>2. CASE ExecContext
    BY <1>6, <2>1, <2>2 DEF ExecContext
  <2>3. CASE BeginTx
    BY <1>6, <2>1, <2>3 DEF BeginTx, Begins
  <2>4. CASE ExecInChunks
    BY <1>6, <2>1, <2>4 DEF ExecInChunks, Begins
  <2>5. CASE Commit
    BY <1>6, <2>1, <2>5 DEF Commit
  <2>6. CASE Rollback
    BY <1>6, <2>1, <2>6 DEF Rollback
  <2>. QED BY <1>7, <2>2, <2>3, <2>4, <2>5, <2>6 DEF Calls
<1>8. CASE SendPipelineRequest
  <2>1. PICK stmts : /\ net' = net \cup {Message(stmts)}
                     /\ call' = [call EXCEPT !.phase = "wait", !.stmt = stmts,
                                             !.id = reqs + 1]
    BY <1>8 DEF SendPipelineRequest
  <2>2. /\ call'.phase = "wait" /\ call'.id = reqs + 1 /\ call'.kind = call.kind
        /\ reqs' = reqs + 1 /\ reply = NoReply /\ app.state = "used"
        /\ UNCHANGED <<stream, conn, app, reply>>
    BY <1>0, <1>8, <2>1 DEF SendPipelineRequest, CallInv, Call
  <2>3. NotGivenUp(conn.baton)' /\ GoodConn(conn)'
    BY <1>0, <2>1, <2>2 DEF GoodConn, NotGivenUp, Started, AtHome, OfSession,
                            Message, CallInv
  <2>4. ASSUME NEW m, m = Message(stmts) PROVE GoodRequest(m)'
    <3>1. /\ m.id = reqs' /\ m.baton = conn'.baton /\ m.url = conn'.url
          /\ m.kind = call.kind /\ m.sess = app'.sess
      BY <2>2, <2>4 DEF Message
    <3>. QED BY <1>0, <2>2, <2>3, <3>1 DEF GoodRequest, GoodConn, CallInv
  <2>5. ASSUME NEW m \in net PROVE GoodRequest(m)'
    BY <1>0, <2>2, <2>5, UnawaitedRequest DEF Awaited, GoodRequest, Request
  <2>6. \A m \in net' : GoodRequest(m)'
    BY <2>1, <2>4, <2>5
  <2>. QED BY <1>0, <2>2, <2>3, <2>6 DEF StreamInv, CallInv
<1>9. CASE ErrBadConn
  BY <1>0, <1>9, ReturnsKeeps DEF ErrBadConn, CallInv
<1>10. CASE ReceiveReply
  <2>1. reply \in Reply /\ app.state = "used" /\ GoodReply(reply)
    BY <1>0, <1>10 DEF ReceiveReply, CallInv
  <2>2. GoodConn(AfterReply(conn, reply))
    BY <1>0, <2>1 DEF GoodConn, GoodReply, AfterReply, Conn
  <2>3. (reply.http /\ reply.ok) \in BOOLEAN
    BY <2>1 DEF Reply
  <2>. QED BY <1>10, <2>1, <2>2, <2>3, ReturnsKeeps, AfterReplyType
       DEF ReceiveReply
<1>11. CASE TransportError
  <2>1. Returns(FALSE, conn) /\ app.state = "used" /\ stream' = stream
    BY <1>0, <1>11 DEF TransportError, AfterTransportError, CallInv
  <2>. QED BY <1>0, <2>1, ReturnsKeeps
<1>12. ASSUME NEW m \in net, ServerExecutes(m) PROVE StreamInv'
  <2>1. PICK n \in ReachedBy(m.url), s \in Stream :
          /\ Accepts(m, n, s)
          /\ \E o \in OutcomesOn(m, s) : \E keep \in MayKeep(m, o.tx) :
              /\ Executes(m, n, s, o, keep)
              /\ \/ \E base \in BaseUrls(m.url, n) :
                      Delivers(m, Answer(s, o, keep, base))
                 \/ Delivers(m, Refusal)
    BY <1>12 DEF ServerExecutes
  <2>2. PICK o \in OutcomesOn(m, s), keep \in BOOLEAN :
              /\ Executes(m, n, s, o, keep)
              /\ \/ \E base \in BaseUrls(m.url, n) :
                      Delivers(m, Answer(s, o, keep, base))
                 \/ Delivers(m, Refusal)
    BY <2>1, KeepType
  <2>3. n \in Node /\ m \in Request
    BY <1>0, ReachedType
  <2>4. net' = net \ {m} /\ UNCHANGED <<conn, call, app, reqs>>
    BY <1>12 DEF ServerExecutes
  <2>5. \A t \in Stream : stream[t].status # "unused" =>
              /\ stream'[t].status # "unused"
              /\ stream'[t].node = stream[t].node
              /\ stream'[t].sess = stream[t].sess
    BY <2>1, <2>2, <2>3, ExecutesKeeps
  <2>6. CASE Delivers(m, Refusal)
    BY <2>4, <2>5, <2>6, RefusalType, RefusalIsGood, ServedKeeps
  <2>7. ASSUME NEW base \in BaseUrls(m.url, n),
               Delivers(m, Answer(s, o, keep, base))
        PROVE  StreamInv'
    <3>1. PICK r \in Reply : r = Answer(s, o, keep, base)
      BY <2>2, <2>3, ExecutesType, BaseUrlsType
    <3>2. Awaited(m) => GoodReply(r)'
      BY <2>1, <2>2, <2>4, <3>1, AnswerIsGood
    <3>. QED BY <2>4, <2>5, <2>7, <3>1, <3>2, ServedKeeps
  <2>. QED BY <2>2, <2>6, <2>7
<1>13. ASSUME NEW m \in net, ServerRefuses(m) \/ ServerFails(m) PROVE StreamInv'
  <2>1. /\ net' = net \ {m} /\ Delivers(m, Refusal)
        /\ UNCHANGED <<stream, conn, call, app, reqs>>
    BY <1>13 DEF ServerRefuses, ServerFails
  <2>. QED BY <2>1, RefusalType, RefusalIsGood, ServedKeeps
<1>14. CASE StreamExpires
  <2>1. PICK s \in Stream : Expire(s)
    BY <1>14 DEF StreamExpires
  <2>2. \A t \in Stream : /\ stream[t].status # "unused" => stream'[t].status # "unused"
                         /\ stream'[t].node = stream[t].node
                         /\ stream'[t].sess = stream[t].sess
    BY <2>1 DEF Expire, ServerTypeOK, StreamState
  <2>. QED BY <1>14, <2>2, ServerKeeps DEF StreamExpires
<1>15. CASE UNCHANGED vars
  BY <1>15 DEF vars, StreamInv, CallInv, GoodConn, GoodRequest, GoodReply,
     Started, AtHome, OfSession, NotGivenUp, Awaited
<1>. QED BY <1>1, <1>3, <1>4, <1>5, <1>7, <1>8, <1>9, <1>10, <1>11, <1>12,
            <1>13, <1>14, <1>15
     DEF Next, Pool, Driver, Server, Finished

(* Every baton the client, a request or an answer carries names a started  *)
(* stream of its own session, on the node its address leads to             *)
(* (hranaV2.go:242-252).                                                   *)
THEOREM StreamInvariance == Spec => []StreamInv
  BY TypeCorrect, StreamInvInit, StreamInvNext, PTL DEF Spec

(* Whoever borrows the connection next, its statements never run on a       *)
(* stream an earlier session opened.                                        *)
THEOREM SessionIsolation == Spec => []SessionsAreIsolated
<1>1. TypeOK /\ StreamInv => SessionsAreIsolated
  BY DEF SessionsAreIsolated, StreamInv, GoodRequest, OfSession
<1>. QED BY <1>1, TypeCorrect, StreamInvariance, PTL

(* A close request in flight and the statements of the session that sent it *)
(* are never about the same stream.                                         *)
THEOREM GivenUpForGood == Spec => []GivenUpStreamsAreLeftAlone
<1>1. TypeOK /\ StreamInv => GivenUpStreamsAreLeftAlone
  <2> SUFFICES ASSUME StreamInv, NEW m \in net, m.kind = "close",
                      app.state = "used", conn.baton # NoBaton
               PROVE  conn.baton[1] # m.baton[1]
    BY DEF GivenUpStreamsAreLeftAlone
  <2>. QED BY DEF StreamInv, GoodConn, GoodRequest, NotGivenUp, Apart
<1>. QED BY <1>1, TypeCorrect, StreamInvariance, PTL

(* Every request that carries a baton reaches the one node that has the     *)
(* stream, through any sequence of answers that move the client elsewhere.  *)
THEOREM Routing == Spec => []BatonsGoHome
<1>1. TypeOK /\ StreamInv => BatonsGoHome
  BY DEF BatonsGoHome, StreamInv, GoodRequest, AtHome
<1>. QED BY <1>1, TypeCorrect, StreamInvariance, PTL

-----------------------------------------------------------------------------
(* The invariant behind TxEffectsNeedCommit.  It relies on what             *)
(* hranaV2.go:100-102 says of the server: a stream that is not inside a     *)
(* transaction does not outlive the answer.  Hence a baton that works names *)
(* the one transaction its stream was opened for, and what the client adds  *)
(* to a transaction carries such a baton or is not sent at all.             *)
EagerClose == KeepIdle \subseteq {FALSE}

InTx(b, tx) ==
  /\ b # NoBaton
  /\ stream[b[1]].status = "open" => stream[b[1]].tx = tx

(* The transaction the connection is in, as the driver and the application *)
(* see it.                                                                  *)
InChunks == call.phase # "idle" /\ call.chunked /\ call.kind # "begin"
CurrentTx == IF InChunks THEN call.tx ELSE app.tx

TxStream(s) ==
  stream[s].status = "open" =>
    /\ stream[s].tx # NoTx
    /\ \A p \in stream[s].pending : stmtTx[p] \in {NoTx, stream[s].tx}

TxRequest(m) ==
  /\ m.kind = "begin" => m.tx # NoTx
  /\ \A s \in m.stmt : stmtTx[s] = m.tx
  /\ m.kind \in {"exec", "chunk"} /\ m.tx # NoTx => InTx(m.baton, m.tx)
  /\ m.kind = "commit" => m.tx \in verdict.asked /\ InTx(m.baton, m.tx)
  /\ Awaited(m) => m.kind = call.kind /\ m.tx = call.tx /\ m.baton = conn.baton

TxCall ==
  /\ InChunks => app.tx = NoTx
  /\ call.phase # "idle" =>
       /\ call.kind # "exec" => call.tx # NoTx
       /\ ~call.chunked /\ call.kind # "begin" => call.tx = app.tx
       /\ call.chunked => call.kind \in {"begin", "chunk", "commit"}
       /\ call.kind = "chunk" => call.chunked
  /\ call.phase = "wait" => ~conn.streamClosed

TxConn(c, tx) == ~c.streamClosed /\ tx # NoTx => InTx(c.baton, tx)

TxReply(r) ==
  r.http =>
    IF call.kind = "begin" /\ r.ok
    THEN app.tx = NoTx /\ InTx(r.baton, call.tx)
    ELSE r.baton # NoBaton /\ CurrentTx # NoTx => InTx(r.baton, CurrentTx)

TxInv ==
  /\ \A s \in Stream : TxStream(s)
  /\ \A m \in net : TxRequest(m)
  /\ TxCall
  /\ TxConn(conn, CurrentTx)
  /\ reply # NoReply => TxReply(reply)
  /\ TxEffectsNeedCommit

(* TxInv holds when the connection is made.                                *)
LEMMA TxInvInit == Init => TxInv
<1>. SUFFICES ASSUME Init PROVE TxInv
  OBVIOUS
<1>1. \A s \in Stream : stream[s].status = "unused"
  BY DEF Init, ServerInit
<1>. QED
  BY <1>1 DEF Init, ServerInit, TxInv, TxStream, TxCall, TxConn, CurrentTx,
              InChunks, NoCall, NewSession, TxEffectsNeedCommit

(* A step of the client that issues no statement leaves the streams, what   *)
(* is durable and every request already sent as they were.                  *)
LEMMA ClientKeepsTx ==
  ASSUME TypeOK, TxInv, stream' = stream, committed' = committed,
         stmtTx' = stmtTx, verdict'.asked = verdict.asked
  PROVE  /\ \A s \in Stream : TxStream(s)'
         /\ TxEffectsNeedCommit'
         /\ \A m \in net : ~Awaited(m)' => TxRequest(m)'
<1>1. \A s \in Stream : TxStream(s)'
  BY DEF TxInv, TxStream
<1>2. TxEffectsNeedCommit'
  BY DEF TxInv, TxEffectsNeedCommit
<1>3. ASSUME NEW m \in net, ~Awaited(m)' PROVE TxRequest(m)'
  BY <1>3 DEF TxInv, TxRequest, InTx
<1>. QED BY <1>1, <1>2, <1>3

(* The requests of Close and closeStream belong to no transaction.         *)
LEMMA CloseIsNoTxRequest ==
  ASSUME NEW c, NEW m \in CloseRequests(c), ~Awaited(m)'
  PROVE  TxRequest(m)'
  BY DEF CloseRequests, TxRequest

(* The request of a call has ended with the connection being c. *)
LEMMA ReturnsKeepsTx ==
  ASSUME TypeOK, StreamInv, TxInv, NEW ok \in BOOLEAN, NEW c \in Conn,
         call.phase # "idle", Returns(ok, c),
         stream' = stream, committed' = committed, stmtTx' = stmtTx,
         ok /\ call.kind = "begin" => app.tx = NoTx /\ TxConn(c, call.tx),
         ok /\ call.kind # "begin" => TxConn(c, CurrentTx),
         ~ok /\ ~GivesStreamUp => TxConn(c, app.tx)
  PROVE  TxInv'
<1>. USE DEF TypeOK
<1>1. reply' = NoReply /\ call'.phase \in {"idle", "send"}
  <2>1. NextRequest.phase = "send" /\ NoCall.phase = "idle"
    BY DEF NextRequest, NoCall, Call
  <2>. QED BY <2>1 DEF Returns
<1>2. verdict'.asked = verdict.asked
  BY DEF Returns, Succeeds, Verdict
<1>3. /\ \A s \in Stream : TxStream(s)'
      /\ TxEffectsNeedCommit'
      /\ \A m \in net : ~Awaited(m)' => TxRequest(m)'
  BY <1>2, ClientKeepsTx
<1>4. ASSUME NEW m \in net' PROVE TxRequest(m)'
  <2>1. ~Awaited(m)'
    BY <1>1 DEF Awaited
  <2>2. m \in net \/ m \in CloseRequests(c)
    BY <1>4 DEF Returns, SendsClose
  <2>. QED BY <1>3, <2>1, <2>2, CloseIsNoTxRequest
<1>5. TxCall
  BY DEF TxInv
<1>6. CASE ok /\ HasNext
  <2>1. /\ call' = NextRequest /\ conn' = c /\ app'.tx = app.tx
        /\ call.chunked /\ call.kind # "commit"
    BY <1>6 DEF Returns, Succeeds, HasNext, App
  <2>2. /\ call'.tx = call.tx /\ call'.phase = "send" /\ call'.chunked
        /\ call'.kind \in {"chunk", "commit"}
    BY <2>1 DEF NextRequest, Call
  <2>3. call.tx # NoTx /\ app.tx = NoTx
    BY <1>5, <1>6, <2>1 DEF TxCall, InChunks
  <2>4. TxConn(c, call.tx)
    BY <1>6, <2>1 DEF CurrentTx, InChunks
  <2>5. TxCall' /\ TxConn(conn, CurrentTx)'
    BY <2>1, <2>2, <2>3, <2>4 DEF TxCall, TxConn, CurrentTx, InChunks, InTx
  <2>. QED BY <1>1, <1>3, <1>4, <2>5 DEF TxInv
<1>7. CASE ok /\ ~HasNext
  <2>1. call' = NoCall /\ conn' = c
    BY <1>7 DEF Returns
  <2>2. TxCall' /\ CurrentTx' = app'.tx
    BY <2>1 DEF TxCall, CurrentTx, InChunks, NoCall
  <2>3. TxConn(c, app'.tx)
    <3>1. CASE call.chunked
      BY <1>5, <1>7, <3>1 DEF Returns, Succeeds, App, HasNext, TxCall, TxConn,
                              InChunks
    <3>2. CASE ~call.chunked /\ call.kind = "exec"
      BY <1>7, <3>2 DEF Returns, Succeeds, App, CurrentTx, InChunks
    <3>3. CASE ~call.chunked /\ call.kind = "begin"
      BY <1>7, <3>3 DEF Returns, Succeeds, App
    <3>4. CASE ~call.chunked /\ call.kind \notin {"exec", "begin"}
      BY <1>7, <3>4 DEF Returns, Succeeds, App, TxConn
    <3>. QED BY <3>1, <3>2, <3>3, <3>4 DEF Call
  <2>4. TxConn(conn, CurrentTx)'
    BY <2>1, <2>2, <2>3 DEF TxConn, InTx
  <2>. QED BY <1>1, <1>3, <1>4, <2>2, <2>4 DEF TxInv
<1>8. CASE ~ok
  <2>1. call' = NoCall /\ app'.tx \in {app.tx, NoTx}
    BY <1>8 DEF Returns, AfterFailure, App
  <2>2. TxCall' /\ CurrentTx' \in {app.tx, NoTx}
    BY <2>1 DEF TxCall, CurrentTx, InChunks, NoCall
  <2>3. GivesStreamUp => app.tx = NoTx
    BY <1>5 DEF GivesStreamUp, TxCall, InChunks
  <2>4. ~GivesStreamUp => conn' = c
    BY <1>8 DEF Returns
  <2>5. TxConn(conn, CurrentTx)'
    BY <1>8, <2>2, <2>3, <2>4 DEF TxConn, InTx
  <2>. QED BY <1>1, <1>3, <1>4, <2>2, <2>5 DEF TxInv
<1>. QED BY <1>6, <1>7, <1>8

(* What the server does to one stream leaves every other transaction alone: *)
(* a baton that names a stream in a transaction goes on naming it.          *)
LEMMA ServerKeepsTx ==
  ASSUME TypeOK, StreamInv, TxInv, net' \subseteq net,
         UNCHANGED <<conn, call, app, stmtTx, verdict>>,
         \A t \in Stream :
           stream[t].status # "unused" /\ stream'[t].status = "open" =>
             stream[t].status = "open" /\ stream'[t].tx = stream[t].tx,
         \A t \in Stream : TxStream(t)',
         TxEffectsNeedCommit',
         \/ reply' = reply
         \/ call.phase = "wait" /\ TxReply(reply)'
  PROVE  TxInv'
<1>. USE DEF TypeOK
<1>1. ASSUME NEW b \in Baton \cup {NoBaton}, NEW tx, Started(b), InTx(b, tx)
      PROVE  InTx(b, tx)'
  BY <1>1 DEF Started, InTx, Baton
<1>2. CurrentTx' = CurrentTx /\ TxCall'
  BY DEF TxInv, TxCall, CurrentTx, InChunks
<1>3. TxConn(conn, CurrentTx)'
  BY <1>1, <1>2 DEF TxInv, TxConn, StreamInv, GoodConn, Conn
<1>4. ASSUME NEW q \in net' PROVE TxRequest(q)'
  <2>1. Started(q.baton) /\ q.baton \in Baton \cup {NoBaton}
    BY DEF StreamInv, GoodRequest, Request
  <2>2. \A tx : InTx(q.baton, tx) => InTx(q.baton, tx)'
    BY <1>1, <2>1
  <2>. QED BY <2>2 DEF TxInv, TxRequest, Awaited
<1>5. ASSUME reply' # NoReply PROVE TxReply(reply)'
  <2>1. CASE reply' = reply
    <3>1. Started(reply.baton) /\ reply.baton \in Baton \cup {NoBaton}
      BY <1>5, <2>1 DEF StreamInv, GoodReply, Reply
    <3>2. \A tx : InTx(reply.baton, tx) => InTx(reply.baton, tx)'
      BY <1>1, <2>1, <3>1
    <3>3. TxReply(reply)
      BY <1>5, <2>1 DEF TxInv
    <3>. QED BY <1>2, <2>1, <3>2, <3>3 DEF TxReply
  <2>. QED BY <2>1
<1>. QED BY <1>2, <1>3, <1>4, <1>5 DEF TxInv

(* The request m has been executed on stream s with outcome o.              *)
LEMMA ExecutesKeepsTx ==
  ASSUME TypeOK, StreamInv, TxInv, EagerClose, NEW m \in net, net' = net \ {m},
         UNCHANGED <<conn, call, app, stmtTx, verdict>>,
         NEW n \in ReachedBy(m.url), NEW s \in Stream, Accepts(m, n, s),
         NEW o \in OutcomesOn(m, s), NEW keep \in MayKeep(m, o.tx),
         Executes(m, n, s, o, keep),
         NEW base \in BaseUrls(m.url, n),
         Delivers(m, Answer(s, o, keep, base)) \/ Delivers(m, Refusal)
  PROVE  TxInv'
<1>. USE DEF TypeOK
<1>. DEFINE tx == IF m.baton = NoBaton THEN NoTx ELSE stream[s].tx
            pending == IF m.baton = NoBaton THEN {} ELSE stream[s].pending
<1>1. m \in Request /\ tx \in Nat /\ pending \in SUBSET Stmt
  BY DEF ServerTypeOK, StreamState, NoTx
<1>2. OutcomeShape(m, tx, pending, o)
  <2>1. o \in Outcomes(m, tx, pending)
    BY DEF OutcomesOn
  <2>. HIDE DEF tx, pending
  <2>. QED BY <1>1, <2>1, OutcomeShapes
<1>3. keep => o.tx # NoTx
  BY DEF MayKeep, EagerClose
<1>4. TxRequest(m) /\ TxStream(s)
  BY DEF TxInv
<1>5. m.baton # NoBaton =>
        /\ stream[s].status = "open" /\ stream[s].tx # NoTx
        /\ m.baton[1] = s /\ tx = stream[s].tx /\ pending = stream[s].pending
        /\ \A p \in pending : stmtTx[p] \in {NoTx, tx}
  BY <1>4 DEF Accepts, TxStream
<1>6. m.baton = NoBaton =>
        stream[s].status = "unused" /\ tx = NoTx /\ pending = {}
  BY DEF Accepts
<1>. HIDE DEF tx, pending
<1>7. stream'[s].status = (IF keep THEN "open" ELSE "closed")
      /\ stream'[s].tx = o.tx /\ stream'[s].pending = o.pending
      /\ \A t \in Stream \ {s} : stream'[t] = stream[t]
  BY DEF Executes, ServerTypeOK
<1>8. m.baton # NoBaton /\ keep => o.tx = tx
  BY <1>2, <1>3, <1>5 DEF OutcomeShape, Applies, Unchanged, Ends, Leaves
<1>9. ASSUME NEW t \in Stream, stream[t].status # "unused",
             stream'[t].status = "open"
      PROVE  stream[t].status = "open" /\ stream'[t].tx = stream[t].tx
  BY <1>5, <1>6, <1>7, <1>8, <1>9
<1>10. m.kind \in {"exec", "chunk"} =>
         \A p \in m.stmt : stmtTx[p] \in {NoTx, tx}
  BY <1>4, <1>5 DEF TxRequest, InTx
<1>11. ASSUME NEW t \in Stream PROVE TxStream(t)'
  <2>1. CASE t = s /\ keep
    <3>1. \A p \in o.pending : stmtTx[p] \in {NoTx, o.tx}
      <4>1. CASE m.baton # NoBaton
        BY <1>2, <1>3, <1>5, <1>8, <1>10, <2>1, <4>1
           DEF OutcomeShape, Applies, Unchanged, Ends, Leaves
      <4>2. CASE m.baton = NoBaton
        BY <1>2, <1>3, <1>6, <2>1, <4>2
           DEF OutcomeShape, Applies, Unchanged, Ends, Leaves
      <4>. QED BY <4>1, <4>2
    <3>. QED BY <1>3, <1>7, <2>1, <3>1 DEF TxStream
  <2>2. CASE t = s /\ ~keep
    BY <1>7, <2>2 DEF TxStream
  <2>3. CASE t # s
    BY <1>7, <2>3 DEF TxStream, TxInv
  <2>. QED BY <2>1, <2>2, <2>3
<1>12. TxEffectsNeedCommit'
  <2>1. \A p \in o.durable : stmtTx[p] \in {NoTx} \cup verdict.asked
    <3>1. CASE m.kind \in {"exec", "chunk"} /\ o = Applies(m, tx, pending)
      BY <1>10, <3>1 DEF Applies, Leaves
    <3>2. CASE m.kind = "commit" /\ tx # NoTx /\ o = Ends(TRUE, pending)
      BY <1>4, <1>5, <1>6, <3>2 DEF Ends, Leaves, TxRequest, InTx
    <3>3. CASE o.durable = {}
      BY <3>3
    <3>. QED BY <1>2, <3>1, <3>2, <3>3 DEF OutcomeShape, Unchanged, Ends, Leaves
  <2>. QED BY <2>1 DEF Executes, TxInv, TxEffectsNeedCommit
<1>13. ASSUME NEW r, r = Answer(s, o, keep, base), Awaited(m)
       PROVE  TxReply(r)'
  <2>1. /\ m.kind = call.kind /\ m.tx = call.tx /\ m.baton = conn.baton
        /\ call.phase = "wait" /\ ~conn.streamClosed
    BY <1>4, <1>13 DEF TxRequest, Awaited, TxInv, TxCall
  <2>2. CurrentTx # NoTx /\ m.baton # NoBaton => tx = CurrentTx
    BY <1>5, <2>1 DEF TxInv, TxConn, InTx
  <2>3. /\ r.ok = o.ok
        /\ keep => r.baton # NoBaton /\ r.baton[1] = s
        /\ ~keep => r.baton = NoBaton
    BY <1>13, ServerAssumption DEF Answer, ServerTypeOK, StreamState
  <2>4. CurrentTx # NoTx => m.baton # NoBaton
    BY <2>1 DEF TxInv, TxConn, InTx
  <2>5. CASE call.kind = "begin" /\ r.ok
    <3>1. tx = NoTx /\ o = Unchanged(TRUE, TRUE, m.tx, {})
      <4>1. o.ok /\ o \in Outcomes(m, tx, pending)
        BY <2>3, <2>5 DEF OutcomesOn, tx, pending
      <4>. QED BY <2>1, <2>5, <4>1 DEF Outcomes, Unchanged, Leaves
    <3>2. o.tx = call.tx /\ call.tx # NoTx
      BY <1>4, <2>1, <2>5, <3>1 DEF Unchanged, Leaves, TxRequest
    <3>3. keep
      BY <2>1, <2>5, <3>2 DEF MayKeep
    <3>4. CurrentTx = NoTx
      BY <2>2, <2>4, <3>1
    <3>5. app.tx = NoTx
      BY <2>5, <3>4 DEF CurrentTx, InChunks
    <3>. QED BY <1>7, <2>3, <2>5, <3>2, <3>3, <3>5 DEF TxReply, InTx
  <2>6. CASE ~(call.kind = "begin" /\ r.ok)
    <3>1. r.baton # NoBaton /\ CurrentTx # NoTx => stream'[s].tx = CurrentTx
      BY <1>7, <1>8, <2>2, <2>3, <2>4
    <3>. QED BY <2>3, <2>6, <3>1 DEF TxReply, InTx, CurrentTx, InChunks
  <2>. QED BY <2>5, <2>6
<1>14. \/ reply' = reply
       \/ call.phase = "wait" /\ TxReply(reply)'
  <2>1. ASSUME NEW r, r = Answer(s, o, keep, base) \/ r = Refusal, Delivers(m, r)
        PROVE  \/ reply' = reply
               \/ call.phase = "wait" /\ TxReply(reply)'
    <3>1. CASE ~Awaited(m)
      BY <2>1, <3>1 DEF Delivers, Awaited
    <3>2. CASE Awaited(m)
      <4>1. reply' = r /\ call.phase = "wait"
        BY <2>1, <3>2 DEF Delivers, Awaited
      <4>2. TxReply(r)'
        <5>1. r = Refusal => TxReply(r)'
          BY DEF TxReply, Refusal
        <5>. QED BY <1>13, <2>1, <3>2, <5>1
      <4>. QED BY <4>1, <4>2 DEF TxReply
    <3>. QED BY <3>1, <3>2
  <2>. QED BY <2>1
<1>. QED BY <1>9, <1>11, <1>12, <1>14, ServerKeepsTx

(* Against a server that closes idle streams, every action of HranaConn    *)
(* preserves TxInv.                                                        *)
LEMMA TxInvNext ==
  ASSUME EagerClose, TypeOK, StreamInv, TxInv, [Next]_vars
  PROVE  TxInv'
<1>. USE DEF TypeOK, serverVars, clientVars, ghostVars
<1>0. CallInv /\ TxCall /\ TxConn(conn, CurrentTx)
  BY DEF StreamInv, TxInv
<1>1. ASSUME call.phase = "idle", call' = call, reply' = reply,
             stream' = stream, committed' = committed, stmtTx' = stmtTx,
             verdict' = verdict, app'.tx # NoTx => app'.tx = app.tx /\ conn' = conn,
             NEW c, net' = net \/ (SendsClose(c))
      PROVE  TxInv'
  <2>1. reply' = NoReply
    BY <1>0, <1>1 DEF CallInv
  <2>2. /\ \A s \in Stream : TxStream(s)'
        /\ TxEffectsNeedCommit'
        /\ \A m \in net : ~Awaited(m)' => TxRequest(m)'
    BY <1>1, ClientKeepsTx
  <2>3. ASSUME NEW m \in net' PROVE TxRequest(m)'
    <3>1. ~Awaited(m)'
      BY <1>1 DEF Awaited
    <3>2. m \in net \/ m \in CloseRequests(c)
      BY <1>1 DEF SendsClose
    <3>. QED BY <2>2, <3>1, <3>2, CloseIsNoTxRequest
  <2>4. TxCall' /\ CurrentTx' = app'.tx /\ CurrentTx = app.tx
    BY <1>1 DEF TxCall, CurrentTx, InChunks
  <2>5. TxConn(conn, CurrentTx)'
    BY <1>0, <1>1, <2>4 DEF TxConn, InTx
  <2>. QED BY <2>1, <2>2, <2>3, <2>4, <2>5 DEF TxInv
<1>2. CASE Connect
  BY <1>0, <1>1, <1>2, SessionType DEF Connect, CallInv, App
<1>3. CASE ResetSession
  BY <1>0, <1>1, <1>3, SessionType DEF ResetSession, CallInv, App
<1>4. CASE EndSession
  <2>1. app'.tx = NoTx
    BY <1>4, SessionType DEF EndSession, App
  <2>. QED BY <1>1, <1>4, <2>1 DEF EndSession
<1>5. CASE Close
  <2>1. app'.tx = app.tx
    BY <1>5 DEF Close, App
  <2>. QED BY <1>0, <1>1, <1>5, <2>1 DEF Close, CallInv
<1>6. ASSUME NEW kind \in {"exec", "begin", "commit", "rollback"},
             NEW chunked \in BOOLEAN, NEW tx \in Nat, Starts(kind, chunked, tx),
             committed' = committed, verdict'.asked = verdict.asked,
             kind # "exec" => tx # NoTx,
             kind # "begin" => tx = app.tx /\ ~chunked
      PROVE  TxInv'
  <2>1. /\ call'.phase = "send" /\ call'.kind = kind /\ call'.tx = tx
        /\ call'.chunked = chunked /\ reply' = NoReply
    BY <1>0, <1>6 DEF Starts, NoCall, CallInv
  <2>2. /\ \A s \in Stream : TxStream(s)'
        /\ TxEffectsNeedCommit'
        /\ \A m \in net : ~Awaited(m)' => TxRequest(m)'
    BY <1>6, ClientKeepsTx DEF Starts
  <2>3. TxCall' /\ CurrentTx' = CurrentTx
    BY <1>6, <2>1 DEF Starts, TxCall, CurrentTx, InChunks
  <2>4. TxConn(conn, CurrentTx)'
    BY <1>0, <1>6, <2>3 DEF Starts, TxConn, InTx
  <2>5. \A m \in net' : TxRequest(m)'
    BY <1>6, <2>1, <2>2 DEF Starts, Awaited
  <2>. QED BY <2>1, <2>2, <2>3, <2>4, <2>5 DEF TxInv
<1>7. CASE Calls
  <2>1. app.tx \in Nat /\ txs + 1 \in Nat /\ txs + 1 # NoTx
    BY DEF App, NoTx
  <2>2. CASE ExecContext
    BY <1>6, <2>1, <2>2 DEF ExecContext, Starts
  <2>3. CASE BeginTx
    BY <1>6, <2>1, <2>3 DEF BeginTx, Begins, Starts
  <2>4. CASE ExecInChunks
    BY <1>6, <2>1, <2>4 DEF ExecInChunks, Begins, Starts, Verdict
  <2>5. CASE Commit
    BY <1>6, <2>1, <2>5 DEF Commit, Starts
  <2>6. CASE Rollback
    BY <1>6, <2>1, <2>6 DEF Rollback, Starts
  <2>. QED BY <1>7, <2>2, <2>3, <2>4, <2>5, <2>6 DEF Calls
<1>8. CASE SendPipelineRequest
  <2>1. PICK stmts \in IF CarriesStmt THEN {{s} : s \in Unissued} ELSE {{}} :
               /\ net' = net \cup {Message(stmts)}
               /\ call' = [call EXCEPT !.phase = "wait", !.stmt = stmts,
                                       !.id = reqs + 1]
               /\ stmtTx' = [s \in Stmt |-> IF s \in stmts THEN call.tx
                                                            ELSE stmtTx[s]]
    BY <1>8 DEF SendPipelineRequest
  <2>2. stmts \subseteq Unissued /\ (stmts # {} => CarriesStmt)
    BY <2>1
  <2>3. /\ call'.phase = "wait" /\ call'.id = reqs + 1 /\ call'.kind = call.kind
        /\ call'.tx = call.tx /\ call'.chunked = call.chunked
        /\ call.phase = "send" /\ ~conn.streamClosed /\ reply' = NoReply
        /\ verdict.asked \subseteq verdict'.asked
        /\ call.kind = "commit" => call.tx \in verdict'.asked
        /\ UNCHANGED <<stream, committed, conn, app, reply>>
    BY <1>0, <1>8, <2>1 DEF SendPipelineRequest, CallInv, Call, Refused
  <2>4. ASSUME NEW s \in Stmt, stmtTx[s] \in Nat PROVE stmtTx'[s] = stmtTx[s]
    BY <2>1, <2>2, <2>4, ConnAssumption DEF Unissued
  <2>5. ASSUME NEW s \in Stream PROVE TxStream(s)'
    <3>1. stream[s].pending \subseteq Stmt /\ stream[s].tx \in Nat
      BY DEF ServerTypeOK, StreamState
    <3>. QED BY <2>3, <2>4, <3>1 DEF TxInv, TxStream, NoTx
  <2>6. TxEffectsNeedCommit'
    BY <2>3, <2>4 DEF TxInv, TxEffectsNeedCommit, ServerTypeOK, Verdict, NoTx
  <2>7. TxCall' /\ CurrentTx' = CurrentTx
    BY <1>0, <2>3 DEF TxCall, CurrentTx, InChunks
  <2>8. TxConn(conn, CurrentTx)'
    BY <1>0, <2>3, <2>7 DEF TxConn, InTx
  <2>9. ASSUME NEW m, m = Message(stmts) PROVE TxRequest(m)'
    <3>1. /\ m.kind = call.kind /\ m.tx = call.tx /\ m.baton = conn.baton
          /\ m.stmt = stmts
      BY <2>9 DEF Message
    <3>2. \A s \in m.stmt : stmtTx'[s] = m.tx
      BY <2>1, <2>2, <3>1 DEF Unissued
    <3>3. call.kind \in {"exec", "chunk", "commit"} /\ call.tx # NoTx
            => call.tx = CurrentTx
      BY <1>0, <2>3 DEF TxCall, CurrentTx, InChunks
    <3>4. call.kind \in {"exec", "chunk", "commit"} /\ call.tx # NoTx
            => InTx(m.baton, m.tx)'
      BY <1>0, <2>3, <3>1, <3>3 DEF TxConn, InTx
    <3>5. call.kind # "exec" => call.tx # NoTx
      BY <1>0, <2>3 DEF TxCall
    <3>. QED BY <2>3, <3>1, <3>2, <3>4, <3>5 DEF TxRequest
  <2>10. ASSUME NEW m \in net PROVE TxRequest(m)'
    <3>1. ~Awaited(m)'
      BY <2>3 DEF Awaited, StreamInv, GoodRequest, Request
    <3>2. m.stmt \subseteq Stmt /\ m.tx \in Nat /\ TxRequest(m)
      BY DEF Request, TxInv
    <3>. QED BY <2>3, <2>4, <3>1, <3>2 DEF TxRequest, InTx
  <2>11. \A m \in net' : TxRequest(m)'
    BY <2>1, <2>9, <2>10
  <2>. QED BY <2>3, <2>5, <2>6, <2>7, <2>8, <2>11 DEF TxInv
<1>9. CASE ErrBadConn
  <2>1. TxConn(conn, app.tx) /\ Returns(FALSE, conn) /\ call.phase # "idle"
    BY <1>9 DEF ErrBadConn, Refused, TxConn
  <2>. QED BY <1>9, <2>1, ReturnsKeepsTx DEF ErrBadConn
<1>10. CASE ReceiveReply
  <2>1. reply \in Reply /\ TxReply(reply) /\ call.phase = "wait"
    BY <1>10 DEF ReceiveReply, TxInv
  <2>. DEFINE c == AfterReply(conn, reply)
              ok == reply.http /\ reply.ok
  <2>2. ok \in BOOLEAN /\ c \in Conn /\ Returns(ok, c)
    BY <1>10, <2>1, AfterReplyType DEF ReceiveReply, Reply
  <2>3. ~c.streamClosed =>
          reply.http /\ reply.baton # NoBaton /\ c.baton = reply.baton
    BY <2>1 DEF AfterReply, Conn, Reply
  <2>4. ok /\ call.kind = "begin" => app.tx = NoTx /\ TxConn(c, call.tx)
    BY <2>1, <2>3 DEF TxReply, TxConn
  <2>5. ok /\ call.kind # "begin" => TxConn(c, CurrentTx)
    BY <2>1, <2>3 DEF TxReply, TxConn
  <2>6. ~ok /\ ~GivesStreamUp => TxConn(c, app.tx)
    BY <2>1, <2>3 DEF TxReply, TxConn, GivesStreamUp, CurrentTx, InChunks
  <2>. HIDE DEF c, ok
  <2>. QED BY <1>10, <2>1, <2>2, <2>4, <2>5, <2>6, ReturnsKeepsTx
       DEF ReceiveReply
<1>11. CASE TransportError
  <2>1. Returns(FALSE, conn) /\ call.phase = "wait"
    BY <1>11 DEF TransportError, AfterTransportError
  <2>2. ~GivesStreamUp => TxConn(conn, app.tx)
    BY <1>0, <2>1 DEF GivesStreamUp, CurrentTx, InChunks
  <2>. QED BY <1>11, <2>1, <2>2, ReturnsKeepsTx DEF TransportError
<1>12. ASSUME NEW m \in net, ServerExecutes(m) PROVE TxInv'
  <2>1. PICK n \in ReachedBy(m.url), s \in Stream :
          /\ Accepts(m, n, s)
          /\ \E o \in OutcomesOn(m, s) : \E keep \in MayKeep(m, o.tx) :
              /\ Executes(m, n, s, o, keep)
              /\ \/ \E base \in BaseUrls(m.url, n) :
                      Delivers(m, Answer(s, o, keep, base))
                 \/ Delivers(m, Refusal)
    BY <1>12 DEF ServerExecutes
  <2>2. PICK o \in OutcomesOn(m, s), keep \in BOOLEAN, base \in BaseUrls(m.url, n) :
          /\ keep \in MayKeep(m, o.tx)
          /\ Executes(m, n, s, o, keep)
          /\ Delivers(m, Answer(s, o, keep, base)) \/ Delivers(m, Refusal)
    <3>1. n \in BaseUrls(m.url, n)
      BY DEF BaseUrls
    <3>. QED BY <2>1, <3>1, KeepType
  <2>3. net' = net \ {m} /\ UNCHANGED <<conn, call, app, stmtTx, verdict>>
    BY <1>12 DEF ServerExecutes
  <2>. QED BY <2>1, <2>2, <2>3, ExecutesKeepsTx
<1>13. ASSUME NEW m \in net, ServerRefuses(m) \/ ServerFails(m) PROVE TxInv'
  <2>1. /\ net' = net \ {m} /\ Delivers(m, Refusal)
        /\ UNCHANGED <<stream, committed, conn, call, app, stmtTx, verdict>>
    BY <1>13 DEF ServerRefuses, ServerFails
  <2>2. TxReply(Refusal)'
    BY DEF TxReply, Refusal
  <2>3. \/ reply' = reply
        \/ call.phase = "wait" /\ TxReply(reply)'
    BY <2>1, <2>2 DEF Delivers, TxReply
  <2>4. (\A t \in Stream : TxStream(t)') /\ TxEffectsNeedCommit'
    BY <2>1, ClientKeepsTx
  <2>. QED BY <2>1, <2>3, <2>4, ServerKeepsTx
<1>14. CASE StreamExpires
  <2>1. PICK s \in Stream : Expire(s)
    BY <1>14 DEF StreamExpires
  <2>2. /\ stream'[s].status = "closed"
        /\ \A t \in Stream \ {s} : stream'[t] = stream[t]
        /\ committed' = committed
    BY <2>1 DEF Expire, ServerTypeOK, StreamState
  <2>3. /\ net' = net /\ reply' = reply
        /\ UNCHANGED <<conn, call, app, stmtTx, verdict>>
    BY <1>14 DEF StreamExpires
  <2>4. \A t \in Stream : TxStream(t)'
    BY <2>2, <2>3 DEF TxInv, TxStream
  <2>5. TxEffectsNeedCommit'
    BY <2>2, <2>3 DEF TxInv, TxEffectsNeedCommit
  <2>. QED BY <2>2, <2>3, <2>4, <2>5, ServerKeepsTx
<1>15. CASE UNCHANGED vars
  BY <1>15 DEF vars, TxInv, TxStream, TxRequest, TxCall, TxConn, TxReply,
     InTx, CurrentTx, InChunks, Awaited, TxEffectsNeedCommit
<1>. QED BY <1>2, <1>3, <1>4, <1>5, <1>7, <1>8, <1>9, <1>10, <1>11, <1>12,
            <1>13, <1>14, <1>15
     DEF Next, Pool, Driver, Server, Finished

(* On a server that closes idle streams with the answer, a statement the    *)
(* application issued inside a transaction is durable only if it asked for  *)
(* that transaction to be committed: no loss, delay or refusal makes the    *)
(* driver execute it on a stream of its own.                                *)
THEOREM TxIsolation == EagerClose => (Spec => []TxEffectsNeedCommit)
<1>. SUFFICES ASSUME EagerClose PROVE Spec => []TxEffectsNeedCommit
  OBVIOUS
<1>1. TypeOK /\ StreamInv /\ TxInv /\ [Next]_vars => TxInv'
  BY TxInvNext
<1>2. TxInv => TxEffectsNeedCommit
  BY DEF TxInv
<1>. QED BY <1>1, <1>2, TxInvInit, TypeCorrect, StreamInvariance, PTL DEF Spec
-----------------------------------------------------------------------------
(***************************************************************************)
(* HranaConn implements TxStore: over a server that closes idle streams     *)
(* with the answer, and executes the steps of a chunk or refuses the chunk, *)
(* the connection keeps the promise of a transactional store whatever the   *)
(* network does.  For any nodes, streams, statements and bounds.            *)
(***************************************************************************)

(* The steps of a chunk succeed.                                            *)
StepsSucceed == StepFails \subseteq {FALSE}

Told == verdict.committed \cup verdict.rolledBack
Of(t) == {s \in Stmt : stmtTx[s] = t}
IsOpen(s, t) == stream[s].status = "open" /\ stream[s].tx = t
OpenNowhere(t) == \A s \in Stream : ~IsOpen(s, t)

(* Transaction t has had no effect, and nobody was told how it ended.       *)
Undecided(t) == Of(t) \cap committed = {} /\ t \notin Told

(* BEGIN of t has not been executed and nothing was done in it.             *)
Unbegun(t) == OpenNowhere(t) /\ Of(t) = {} /\ t \notin Told /\ t # CurrentTx

(* Not the latest baton of an open stream.                                  *)
Spent(b) == b # NoBaton /\ stream[b[1]].status = "open" => b[2] < stream[b[1]].gen

Bounds ==
  /\ txs <= MaxTx
  /\ verdict.asked \cup Told \subseteq 1..txs
  /\ app.tx <= txs /\ call.tx <= txs
  /\ \A m \in net : m.tx <= txs
  /\ \A s \in Stmt : stmtTx[s] = NotIssued \/ stmtTx[s] <= txs
  /\ \A s \in Stream : stream[s].status = "open" => stream[s].tx <= txs

StoreStream(s) ==
  stream[s].status = "open" =>
    /\ Undecided(stream[s].tx)
    /\ acked \cap Of(stream[s].tx) \subseteq stream[s].pending
    /\ \A u \in Stream : IsOpen(u, stream[s].tx) => u = s

StoreRequest(m) ==
  /\ m.kind = "begin" =>
       /\ Unbegun(m.tx)
       /\ \A q \in net : q.kind = "begin" /\ q.tx = m.tx => q = m
  /\ m.kind = "commit" =>
       Spent(m.baton) \/ m.tx # CurrentTx \/ m.baton = conn.baton
  /\ Awaited(m) => m.stmt = call.stmt

NoBegin(t) == \A m \in net : m.kind = "begin" => m.tx # t

StoreCall ==
  /\ call.phase # "idle" /\ call.kind = "begin" =>
       /\ call.tx \notin verdict.asked
       /\ call.phase = "send" => Unbegun(call.tx)
       /\ call.phase = "send" \/ reply # NoReply => NoBegin(call.tx)
  /\ call.kind \notin {"exec", "chunk"} => call.stmt = {}
  /\ call.phase = "wait" => \A s \in call.stmt : stmtTx[s] = call.tx
  /\ call.phase = "wait" /\ call.kind = "exec" /\ call.tx = NoTx /\ app.failed
       => call.stmt \subseteq verdict.doubtful

StoreConn(c) ==
  app.state = "used" /\ CurrentTx = NoTx /\ ~app.failed
    => c.baton = NoBaton \/ c.streamClosed

Delivered(r) ==
  CASE call.kind \in {"exec", "chunk"} /\ call.tx # NoTx ->
         /\ Undecided(call.tx)
         /\ \A s \in Stream : IsOpen(s, call.tx) => call.stmt \subseteq stream[s].pending
    [] call.kind = "exec" /\ call.tx = NoTx ->
         call.stmt \subseteq committed \cup verdict.doubtful
    [] call.kind = "commit" ->
         Of(call.tx) \cap acked \subseteq committed /\ OpenNowhere(call.tx)
    [] call.kind = "rollback" ->
         Of(call.tx) \cap committed = {} /\ OpenNowhere(call.tx)
    [] OTHER -> TRUE

StoreReply(r) ==
  r.http =>
    /\ Spent(conn.baton)
    /\ r.ok => Delivered(r)
    /\ \/ CurrentTx = NoTx /\ ~app.failed /\ ~(call.kind = "begin" /\ r.ok)
       \/ call.kind \in {"commit", "rollback"} /\ r.ok
       => r.baton = NoBaton

StoreInv ==
  /\ Bounds
  /\ \A s \in Stream : StoreStream(s)
  /\ \A m \in net : StoreRequest(m)
  /\ StoreCall
  /\ StoreConn(conn)
  /\ reply # NoReply => StoreReply(reply)
  /\ \A s \in acked \cup committed : stmtTx[s] # NotIssued

-----------------------------------------------------------------------------
(* The types of what the proofs below look at.                              *)
LEMMA StoreTypes ==
  ASSUME TypeOK
  PROVE  /\ conn \in Conn /\ call \in Call /\ app \in App
         /\ call.tx \in Nat /\ app.tx \in Nat /\ txs \in Nat
         /\ call.stmt \subseteq Stmt /\ acked \subseteq Stmt /\ committed \subseteq Stmt
         /\ verdict.asked \subseteq Nat /\ Told \subseteq Nat
         /\ verdict.doubtful \subseteq Stmt
         /\ stmtTx \in [Stmt -> Nat \cup {NotIssued}]
         /\ stream \in [Stream -> StreamState]
         /\ \A s \in Stream : /\ stream[s].tx \in Nat /\ stream[s].gen \in Nat
                              /\ stream[s].pending \subseteq Stmt
         /\ \A m \in net : /\ m \in Request /\ m.tx \in Nat /\ m.stmt \subseteq Stmt
                           /\ m.baton \in Baton \cup {NoBaton}
         /\ conn.baton \in Baton \cup {NoBaton}
  BY DEF TypeOK, ServerTypeOK, Conn, Call, App, Verdict, StreamState, Request, Told

(* StoreInv holds when the connection is made.                              *)
LEMMA StoreInvInit == Init => StoreInv
<1>. SUFFICES ASSUME Init PROVE StoreInv
  OBVIOUS
<1>. USE DEF Init, ServerInit, NoCall, NewSession, NewConn
<1>1. Bounds
  BY ConnAssumption DEF Bounds, Told, NoTx
<1>2. \A s \in Stream : StoreStream(s)
  BY DEF StoreStream
<1>3. StoreCall
  BY DEF StoreCall
<1>4. StoreConn(conn)
  BY DEF StoreConn
<1>. QED BY <1>1, <1>2, <1>3, <1>4 DEF StoreInv

(* A step of the client that issues no statement, and waits for no answer   *)
(* when it is done.                                                         *)
LEMMA ClientKeepsStore ==
  ASSUME TypeOK, StreamInv, TxInv, StoreInv,
         UNCHANGED <<stream, committed, stmtTx>>, reply' = NoReply,
         call'.phase # "wait",
         NEW c, net' = net \/ SendsClose(c),
         txs <= txs', txs' <= MaxTx, txs' \in Nat,
         verdict'.asked \cup Told' \subseteq 1..txs',
         app'.tx <= txs', call'.tx <= txs',
         \A s \in acked' : stmtTx[s] # NotIssued,
         \A s \in Stream :
           stream[s].status = "open" =>
             /\ stream[s].tx \notin Told'
             /\ acked' \cap Of(stream[s].tx) \subseteq stream[s].pending,
         \A m \in net :
           /\ m.kind = "begin" => m.tx \notin Told' /\ m.tx # CurrentTx'
           /\ m.kind = "commit" =>
                Spent(m.baton) \/ m.tx # CurrentTx' \/ m.baton = conn'.baton,
         StoreCall', StoreConn(conn)'
  PROVE  StoreInv'
<1>1. \A m \in net' : m \in net \/ (m.kind = "close" /\ m.tx = NoTx)
  BY DEF SendsClose, CloseRequests
<1>2. \A t : Of(t)' = Of(t)
  BY DEF Of
<1>3. \A s \in Stream : StoreStream(s)'
  BY <1>2 DEF StoreInv, StoreStream, Undecided, IsOpen
<1>4. ASSUME NEW m \in net' PROVE StoreRequest(m)'
  <2>. ~Awaited(m)'
    BY DEF Awaited
  <2>1. CASE m.kind = "begin"
    <3>1. m \in net /\ Unbegun(m.tx)
      BY <1>1, <2>1 DEF StoreInv, StoreRequest
    <3>2. Unbegun(m.tx)'
      BY <1>2, <2>1, <3>1 DEF Unbegun, OpenNowhere, IsOpen
    <3>3. \A q \in net' : q.kind = "begin" /\ q.tx = m.tx => q = m
      BY <1>1, <2>1, <3>1 DEF StoreInv, StoreRequest
    <3>. QED BY <2>1, <3>2, <3>3 DEF StoreRequest
  <2>2. CASE m.kind = "commit"
    <3>1. m \in net
      BY <1>1, <2>2
    <3>. QED BY <2>2, <3>1 DEF StoreRequest, Spent
  <2>3. CASE m.kind \notin {"begin", "commit"}
    BY <2>3 DEF StoreRequest
  <2>. QED BY <2>1, <2>2, <2>3
<1>5. Bounds'
  <2>1. \A m \in net' : m.tx <= txs'
    BY <1>1, StoreTypes DEF StoreInv, Bounds, NoTx
  <2>2. \A s \in Stmt : stmtTx'[s] = NotIssued \/ stmtTx'[s] <= txs'
    BY StoreTypes DEF StoreInv, Bounds
  <2>3. \A s \in Stream : stream'[s].status = "open" => stream'[s].tx <= txs'
    BY StoreTypes DEF StoreInv, Bounds
  <2>. QED BY <2>1, <2>2, <2>3 DEF Bounds
<1>6. \A s \in acked' \cup committed' : stmtTx'[s] # NotIssued
  BY DEF StoreInv
<1>. QED BY <1>3, <1>4, <1>5, <1>6 DEF StoreInv

(* A step of the server or the network.                                     *)
LEMMA ServerKeepsStore ==
  ASSUME TypeOK, StreamInv, TxInv, StoreInv, net' \subseteq net,
         UNCHANGED <<conn, call, app, txs, stmtTx, acked, verdict>>,
         \A t \in Stream : stream'[t].gen \in Nat /\ stream'[t].gen >= stream[t].gen,
         \A t \in Stream :
           stream[t].status # "unused" /\ stream'[t].status = "open" =>
             stream[t].status = "open",
         \A t \in Stream : stream'[t].status = "open" => stream'[t].tx <= txs,
         \A t \in Stream : StoreStream(t)',
         \A q \in net' : q.kind = "begin" => OpenNowhere(q.tx)',
         call.phase = "send" /\ call.kind = "begin" => OpenNowhere(call.tx)',
         reply' # NoReply => /\ StoreReply(reply)'
                             /\ call.kind = "begin" => NoBegin(call.tx)',
         \A s \in committed' : stmtTx[s] # NotIssued
  PROVE  StoreInv'
<1>1. (\A t : Of(t)' = Of(t)) /\ CurrentTx' = CurrentTx /\ Told' = Told
  BY DEF Of, CurrentTx, InChunks, Told
<1>2. ASSUME NEW b \in Baton \cup {NoBaton}, Started(b), Spent(b) PROVE Spent(b)'
  <2>1. b # NoBaton => b[1] \in Stream /\ b[2] \in Nat
    BY DEF Baton
  <2>. QED BY <1>2, <2>1, StoreTypes DEF Spent, Started
<1>3. ASSUME NEW m \in net' PROVE StoreRequest(m)'
  <2>1. StoreRequest(m) /\ Started(m.baton) /\ m.baton \in Baton \cup {NoBaton}
    BY StoreTypes DEF StoreInv, StreamInv, GoodRequest
  <2>2. m.kind = "begin" => Unbegun(m.tx)'
    BY <1>1, <2>1 DEF StoreRequest, Unbegun
  <2>3. Spent(m.baton) => Spent(m.baton)'
    BY <1>2, <2>1
  <2>. QED BY <1>1, <2>1, <2>2, <2>3 DEF StoreRequest, Awaited
<1>4. Bounds'
  BY <1>1 DEF StoreInv, Bounds
<1>5. StoreCall'
  <2>1. call.phase = "send" /\ call.kind = "begin" => Unbegun(call.tx)'
    BY <1>1 DEF StoreInv, StoreCall, Unbegun
  <2>2. call.phase = "send" /\ call.kind = "begin" => NoBegin(call.tx)'
    BY DEF StoreInv, StoreCall, NoBegin
  <2>. QED BY <2>1, <2>2 DEF StoreInv, StoreCall
<1>6. StoreConn(conn)'
  BY <1>1 DEF StoreInv, StoreConn
<1>7. \A s \in acked' \cup committed' : stmtTx'[s] # NotIssued
  BY DEF StoreInv
<1>. QED BY <1>3, <1>4, <1>5, <1>6, <1>7 DEF StoreInv

(* What the driver knows when it has read the answer to a request: c is     *)
(* what became of the connection.                                           *)
Ended(ok, c) ==
  /\ ok => call.phase = "wait" /\ Delivered(reply)
  /\ c.baton = conn.baton \/ Spent(conn.baton)
  /\ ok /\ call.kind = "begin" => NoBegin(call.tx) /\ app.tx = NoTx
  /\ \/ CurrentTx = NoTx /\ ~app.failed /\ ~(call.kind = "begin" /\ ok)
     \/ call.kind \in {"commit", "rollback"} /\ ok
     => c.baton = NoBaton \/ c.streamClosed

(* The transactions and requests of a call that succeeds.                   *)
LEMMA SuccessKeepsStore ==
  ASSUME TypeOK, StreamInv, TxInv, StoreInv, NEW c \in Conn,
         call.phase # "idle", Returns(TRUE, c), Ended(TRUE, c),
         UNCHANGED <<stream, committed, stmtTx, txs>>
  PROVE  StoreInv'
<1>. USE StoreTypes
<1>1. /\ TxCall /\ StoreCall /\ Bounds /\ call.phase = "wait" /\ call.tx <= txs
      /\ app.tx <= txs /\ app.state = "used" /\ Delivered(reply)
  BY DEF TxInv, StoreInv, Bounds, Ended, StreamInv, CallInv
<1>2. /\ reply' = NoReply /\ net' = net /\ conn' = c
      /\ acked' = acked \cup call.stmt
      /\ app'.state = app.state /\ app'.failed = app.failed
      /\ call' = IF HasNext THEN NextRequest ELSE NoCall
  BY DEF Returns, Succeeds, App
<1>3. /\ verdict'.asked = verdict.asked
      /\ Told' = IF call.kind \in {"commit", "rollback"} THEN Told \cup {call.tx} ELSE Told
  BY DEF Returns, Succeeds, Told, TypeOK, Verdict
<1>4. /\ call.kind = "begin" => CurrentTx' = call.tx
      /\ call.kind \in {"exec", "chunk"} => CurrentTx' = CurrentTx
      /\ call.kind \in {"commit", "rollback"} => CurrentTx' = NoTx /\ CurrentTx = call.tx
  <2>1. CASE HasNext
    <3>1. /\ call'.tx = call.tx /\ call'.phase = "send" /\ call'.chunked
          /\ call'.kind \in {"chunk", "commit"} /\ call.kind \in {"begin", "chunk"}
      BY <1>1, <1>2, <2>1 DEF NextRequest, HasNext, Call, TxCall
    <3>. QED BY <3>1, <1>1, <2>1 DEF CurrentTx, InChunks, HasNext
  <2>2. CASE ~HasNext
    <3>1. CurrentTx' = app'.tx
      BY <1>2, <2>2 DEF CurrentTx, InChunks, NoCall
    <3>2. CASE call.chunked
      BY <1>1, <2>2, <3>1, <3>2 DEF HasNext, Returns, Succeeds, App, TxCall, CurrentTx, InChunks
    <3>3. CASE ~call.chunked
      BY <1>1, <3>1, <3>3 DEF Returns, Succeeds, App, TxCall, CurrentTx, InChunks, Call, Kind
    <3>. QED BY <3>2, <3>3
  <2>. QED BY <2>1, <2>2
<1>5. app'.tx \in {app.tx, call.tx, NoTx} /\ call'.tx \in {call.tx, NoTx}
  BY <1>2 DEF Returns, Succeeds, App, NextRequest, NoCall, Call
<1>6. call.kind \in {"exec", "begin", "chunk", "commit", "rollback"}
  BY DEF Call, Kind, StreamInv, CallInv
<1>7. call.kind \in {"commit", "rollback"} => call.tx \in 1..txs
  BY <1>1 DEF TxCall, NoTx
<1>8. verdict'.asked \cup Told' \subseteq 1..txs'
  BY <1>1, <1>3, <1>7 DEF Bounds
<1>9. app'.tx <= txs' /\ call'.tx <= txs'
  BY <1>1, <1>5 DEF NoTx
<1>10. ASSUME NEW s \in acked' PROVE stmtTx[s] # NotIssued
  BY <1>1, <1>2, <1>10, ConnAssumption DEF StoreInv, StoreCall
<1>11. ASSUME NEW s \in Stream, stream[s].status = "open"
       PROVE  /\ stream[s].tx \notin Told'
              /\ acked' \cap Of(stream[s].tx) \subseteq stream[s].pending
  <2>1. /\ stream[s].tx \notin Told /\ stream[s].tx # NoTx
        /\ acked \cap Of(stream[s].tx) \subseteq stream[s].pending
    BY <1>11 DEF StoreInv, StoreStream, Undecided, TxInv, TxStream
  <2>2. stream[s].tx \notin Told'
    BY <1>1, <1>3, <1>11, <2>1 DEF Delivered, OpenNowhere, IsOpen
  <2>3. call.stmt \cap Of(stream[s].tx) \subseteq stream[s].pending
    <3>1. CASE call.kind \in {"exec", "chunk"} /\ stream[s].tx = call.tx
      BY <1>1, <1>11, <2>1, <3>1 DEF Delivered, IsOpen
    <3>2. CASE stream[s].tx # call.tx
      BY <1>1, <3>2 DEF StoreCall, Of
    <3>3. CASE call.kind \notin {"exec", "chunk"}
      BY <1>1, <3>3 DEF StoreCall
    <3>. QED BY <3>1, <3>2, <3>3
  <2>. QED BY <1>2, <2>1, <2>2, <2>3
<1>12. ASSUME NEW m \in net
       PROVE  /\ m.kind = "begin" => m.tx \notin Told' /\ m.tx # CurrentTx'
              /\ m.kind = "commit" =>
                   Spent(m.baton) \/ m.tx # CurrentTx' \/ m.baton = conn'.baton
  <2>1. CASE m.kind = "begin"
    <3>1. m.tx # NoTx /\ m.tx \notin Told /\ m.tx # CurrentTx
      BY <2>1 DEF TxInv, TxRequest, StoreInv, StoreRequest, Unbegun
    <3>2. call.kind = "begin" => m.tx # call.tx
      BY <2>1 DEF Ended, NoBegin
    <3>. QED BY <1>3, <1>4, <1>6, <2>1, <3>1, <3>2
  <2>2. CASE m.kind = "commit"
    <3>1. m.tx \in verdict.asked /\ m.tx # NoTx
      BY <1>1, <2>2 DEF TxInv, TxRequest, Bounds, NoTx
    <3>2. Spent(m.baton) \/ m.tx # CurrentTx \/ m.baton = conn.baton
      BY <2>2 DEF StoreInv, StoreRequest
    <3>3. c.baton = conn.baton \/ Spent(conn.baton)
      BY DEF Ended
    <3>4. call.kind = "begin" => m.tx # call.tx
      BY <1>1, <3>1 DEF StoreCall
    <3>. QED BY <1>2, <1>4, <1>6, <2>2, <3>1, <3>2, <3>3, <3>4
  <2>. QED BY <2>1, <2>2
<1>13. StoreCall'
  <2>1. call' = NextRequest => call'.phase = "send" /\ call'.stmt = {} /\ call'.kind # "begin"
    BY DEF NextRequest, Call
  <2>2. call' = NoCall => call'.phase = "idle" /\ call'.stmt = {}
    BY DEF NoCall
  <2>. QED BY <1>2, <2>1, <2>2 DEF StoreCall
<1>14. StoreConn(conn)'
  <2>1. call.kind = "begin" => call.tx # NoTx
    BY <1>1 DEF TxCall
  <2>. QED BY <1>2, <1>4, <1>6, <2>1 DEF StoreConn, Ended
<1>15. txs <= txs' /\ txs' <= MaxTx /\ txs' \in Nat
  BY <1>1 DEF Bounds
<1>16. call'.phase # "wait"
  BY <1>2 DEF NextRequest, NoCall, Call
<1>. QED
  BY <1>2, <1>8, <1>9, <1>10, <1>11, <1>12, <1>13, <1>14, <1>15, <1>16,
     ClientKeepsStore

(* The same for a call that fails.                                          *)
LEMMA FailureKeepsStore ==
  ASSUME TypeOK, StreamInv, TxInv, StoreInv, NEW c \in Conn,
         call.phase # "idle", Returns(FALSE, c), Ended(FALSE, c),
         UNCHANGED <<stream, committed, stmtTx, txs>>
  PROVE  StoreInv'
<1>. USE StoreTypes
<1>1. TxCall /\ Bounds /\ app.tx <= txs
  BY DEF TxInv, StoreInv, Bounds
<1>2. /\ reply' = NoReply /\ call' = NoCall /\ UNCHANGED <<acked, verdict>>
      /\ app' \in IF call.chunked THEN {app} ELSE AfterFailure
      /\ IF GivesStreamUp THEN SendsClose(c) /\ conn' = WithoutStream(c)
                          ELSE conn' = c /\ net' = net
  BY DEF Returns
<1>3. /\ app'.tx \in {app.tx, NoTx}
      /\ app' # app => app'.failed
  BY <1>2 DEF AfterFailure, App
<1>4. /\ CurrentTx' = app'.tx
      /\ GivesStreamUp => app'.tx = NoTx
      /\ ~GivesStreamUp => app.tx = CurrentTx
  <2>1. CurrentTx' = app'.tx
    BY <1>2 DEF CurrentTx, InChunks, NoCall
  <2>2. GivesStreamUp => app.tx = NoTx
    BY <1>1 DEF GivesStreamUp, TxCall, InChunks
  <2>3. ~GivesStreamUp => app.tx = CurrentTx
    BY DEF GivesStreamUp, CurrentTx, InChunks
  <2>. QED BY <1>3, <2>1, <2>2, <2>3
<1>5. app'.tx <= txs' /\ call'.tx <= txs'
  BY <1>1, <1>2, <1>3 DEF NoCall, NoTx
<1>6. verdict'.asked \cup Told' \subseteq 1..txs' /\ Told' = Told
  BY <1>1, <1>2 DEF Bounds, Told
<1>7. \A s \in acked' : stmtTx[s] # NotIssued
  BY <1>2 DEF StoreInv
<1>8. ASSUME NEW s \in Stream, stream[s].status = "open"
      PROVE  /\ stream[s].tx \notin Told'
             /\ acked' \cap Of(stream[s].tx) \subseteq stream[s].pending
  BY <1>2, <1>6, <1>8 DEF StoreInv, StoreStream, Undecided
<1>9. ASSUME NEW m \in net
      PROVE  /\ m.kind = "begin" => m.tx \notin Told' /\ m.tx # CurrentTx'
             /\ m.kind = "commit" =>
                  Spent(m.baton) \/ m.tx # CurrentTx' \/ m.baton = conn'.baton
  <2>1. CurrentTx' = NoTx \/ (CurrentTx' = CurrentTx /\ conn' = c)
    BY <1>2, <1>3, <1>4
  <2>2. CASE m.kind = "begin"
    BY <1>6, <2>1, <2>2 DEF TxInv, TxRequest, StoreInv, StoreRequest, Unbegun
  <2>3. CASE m.kind = "commit"
    <3>1. m.tx # NoTx
      BY <1>1, <2>3 DEF TxInv, TxRequest, Bounds, NoTx
    <3>2. Spent(m.baton) \/ m.tx # CurrentTx \/ m.baton = conn.baton
      BY <2>3 DEF StoreInv, StoreRequest
    <3>3. c.baton = conn.baton \/ Spent(conn.baton)
      BY DEF Ended
    <3>. QED BY <2>1, <2>3, <3>1, <3>2, <3>3
  <2>. QED BY <2>2, <2>3
<1>10. StoreCall'
  BY <1>2 DEF StoreCall, NoCall
<1>11. StoreConn(conn)'
  <2>1. CASE GivesStreamUp
    BY <1>2, <2>1 DEF StoreConn, WithoutStream, Conn
  <2>2. CASE ~GivesStreamUp
    <3>1. app' = app => (StoreConn(conn)')
      BY <1>2, <1>4, <2>2 DEF StoreConn, Ended
    <3>2. app' # app => (StoreConn(conn)')
      BY <1>3 DEF StoreConn
    <3>. QED BY <3>1, <3>2
  <2>. QED BY <2>1, <2>2
<1>12. net' = net \/ SendsClose(c)
  BY <1>2
<1>13. txs <= txs' /\ txs' <= MaxTx /\ txs' \in Nat
  BY <1>1 DEF Bounds
<1>14. call'.phase # "wait"
  BY <1>2 DEF NoCall
<1>. QED
  BY <1>2, <1>5, <1>6, <1>7, <1>8, <1>9, <1>10, <1>11, <1>12, <1>13, <1>14,
     ClientKeepsStore

(* A driver call that the application starts.                               *)
LEMMA StartsKeepsStore ==
  ASSUME TypeOK, StreamInv, TxInv, StoreInv,
         NEW kind \in {"exec", "begin", "commit", "rollback"},
         NEW chunked \in BOOLEAN, NEW tx \in Nat, Starts(kind, chunked, tx),
         IF kind = "begin" THEN tx = txs + 1 /\ txs' = tx /\ txs < MaxTx
                           ELSE tx = app.tx /\ txs' = txs /\ ~chunked,
         UNCHANGED committed, verdict'.asked = verdict.asked, Told' = Told
  PROVE  StoreInv'
<1>. USE StoreTypes
<1>1. Bounds /\ TxCall /\ call.phase = "idle"
  BY DEF StoreInv, TxInv, Starts
<1>2. /\ UNCHANGED <<stream, committed, conn, net, reply, app, stmtTx, acked>>
      /\ call'.phase = "send" /\ call'.kind = kind /\ call'.tx = tx
      /\ call'.chunked = chunked /\ call'.stmt = {}
  BY DEF Starts, NoCall, serverVars
<1>3. reply' = NoReply
  BY <1>1, <1>2 DEF StreamInv, CallInv
<1>4. CurrentTx = app.tx /\ CurrentTx' = app.tx
  BY <1>1, <1>2 DEF CurrentTx, InChunks
<1>5. /\ txs <= txs' /\ txs' <= MaxTx /\ txs' \in Nat
      /\ app'.tx <= txs' /\ call'.tx <= txs'
  BY <1>1, <1>2, ConnAssumption DEF Bounds
<1>6. verdict'.asked \cup Told' \subseteq 1..txs'
  BY <1>1, <1>5 DEF Bounds
<1>7. \A s \in acked' : stmtTx[s] # NotIssued
  BY <1>2 DEF StoreInv
<1>8. ASSUME NEW s \in Stream, stream[s].status = "open"
      PROVE  /\ stream[s].tx \notin Told'
             /\ acked' \cap Of(stream[s].tx) \subseteq stream[s].pending
  BY <1>2, <1>8 DEF StoreInv, StoreStream, Undecided
<1>9. ASSUME NEW m \in net
      PROVE  /\ m.kind = "begin" => m.tx \notin Told' /\ m.tx # CurrentTx'
             /\ m.kind = "commit" =>
                  Spent(m.baton) \/ m.tx # CurrentTx' \/ m.baton = conn'.baton
  BY <1>2, <1>4 DEF StoreInv, StoreRequest, Unbegun
<1>10. StoreCall'
  <2>1. kind # "begin" => (StoreCall')
    BY <1>2 DEF StoreCall
  <2>2. ASSUME kind = "begin" PROVE StoreCall'
    <3>1. tx \notin verdict'.asked /\ tx \notin Told'
      BY <1>1, <2>2 DEF Bounds
    <3>2. OpenNowhere(tx)'
      BY <1>1, <1>2, <2>2 DEF OpenNowhere, IsOpen, Bounds
    <3>3. Of(tx)' = {}
      BY <1>1, <1>2, <2>2, ConnAssumption DEF Of, Bounds
    <3>4. NoBegin(tx)'
      BY <1>1, <1>2, <2>2 DEF NoBegin, Bounds
    <3>5. tx # CurrentTx'
      BY <1>1, <1>4, <2>2 DEF Bounds
    <3>. QED BY <1>2, <3>1, <3>2, <3>3, <3>4, <3>5 DEF StoreCall, Unbegun
  <2>. QED BY <2>1, <2>2
<1>11. StoreConn(conn)'
  BY <1>2, <1>4 DEF StoreInv, StoreConn
<1>. QED
  BY <1>2, <1>3, <1>5, <1>6, <1>7, <1>8, <1>9, <1>10, <1>11, ClientKeepsStore

(* A request that is sent, with the statement it issues.                    *)
LEMMA SendKeepsStore ==
  ASSUME TypeOK, StreamInv, TxInv, StoreInv, SendPipelineRequest
  PROVE  StoreInv'
<1>. USE StoreTypes
<1>1. /\ TxCall /\ StoreCall /\ Bounds /\ call.phase = "send" /\ reply' = NoReply
      /\ UNCHANGED <<stream, committed, conn, reply, app, txs, acked>>
  BY DEF SendPipelineRequest, StreamInv, CallInv, TxInv, StoreInv, serverVars
<1>2. PICK stmts \in IF CarriesStmt THEN {{s} : s \in Unissued} ELSE {{}} :
             /\ net' = net \cup {Message(stmts)}
             /\ call' = [call EXCEPT !.phase = "wait", !.stmt = stmts,
                                     !.id = reqs + 1]
             /\ stmtTx' = [s \in Stmt |-> IF s \in stmts THEN call.tx
                                                          ELSE stmtTx[s]]
  BY DEF SendPipelineRequest
<1>3. /\ stmts \subseteq Unissued
      /\ stmts # {} => call.kind \in {"exec", "chunk"} /\ call.tx = CurrentTx
  BY <1>1, <1>2 DEF CarriesStmt, TxCall, CurrentTx, InChunks
<1>4. /\ call'.phase = "wait" /\ call'.kind = call.kind /\ call'.tx = call.tx
      /\ call'.chunked = call.chunked /\ call'.stmt = stmts
      /\ CurrentTx' = CurrentTx
  BY <1>1, <1>2 DEF Call, CurrentTx, InChunks
<1>5. /\ verdict'.asked = IF call.kind = "commit" THEN verdict.asked \cup {call.tx}
                                                 ELSE verdict.asked
      /\ Told' = Told
      /\ call.kind # "commit" /\ app.failed /\ call.tx = NoTx
           => stmts \subseteq verdict'.doubtful
  BY <1>4 DEF SendPipelineRequest, TypeOK, Verdict, Told
<1>6. \A s \in stmts : stmtTx[s] = NotIssued /\ s \notin acked \cup committed
  BY <1>3 DEF Unissued, StoreInv
<1>7. /\ \A t \in Nat : t # call.tx \/ stmts = {} => Of(t)' = Of(t)
      /\ \A t \in Nat : Of(t)' \subseteq Of(t) \cup stmts
  BY <1>2, <1>6, ConnAssumption DEF Of
<1>8. ASSUME NEW s \in Stream PROVE StoreStream(s)'
  BY <1>1, <1>5, <1>6, <1>7 DEF StoreInv, StoreStream, Undecided, IsOpen
<1>9. ASSUME NEW t \in Nat, Unbegun(t), stmts # {} => t # call.tx PROVE Unbegun(t)'
  BY <1>1, <1>4, <1>5, <1>7, <1>9 DEF Unbegun, OpenNowhere, IsOpen
<1>10. ASSUME NEW m \in net' PROVE StoreRequest(m)'
  <2>1. /\ Message(stmts).kind = call.kind /\ Message(stmts).tx = call.tx
        /\ Message(stmts).baton = conn.baton
    BY DEF Message
  <2>2. CASE m = Message(stmts)
    <3>1. m.kind = call.kind /\ m.tx = call.tx /\ m.tx \in Nat
      BY <2>1, <2>2
    <3>2. ASSUME m.kind = "begin" PROVE Unbegun(m.tx)' /\ NoBegin(m.tx)
      <4>1. stmts = {}
        BY <1>3, <3>1, <3>2
      <4>2. Unbegun(m.tx) /\ NoBegin(m.tx)
        BY <1>1, <3>1, <3>2 DEF StoreCall
      <4>. QED BY <1>9, <3>1, <4>1, <4>2
    <3>3. m.stmt = call'.stmt
      BY <1>4, <2>2 DEF Message
    <3>. QED BY <1>1, <1>2, <2>1, <2>2, <3>1, <3>2, <3>3 DEF StoreRequest, NoBegin
  <2>3. CASE m \in net
    <3>1. StoreRequest(m)
      BY <2>3 DEF StoreInv
    <3>2. m.kind = "begin" => (Unbegun(m.tx)')
      BY <1>3, <1>9, <2>3, <3>1 DEF StoreRequest, Unbegun
    <3>3. m.kind = "begin" /\ call.kind = "begin" => m.tx # call.tx
      BY <1>1, <2>3 DEF StoreCall, NoBegin
    <3>4. ~Awaited(m)'
      BY <1>2, <2>3 DEF Awaited, StreamInv, GoodRequest, Request, TypeOK, Call
    <3>. QED BY <1>1, <1>2, <1>4, <2>1, <3>1, <3>2, <3>3, <3>4 DEF StoreRequest, Spent
  <2>. QED BY <1>2, <2>2, <2>3
<1>11. Bounds'
  <2>1. call.kind = "commit" => call.tx \in 1..txs
    BY <1>1 DEF TxCall, Bounds, NoTx
  <2>2. verdict'.asked \cup Told' \subseteq 1..txs'
    BY <1>1, <1>5, <2>1 DEF Bounds
  <2>3. \A m \in net' : m.tx <= txs'
    BY <1>1, <1>2 DEF Bounds, Message
  <2>4. \A s \in Stmt : stmtTx'[s] = NotIssued \/ stmtTx'[s] <= txs'
    BY <1>1, <1>2 DEF Bounds
  <2>. QED BY <1>1, <1>4, <2>2, <2>3, <2>4 DEF Bounds
<1>12. StoreCall'
  <2>1. \A s \in stmts : stmtTx'[s] = call.tx
    BY <1>2, <1>3 DEF Unissued
  <2>. QED BY <1>1, <1>3, <1>4, <1>5, <2>1 DEF StoreCall
<1>13. StoreConn(conn)'
  BY <1>1, <1>4 DEF StoreInv, StoreConn
<1>14. \A s \in acked' \cup committed' : stmtTx'[s] # NotIssued
  BY <1>1, <1>2, <1>6 DEF StoreInv
<1>. QED BY <1>1, <1>8, <1>10, <1>11, <1>12, <1>13, <1>14 DEF StoreInv

(* How the server moves stream s, which executes request m or expires: it   *)
(* stays in its transaction, m opens it, or m commits it.                   *)
Continues(s) ==
  /\ stream[s].status = "open" /\ stream'[s].tx = stream[s].tx
  /\ stream[s].pending \subseteq stream'[s].pending

Opens(s, m) ==
  /\ stream[s].status = "unused" /\ stream'[s].tx = m.tx
  /\ m \in net \ net' /\ m.kind = "begin"

Commits(p, s, m) ==
  /\ s \in Stream /\ stream[s].status = "open" /\ stream'[s].status # "open"
  /\ stmtTx[p] = stream[s].tx
  /\ m \in net /\ m.kind = "commit" /\ m.tx = stream[s].tx /\ ~Spent(m.baton)

Moves(s, m) ==
  /\ \A t \in Stream \ {s} : stream'[t] = stream[t]
  /\ s \in Stream =>
       /\ stream'[s].gen \in Nat /\ stream'[s].gen >= stream[s].gen
       /\ stream'[s].status = "open" => Continues(s) \/ Opens(s, m)
  /\ committed' \subseteq Stmt /\ committed \subseteq committed'
  /\ \A p \in committed' \ committed : stmtTx[p] = NoTx \/ Commits(p, s, m)

(* The transaction of a call that no BEGIN starts is the current one.       *)
LEMMA TxOfCall ==
  ASSUME TypeOK, TxInv, call.phase # "idle", call.kind # "begin", call.tx # NoTx
  PROVE  call.tx = CurrentTx
  BY DEF TxInv, TxCall, CurrentTx, InChunks

(* What one stream does leaves what is known of the others as it was, and   *)
(* the answer that has arrived stays true.                                  *)
LEMMA MovesKeepStore ==
  ASSUME TypeOK, StreamInv, TxInv, StoreInv, net' \subseteq net,
         UNCHANGED <<conn, call, app, txs, stmtTx, acked, verdict>>,
         NEW s, NEW m, Moves(s, m),
         reply' # NoReply =>
           \/ reply' = reply
           \/ StoreReply(reply)' /\ (call.kind = "begin" => NoBegin(call.tx)')
  PROVE  StoreInv'
<1>. USE StoreTypes
<1>1. /\ (\A t : Of(t)' = Of(t)) /\ CurrentTx' = CurrentTx /\ Told' = Told
      /\ Bounds /\ StoreCall /\ (reply # NoReply => StoreReply(reply))
      /\ committed \subseteq committed'
  BY DEF Of, CurrentTx, InChunks, Told, StoreInv, Moves
<1>2. \A t \in Stream : stream'[t].gen \in Nat /\ stream'[t].gen >= stream[t].gen
  BY DEF Moves
<1>3. ASSUME NEW t \in Stream, stream'[t].status = "open"
      PROVE  Continues(t) \/ (t = s /\ Opens(t, m))
  BY <1>3 DEF Moves, Continues
<1>4. ASSUME NEW t \in Stream, stream'[t].status = "open", Opens(t, m)
      PROVE  t = s /\ Unbegun(m.tx) /\ m.tx <= txs /\ m.tx \in Nat /\ m.tx # NoTx
  BY <1>1, <1>3, <1>4 DEF Opens, StoreInv, StoreRequest, TxInv, TxRequest, Bounds, Moves
<1>5. ASSUME NEW t \in Stream, stream'[t].status = "open"
      PROVE  stream'[t].tx <= txs /\ stream'[t].tx # NoTx /\ stream'[t].tx \in Nat
  BY <1>1, <1>3, <1>4, <1>5 DEF Continues, Opens, Bounds, TxInv, TxStream
<1>6. ASSUME NEW t \in Nat, t # NoTx, OpenNowhere(t) PROVE Of(t)' \cap committed' \subseteq Of(t) \cap committed
  BY <1>1, <1>6 DEF Moves, Commits, Of, OpenNowhere, IsOpen
<1>7. ASSUME NEW t \in Nat, OpenNowhere(t),
             \A q \in net \ net' : q.kind = "begin" => q.tx # t
      PROVE  OpenNowhere(t)'
  BY <1>3, <1>7 DEF OpenNowhere, IsOpen, Continues, Opens
<1>8. ASSUME NEW t \in Stream PROVE StoreStream(t)'
  <2>1. SUFFICES ASSUME stream'[t].status = "open"
                 PROVE  /\ Undecided(stream[t].tx)'
                        /\ acked \cap Of(stream'[t].tx) \subseteq stream'[t].pending
                        /\ \A u \in Stream : IsOpen(u, stream[t].tx)' => u = t
    BY <1>1 DEF StoreStream
  <2>2. CASE Continues(t)
    <3>1. StoreStream(t) /\ stream'[t].tx = stream[t].tx /\ stream[t].tx # NoTx
          /\ stream[t].status = "open"
      BY <2>2 DEF StoreInv, Continues, TxInv, TxStream
    <3>2. ASSUME NEW u \in Stream, IsOpen(u, stream[t].tx)' PROVE u = t
      BY <1>3, <1>4, <3>1, <3>2
         DEF IsOpen, Continues, Opens, StoreStream, Unbegun, OpenNowhere
    <3>3. Of(stream[t].tx) \cap committed' = {}
      <4>1. ASSUME NEW p \in committed' \ committed, stmtTx[p] = stream[t].tx
            PROVE  FALSE
        BY <2>1, <3>1, <4>1 DEF Moves, Commits, StoreStream, IsOpen
      <4>. QED BY <3>1, <4>1 DEF StoreStream, Undecided, Of
    <3>. QED BY <1>1, <2>2, <3>1, <3>2, <3>3 DEF StoreStream, Undecided, Continues
  <2>3. CASE Opens(t, m)
    <3>1. stream'[t].tx = m.tx /\ Unbegun(m.tx) /\ m.tx \in Nat /\ m.tx # NoTx
      BY <1>4, <2>1, <2>3 DEF Opens
    <3>2. ASSUME NEW u \in Stream, IsOpen(u, stream[t].tx)' PROVE u = t
      BY <1>3, <1>4, <2>1, <2>3, <3>1, <3>2 DEF IsOpen, Continues, Unbegun, OpenNowhere
    <3>3. Of(m.tx) = {} /\ m.tx \notin Told
      BY <3>1 DEF Unbegun
    <3>. QED BY <1>1, <3>1, <3>2, <3>3 DEF Undecided
  <2>. QED BY <1>3, <2>1, <2>2, <2>3
<1>9. ASSUME NEW q \in net', q.kind = "begin" PROVE OpenNowhere(q.tx)'
  <2>1. StoreRequest(q) /\ q.tx \in Nat
    BY DEF StoreInv
  <2>2. OpenNowhere(q.tx) /\ \A r \in net \ net' : r.kind = "begin" => r.tx # q.tx
    BY <1>9, <2>1 DEF StoreRequest, Unbegun, StoreInv
  <2>. QED BY <1>7, <2>1, <2>2
<1>10. ASSUME call.phase = "send", call.kind = "begin" PROVE OpenNowhere(call.tx)'
  <2>1. PICK t \in Nat : t = call.tx
    OBVIOUS
  <2>2. OpenNowhere(t) /\ \A r \in net \ net' : r.kind = "begin" => r.tx # t
    BY <1>1, <1>10, <2>1 DEF StoreCall, Unbegun, NoBegin
  <2>. QED BY <1>7, <2>1, <2>2
<1>11. \A p \in committed' : stmtTx[p] # NotIssued
  BY ConnAssumption DEF StoreInv, Moves, Commits, NoTx
<1>12. ASSUME reply # NoReply, reply' = reply
       PROVE  StoreReply(reply)' /\ (call.kind = "begin" => NoBegin(call.tx)')
  <2>1. call.phase = "wait" /\ StoreReply(reply)
    BY <1>1, <1>12 DEF StreamInv, CallInv
  <2>2. ASSUME reply.http, Spent(conn.baton) PROVE Spent(conn.baton)'
    <3>1. conn.baton # NoBaton =>
            conn.baton[1] \in Stream /\ conn.baton[2] \in Nat
            /\ stream[conn.baton[1]].status # "unused"
      BY DEF Baton, StreamInv, GoodConn, Started
    <3>. QED BY <1>2, <1>3, <2>2, <3>1 DEF Spent, Continues, Opens
  <2>3. ASSUME reply.http, reply.ok, Spent(conn.baton), Delivered(reply)
        PROVE  Delivered(reply)'
    <3>1. PICK tx \in Nat : tx = call.tx
      OBVIOUS
    <3>2. call.kind # "begin" /\ tx # NoTx => tx = CurrentTx
      BY <2>1, <3>1, TxOfCall
    <3>3. CASE call.kind \in {"exec", "chunk"} /\ call.tx # NoTx
      <4>1. Undecided(tx)'
        <5>1. ASSUME NEW p \in committed' \ committed, stmtTx[p] = tx PROVE FALSE
          BY <2>3, <3>1, <3>2, <3>3, <5>1 DEF Moves, Commits, StoreInv, StoreRequest
        <5>. QED BY <1>1, <2>3, <3>1, <3>3, <5>1 DEF Delivered, Undecided, Of
      <4>2. ASSUME NEW u \in Stream, IsOpen(u, tx)'
            PROVE  call.stmt \subseteq stream'[u].pending
        BY <1>3, <1>4, <2>3, <3>1, <3>2, <3>3, <4>2
           DEF Delivered, IsOpen, Continues, Opens, Unbegun
      <4>. QED BY <3>1, <3>3, <4>1, <4>2 DEF Delivered, IsOpen
    <3>4. CASE call.kind = "exec" /\ call.tx = NoTx
      BY <1>1, <2>3, <3>4 DEF Delivered
    <3>5. CASE call.kind \in {"commit", "rollback"}
      <4>1. tx # NoTx /\ OpenNowhere(tx)
        BY <2>1, <2>3, <3>1, <3>5 DEF TxInv, TxCall, Delivered
      <4>2. \A r \in net : r.kind = "begin" => r.tx # tx
        BY <3>2, <3>5, <4>1 DEF StoreInv, StoreRequest, Unbegun
      <4>3. OpenNowhere(tx)' /\ Of(tx)' \cap committed' \subseteq Of(tx) \cap committed
        BY <1>6, <1>7, <4>1, <4>2
      <4>. QED BY <1>1, <2>3, <3>1, <3>5, <4>3 DEF Delivered
    <3>6. CASE /\ call.kind \notin {"exec", "commit", "rollback"}
               /\ call.kind = "chunk" => call.tx = NoTx
      BY <3>6 DEF Delivered
    <3>. QED BY <3>3, <3>4, <3>5, <3>6
  <2>4. StoreReply(reply)'
    BY <1>1, <1>12, <2>1, <2>2, <2>3 DEF StoreReply
  <2>5. call.kind = "begin" => NoBegin(call.tx)'
    BY <1>1, <1>12, <2>1 DEF StoreCall, NoBegin
  <2>. QED BY <2>4, <2>5
<1>13. \A t \in Stream :
         stream[t].status # "unused" /\ stream'[t].status = "open"
           => stream[t].status = "open"
  BY <1>3 DEF Continues, Opens
<1>. QED
  BY <1>2, <1>5, <1>8, <1>9, <1>10, <1>11, <1>12, <1>13, ServerKeepsStore

(* The transaction request m finds on stream s, and its statements.         *)
TxOn(m, s) == IF m.baton = NoBaton THEN NoTx ELSE stream[s].tx
PendingOn(m, s) == IF m.baton = NoBaton THEN {} ELSE stream[s].pending

(* What executing m on s, with outcome o, comes to when the server keeps    *)
(* the streams that are in a transaction.                                   *)
Execution(m, s, o, keep) ==
  /\ m.baton = NoBaton => stream[s].status = "unused"
  /\ m.baton # NoBaton =>
       /\ stream[s].status = "open" /\ stream[s].tx # NoTx
       /\ m.baton = <<s, stream[s].gen>>
  /\ m.kind \in {"exec", "chunk"} /\ m.tx # NoTx => TxOn(m, s) = m.tx
  /\ m.kind = "commit" => TxOn(m, s) = m.tx
  /\ keep =>
       \/ /\ TxOn(m, s) # NoTx /\ o.tx = TxOn(m, s) /\ PendingOn(m, s) \subseteq o.pending
          /\ m.kind \in {"exec", "chunk"} /\ o.ok => m.stmt \subseteq o.pending
       \/ TxOn(m, s) = NoTx /\ m.kind = "begin" /\ o.tx = m.tx /\ o.ok
  /\ \/ o.durable = {}
     \/ o.durable = m.stmt /\ TxOn(m, s) = NoTx /\ m.tx = NoTx
     \/ /\ m.kind = "commit" /\ o.durable = PendingOn(m, s)
        /\ TxOn(m, s) # NoTx /\ ~keep
  /\ o.ok =>
       CASE m.kind \in {"exec", "chunk"} ->
              IF TxOn(m, s) = NoTx THEN o.durable = m.stmt ELSE keep
         [] m.kind = "commit" ->
              TxOn(m, s) # NoTx /\ o.durable = PendingOn(m, s) /\ ~keep
         [] m.kind = "rollback" -> ~keep
         [] OTHER -> TRUE

(* Each outcome of a request is as described.                               *)
LEMMA ExecutionFacts ==
  ASSUME TypeOK, TxInv, EagerClose, StepsSucceed, NEW m \in net,
         NEW n, NEW s \in Stream, Accepts(m, n, s), NEW o \in OutcomesOn(m, s),
         NEW keep \in MayKeep(m, o.tx)
  PROVE  Execution(m, s, o, keep)
<1>. DEFINE T == TxOn(m, s)
            P == PendingOn(m, s)
<1>1. /\ m \in Request /\ m.tx \in Nat /\ m.stmt \subseteq Stmt
      /\ T \in Nat /\ P \in SUBSET Stmt /\ TxRequest(m) /\ TxStream(s)
  BY StoreTypes DEF TxOn, PendingOn, NoTx, TxInv
<1>2. o \in Outcomes(m, T, P)
  BY DEF OutcomesOn, TxOn, PendingOn
<1>3. m.baton = NoBaton => stream[s].status = "unused" /\ T = NoTx
  BY DEF Accepts, TxOn
<1>4. m.baton # NoBaton =>
        /\ stream[s].status = "open" /\ stream[s].tx # NoTx /\ T = stream[s].tx
        /\ m.baton = <<s, stream[s].gen>>
  BY <1>1 DEF Accepts, TxStream, TxOn
<1>5. \A tx : InTx(m.baton, tx) => T = tx
  BY <1>4 DEF InTx
<1>6. /\ m.kind \in {"exec", "chunk"} /\ m.tx # NoTx => T = m.tx
      /\ m.kind = "commit" => T = m.tx
  BY <1>1, <1>5 DEF TxRequest
<1>7. keep => o.tx # NoTx
  BY DEF MayKeep, EagerClose
<1>8. m.kind # "close" /\ o.tx # NoTx => keep
  BY DEF MayKeep
<1>. HIDE DEF T, P
<1>9. m.kind \in Kind
  BY <1>1 DEF Request
<1>10. /\ keep =>
            \/ /\ T # NoTx /\ o.tx = T /\ P \subseteq o.pending
               /\ m.kind \in {"exec", "chunk"} /\ o.ok => m.stmt \subseteq o.pending
            \/ T = NoTx /\ m.kind = "begin" /\ o.tx = m.tx /\ o.ok
       /\ \/ o.durable = {}
          \/ o.durable = m.stmt /\ T = NoTx /\ m.kind \in {"exec", "chunk"}
          \/ m.kind = "commit" /\ o.durable = P /\ T # NoTx /\ ~keep
       /\ o.ok =>
            CASE m.kind \in {"exec", "chunk"} ->
                   IF T = NoTx THEN o.durable = m.stmt ELSE keep
              [] m.kind = "commit" -> T # NoTx /\ o.durable = P /\ ~keep
              [] m.kind = "rollback" -> ~keep
              [] OTHER -> TRUE
  <2>. USE DEF Unchanged, Ends, Leaves
  <2>1. CASE m.kind = "exec"
    BY <1>2, <1>7, <1>8, <2>1 DEF Outcomes, Executed, Applies
  <2>2. CASE m.kind = "chunk"
    <3>1. StepFails \cap {TRUE} = {}
      BY DEF StepsSucceed
    <3>2. o = Applies(m, T, P)
      BY <1>2, <2>2, <3>1 DEF Outcomes, Chunked
    <3>. QED BY <1>7, <1>8, <2>2, <3>2 DEF Applies
  <2>3. CASE m.kind = "begin"
    BY <1>2, <1>7, <1>8, <2>3 DEF Outcomes
  <2>4. CASE m.kind = "commit"
    BY <1>2, <1>7, <1>8, <2>4 DEF Outcomes
  <2>5. CASE m.kind = "rollback"
    BY <1>2, <1>7, <1>8, <2>5 DEF Outcomes
  <2>6. CASE m.kind = "close"
    BY <1>2, <1>7, <2>6 DEF Outcomes
  <2>. QED BY <1>9, <2>1, <2>2, <2>3, <2>4, <2>5, <2>6 DEF Kind
<1>. QED BY <1>3, <1>4, <1>6, <1>10 DEF Execution, T, P

(* Stream s has moved when m has been executed on it.                       *)
LEMMA ExecutesMoves ==
  ASSUME TypeOK, TxInv, StoreInv, NEW m \in net, net' = net \ {m},
         NEW n, NEW s \in Stream, NEW o, NEW keep \in BOOLEAN,
         Execution(m, s, o, keep), Executes(m, n, s, o, keep), committed' \subseteq Stmt
  PROVE  /\ Moves(s, m)
         /\ stream'[s].status = "open" => keep
         /\ stream'[s].tx = o.tx /\ stream'[s].pending = o.pending
         /\ stream'[s].gen = stream[s].gen + 1
         /\ committed' = committed \cup o.durable
<1>. USE StoreTypes
<1>1. /\ stream'[s].status = IF keep THEN "open" ELSE "closed"
      /\ stream'[s].tx = o.tx /\ stream'[s].pending = o.pending
      /\ stream'[s].gen = stream[s].gen + 1
      /\ \A t \in Stream \ {s} : stream'[t] = stream[t]
      /\ committed' = committed \cup o.durable
  BY DEF Executes
<1>2. keep => Continues(s) \/ Opens(s, m)
  BY <1>1 DEF Execution, Continues, Opens, TxOn, PendingOn
<1>3. ASSUME NEW p \in o.durable PROVE stmtTx[p] = NoTx \/ Commits(p, s, m)
  <2>1. CASE m.tx = NoTx /\ o.durable = m.stmt
    BY <1>3, <2>1 DEF TxInv, TxRequest
  <2>2. CASE /\ m.kind = "commit" /\ o.durable = PendingOn(m, s)
             /\ TxOn(m, s) # NoTx /\ ~keep
    <3>1. /\ stream[s].status = "open" /\ m.baton = <<s, stream[s].gen>>
          /\ m.tx = stream[s].tx /\ p \in stream[s].pending
      BY <1>3, <2>2 DEF Execution, TxOn, PendingOn
    <3>2. stmtTx[p] \in {NoTx, stream[s].tx} /\ ~Spent(m.baton) /\ stream'[s].status # "open"
      BY <1>1, <2>2, <3>1, ServerAssumption DEF TxInv, TxStream, Spent
    <3>. QED BY <2>2, <3>1, <3>2 DEF Commits
  <2>. QED BY <1>3, <2>1, <2>2 DEF Execution
<1>. QED BY <1>1, <1>2, <1>3 DEF Moves

(* The answer to the request the call waits for.                            *)
LEMMA AnswerKeepsStore ==
  ASSUME TypeOK, StreamInv, TxInv, StoreInv, NEW m \in net, net' = net \ {m},
         UNCHANGED <<conn, call, app, txs, stmtTx, acked, verdict>>,
         NEW n, NEW s \in Stream, NEW o, NEW keep \in BOOLEAN,
         Execution(m, s, o, keep), Executes(m, n, s, o, keep), committed' \subseteq Stmt,
         Awaited(m), NEW base, NEW r, r = Answer(s, o, keep, base)
  PROVE  StoreReply(r)'
<1>0. /\ Moves(s, m) /\ stream'[s].pending = o.pending
      /\ stream'[s].gen = stream[s].gen + 1
      /\ stream'[s].status = "open" => keep
      /\ committed' = committed \cup o.durable
  BY ExecutesMoves
<1>. USE StoreTypes
<1>1. /\ m.kind = call.kind /\ m.tx = call.tx /\ m.baton = conn.baton
      /\ m.stmt = call.stmt /\ call.phase = "wait" /\ ~conn.streamClosed
      /\ app.state = "used" /\ TxCall /\ StoreCall
  BY DEF Awaited, TxInv, TxRequest, TxCall, StoreInv, StoreRequest, StreamInv, CallInv
<1>2. /\ (\A t : Of(t)' = Of(t)) /\ CurrentTx' = CurrentTx /\ Told' = Told
      /\ app.failed' = app.failed
  BY DEF Of, CurrentTx, InChunks, Told
<1>4. r.ok = o.ok /\ (~keep => r.baton = NoBaton)
  BY DEF Answer
<1>5. Spent(conn.baton)'
  BY <1>1, <1>0 DEF Execution, Spent
<1>6. call.kind = "rollback" => m.baton # NoBaton /\ TxOn(m, s) = m.tx
  <2>1. call.kind = "rollback" => ~InChunks /\ call.tx = app.tx /\ call.tx # NoTx
    BY <1>1 DEF InChunks, TxCall
  <2>2. call.kind = "rollback" => InTx(conn.baton, call.tx)
    BY <1>1, <2>1 DEF TxInv, TxConn, CurrentTx
  <2>. QED BY <1>1, <2>2 DEF InTx, TxOn, Execution
<1>7. ASSUME o.ok PROVE Delivered(r)'
  <2>1. PICK tx \in Nat : tx = call.tx
    OBVIOUS
  <2>2. ASSUME tx # NoTx, TxOn(m, s) = tx
        PROVE  /\ Undecided(tx) /\ acked \cap Of(tx) \subseteq PendingOn(m, s)
               /\ \A u \in Stream : IsOpen(u, tx)' => u = s /\ keep
    <3>1. stream[s].status = "open" /\ stream[s].tx = tx /\ StoreStream(s)
          /\ PendingOn(m, s) = stream[s].pending
      BY <2>2 DEF TxOn, Execution, StoreInv, PendingOn
    <3>2. \A u \in Stream : IsOpen(u, tx)' => u = s
      BY <1>0, <3>1 DEF StoreStream, IsOpen, Moves
    <3>. QED BY <1>0, <3>1, <3>2 DEF StoreStream, IsOpen
  <2>3. CASE call.kind \in {"exec", "chunk"} /\ call.tx # NoTx
    <3>1. TxOn(m, s) = tx /\ keep /\ o.durable = {} /\ call.stmt \subseteq o.pending
      BY <1>1, <1>7, <2>1, <2>3 DEF Execution
    <3>2. Undecided(tx)'
      BY <1>2, <1>0, <2>1, <2>2, <2>3, <3>1 DEF Undecided
    <3>3. \A u \in Stream : IsOpen(u, tx)' => call.stmt \subseteq stream'[u].pending
      BY <1>0, <2>1, <2>2, <2>3, <3>1
    <3>. QED BY <2>1, <2>3, <3>2, <3>3 DEF Delivered, IsOpen
  <2>4. CASE call.kind = "exec" /\ call.tx = NoTx
    <3>1. CASE app.failed
      BY <1>1, <2>4, <3>1 DEF StoreCall, Delivered
    <3>2. CASE ~app.failed
      <4>1. CurrentTx = NoTx
        BY <1>1, <2>4 DEF TxCall, CurrentTx, InChunks
      <4>2. conn.baton = NoBaton
        BY <1>1, <3>2, <4>1 DEF StoreInv, StoreConn
      <4>3. o.durable = call.stmt
        BY <1>1, <1>7, <2>4, <4>2 DEF Execution, TxOn
      <4>. QED BY <1>0, <2>4, <4>3 DEF Delivered
    <3>. QED BY <3>1, <3>2
  <2>5. CASE call.kind = "commit"
    <3>1. TxOn(m, s) = tx /\ tx # NoTx /\ o.durable = PendingOn(m, s) /\ ~keep
      BY <1>1, <1>7, <2>1, <2>5 DEF Execution
    <3>2. Of(tx)' \cap acked' \subseteq committed' /\ OpenNowhere(tx)'
      BY <1>2, <1>0, <2>2, <3>1 DEF OpenNowhere
    <3>. QED BY <2>1, <2>5, <3>2 DEF Delivered
  <2>6. CASE call.kind = "rollback"
    <3>1. TxOn(m, s) = tx /\ tx # NoTx /\ o.durable = {} /\ ~keep
      BY <1>1, <1>6, <1>7, <2>1, <2>6 DEF Execution, TxCall
    <3>2. Of(tx)' \cap committed' = {} /\ OpenNowhere(tx)'
      BY <1>2, <1>0, <2>2, <3>1 DEF OpenNowhere, Undecided
    <3>. QED BY <2>1, <2>6, <3>2 DEF Delivered
  <2>7. CASE call.kind \notin {"exec", "chunk", "commit", "rollback"}
    BY <2>7 DEF Delivered
  <2>. QED BY <1>1, <2>3, <2>4, <2>5, <2>6, <2>7 DEF TxCall
<1>8. ASSUME \/ CurrentTx = NoTx /\ ~app.failed /\ ~(call.kind = "begin" /\ o.ok)
             \/ call.kind \in {"commit", "rollback"} /\ o.ok
      PROVE  ~keep
  <2>1. CASE CurrentTx = NoTx /\ ~app.failed /\ ~(call.kind = "begin" /\ o.ok)
    <3>1. TxOn(m, s) = NoTx
      BY <1>1, <2>1 DEF StoreInv, StoreConn, TxOn
    <3>. QED BY <1>1, <2>1, <3>1 DEF Execution
  <2>. QED BY <1>1, <1>8, <2>1 DEF Execution
<1>. QED BY <1>2, <1>4, <1>5, <1>7, <1>8 DEF StoreReply

(* A request is served: its answer, or a refusal, is delivered.             *)
LEMMA ServesKeepStore ==
  ASSUME TypeOK, StreamInv, TxInv, StoreInv, NEW m \in net, net' = net \ {m},
         UNCHANGED <<conn, call, app, txs, stmtTx, acked, verdict>>,
         NEW s, Moves(s, m), NEW r, Delivers(m, r),
         Awaited(m) => StoreReply(r)'
  PROVE  StoreInv'
<1>1. CASE ~Awaited(m)
  <2>1. reply' = reply
    BY <1>1 DEF Delivers, Awaited
  <2>. QED BY <2>1, MovesKeepStore
<1>2. CASE Awaited(m)
  <2>1. reply' = r /\ call.kind = m.kind /\ call.tx = m.tx
    BY <1>2 DEF Delivers, Awaited, TxInv, TxRequest
  <2>2. StoreReply(reply)'
    BY <1>2, <2>1 DEF StoreReply
  <2>3. call.kind = "begin" => NoBegin(call.tx)'
    BY <2>1 DEF StoreInv, StoreRequest, NoBegin
  <2>. QED BY <2>2, <2>3, MovesKeepStore
<1>. QED BY <1>1, <1>2

(* Every action of HranaConn preserves StoreInv.                            *)
LEMMA StoreInvNext ==
  ASSUME EagerClose, StepsSucceed, TypeOK, StreamInv, TxInv, StoreInv, [Next]_vars
  PROVE  StoreInv'
<1>. USE StoreTypes DEF serverVars, clientVars, ghostVars
<1>0. CallInv /\ TxCall /\ Bounds /\ StoreCall /\ StoreConn(conn)
  BY DEF StreamInv, TxInv, StoreInv
<1>1. ASSUME call.phase = "idle",
             UNCHANGED <<stream, committed, stmtTx, verdict, acked, txs, call, reply>>,
             app'.tx # NoTx => app'.tx = app.tx /\ conn' = conn,
             app'.tx \in {app.tx, NoTx}, StoreConn(conn)',
             NEW c, net' = net \/ SendsClose(c)
      PROVE  StoreInv'
  <2>1. /\ reply' = NoReply /\ call'.phase # "wait" /\ call'.tx <= txs'
        /\ CurrentTx' = app'.tx /\ CurrentTx = app.tx /\ Told' = Told
    BY <1>0, <1>1 DEF CallInv, Bounds, CurrentTx, InChunks, Told
  <2>2. /\ txs <= txs' /\ txs' <= MaxTx /\ txs' \in Nat /\ app'.tx <= txs'
        /\ verdict'.asked \cup Told' \subseteq 1..txs'
    BY <1>0, <1>1, <2>1 DEF Bounds, NoTx
  <2>3. \A s \in acked' : stmtTx[s] # NotIssued
    BY <1>1 DEF StoreInv
  <2>4. ASSUME NEW s \in Stream, stream[s].status = "open"
        PROVE  /\ stream[s].tx \notin Told'
               /\ acked' \cap Of(stream[s].tx) \subseteq stream[s].pending
    BY <1>1, <2>1, <2>4 DEF StoreInv, StoreStream, Undecided
  <2>5. ASSUME NEW m \in net
        PROVE  /\ m.kind = "begin" => m.tx \notin Told' /\ m.tx # CurrentTx'
               /\ m.kind = "commit" =>
                    Spent(m.baton) \/ m.tx # CurrentTx' \/ m.baton = conn'.baton
    <3>1. CASE m.kind = "begin"
      BY <1>1, <2>1, <3>1 DEF StoreInv, StoreRequest, Unbegun, TxInv, TxRequest
    <3>2. CASE m.kind = "commit"
      <4>1. m.tx # NoTx /\ (Spent(m.baton) \/ m.tx # CurrentTx \/ m.baton = conn.baton)
        BY <1>0, <3>2 DEF TxInv, TxRequest, Bounds, NoTx, StoreInv, StoreRequest
      <4>. QED BY <1>1, <2>1, <3>2, <4>1
    <3>. QED BY <3>1, <3>2
  <2>6. StoreCall'
    BY <1>1, <1>0 DEF StoreCall
  <2>. QED BY <1>1, <2>1, <2>2, <2>3, <2>4, <2>5, <2>6, ClientKeepsStore
<1>2. CASE Connect
  <2>1. StoreConn(conn)'
    BY <1>2 DEF Connect, StoreConn, NewConn
  <2>2. app'.tx = NoTx /\ call.phase = "idle"
    BY <1>0, <1>2, SessionType DEF Connect, CallInv, App
  <2>. QED BY <1>1, <1>2, <2>1, <2>2 DEF Connect
<1>3. CASE ResetSession
  <2>1. StoreConn(conn)'
    BY <1>3 DEF ResetSession, StoreConn, WithoutStream, Conn
  <2>2. app'.tx = NoTx /\ call.phase = "idle"
    BY <1>0, <1>3, SessionType DEF ResetSession, CallInv, App
  <2>. QED BY <1>1, <1>3, <2>1, <2>2 DEF ResetSession
<1>4. CASE EndSession
  <2>1. StoreConn(conn)' /\ app'.tx = NoTx
    BY <1>4, SessionType DEF EndSession, StoreConn, App
  <2>. QED BY <1>1, <1>4, <2>1 DEF EndSession
<1>5. CASE Close
  <2>1. StoreConn(conn)' /\ app'.tx = app.tx
    BY <1>5 DEF Close, StoreConn, App
  <2>. QED BY <1>0, <1>1, <1>5, <2>1 DEF Close, CallInv
<1>6. CASE Calls
  <2>1. app.tx \in Nat /\ txs + 1 \in Nat
    OBVIOUS
  <2>2. CASE ExecContext
    BY <1>6, <2>1, <2>2, StartsKeepsStore DEF ExecContext, Starts, Told
  <2>3. CASE BeginTx
    BY <1>6, <2>1, <2>3, StartsKeepsStore DEF BeginTx, Begins, Starts, Told
  <2>4. CASE ExecInChunks
    <3>1. verdict'.asked = verdict.asked /\ Told' = Told
      BY <2>4 DEF ExecInChunks, Told, TypeOK, Verdict
    <3>. QED BY <2>1, <2>4, <3>1, StartsKeepsStore DEF ExecInChunks, Begins, Starts
  <2>5. CASE Commit
    BY <1>6, <2>1, <2>5, StartsKeepsStore DEF Commit, Starts, Told
  <2>6. CASE Rollback
    BY <1>6, <2>1, <2>6, StartsKeepsStore DEF Rollback, Starts, Told
  <2>. QED BY <1>6, <2>2, <2>3, <2>4, <2>5, <2>6 DEF Calls
<1>7. CASE SendPipelineRequest
  BY <1>7, SendKeepsStore
<1>8. CASE ErrBadConn
  <2>1. Ended(FALSE, conn) /\ Returns(FALSE, conn) /\ call.phase # "idle"
    BY <1>8 DEF ErrBadConn, Refused, Ended
  <2>. QED BY <1>8, <2>1, FailureKeepsStore DEF ErrBadConn
<1>9. CASE ReceiveReply
  <2>1. reply \in Reply /\ StoreReply(reply) /\ TxReply(reply) /\ call.phase = "wait"
        /\ reply # NoReply
    BY <1>9 DEF ReceiveReply, TxInv, StoreInv, TypeOK
  <2>2. PICK c \in Conn : c = AfterReply(conn, reply)
    BY <2>1, AfterReplyType
  <2>3. /\ reply.http => c.baton = reply.baton
        /\ ~reply.http => c.baton = conn.baton /\ c.streamClosed
    BY <2>2 DEF AfterReply, Conn
  <2>4. CASE reply.http /\ reply.ok
    <3>1. Returns(TRUE, c)
      BY <1>9, <2>2, <2>4 DEF ReceiveReply
    <3>2. Ended(TRUE, c)
      BY <1>0, <2>1, <2>3, <2>4 DEF Ended, StoreReply, TxReply, StoreCall
    <3>. QED BY <1>9, <2>1, <3>1, <3>2, SuccessKeepsStore DEF ReceiveReply
  <2>5. CASE ~(reply.http /\ reply.ok)
    <3>1. Returns(FALSE, c)
      BY <1>9, <2>2, <2>5 DEF ReceiveReply
    <3>2. Ended(FALSE, c)
      BY <2>1, <2>3, <2>5 DEF Ended, StoreReply
    <3>. QED BY <1>9, <2>1, <3>1, <3>2, FailureKeepsStore DEF ReceiveReply
  <2>. QED BY <2>4, <2>5
<1>10. CASE TransportError
  <2>1. Returns(FALSE, conn) /\ call.phase = "wait" /\ app.state = "used"
    BY <1>0, <1>10 DEF TransportError, AfterTransportError, CallInv
  <2>2. Ended(FALSE, conn)
    BY <1>0, <2>1 DEF Ended, StoreConn
  <2>. QED BY <1>10, <2>1, <2>2, FailureKeepsStore DEF TransportError
<1>11. ASSUME NEW m \in net, ServerExecutes(m) PROVE StoreInv'
  <2>1. PICK n \in ReachedBy(m.url), s \in Stream :
          /\ Accepts(m, n, s)
          /\ \E o \in OutcomesOn(m, s) : \E keep \in MayKeep(m, o.tx) :
              /\ Executes(m, n, s, o, keep)
              /\ \/ \E base \in BaseUrls(m.url, n) :
                      Delivers(m, Answer(s, o, keep, base))
                 \/ Delivers(m, Refusal)
    BY <1>11 DEF ServerExecutes
  <2>2. PICK o \in OutcomesOn(m, s), keep \in BOOLEAN :
              /\ keep \in MayKeep(m, o.tx) /\ Executes(m, n, s, o, keep)
              /\ \/ \E base \in BaseUrls(m.url, n) :
                      Delivers(m, Answer(s, o, keep, base))
                 \/ Delivers(m, Refusal)
    BY <2>1, KeepType
  <2>3. m \in Request /\ n \in Node
    BY ReachedType
  <2>4. Execution(m, s, o, keep)
    BY <2>1, <2>2, ExecutionFacts
  <2>5. committed' \subseteq Stmt
    BY <2>2, <2>3, ExecutesType DEF ServerTypeOK
  <2>6. net' = net \ {m} /\ UNCHANGED <<conn, call, app, txs, stmtTx, acked, verdict>>
    BY <1>11 DEF ServerExecutes
  <2>7. Moves(s, m)
    BY <2>2, <2>3, <2>4, <2>5, <2>6, ExecutesMoves
  <2>8. ASSUME NEW base \in BaseUrls(m.url, n), Delivers(m, Answer(s, o, keep, base))
        PROVE  StoreInv'
    <3>1. PICK r : r = Answer(s, o, keep, base)
      OBVIOUS
    <3>2. Awaited(m) => StoreReply(r)'
      BY <2>2, <2>3, <2>4, <2>5, <2>6, <3>1, AnswerKeepsStore
    <3>. QED BY <2>6, <2>7, <2>8, <3>1, <3>2, ServesKeepStore
  <2>9. CASE Delivers(m, Refusal)
    <3>1. StoreReply(Refusal)'
      BY DEF StoreReply, Refusal
    <3>. QED BY <2>6, <2>7, <2>9, <3>1, ServesKeepStore
  <2>. QED BY <2>2, <2>8, <2>9
<1>12. ASSUME NEW m \in net, ServerRefuses(m) \/ ServerFails(m) PROVE StoreInv'
  <2>1. /\ net' = net \ {m} /\ Delivers(m, Refusal)
        /\ UNCHANGED <<stream, committed, conn, call, app, txs, stmtTx, acked, verdict>>
    BY <1>12 DEF ServerRefuses, ServerFails
  <2>2. PICK s : Moves(s, m)
    BY <2>1 DEF Moves, Continues
  <2>3. StoreReply(Refusal)'
    BY DEF StoreReply, Refusal
  <2>. QED BY <2>1, <2>2, <2>3, ServesKeepStore
<1>13. CASE StreamExpires
  <2>1. PICK s \in Stream : Expire(s)
    BY <1>13 DEF StreamExpires
  <2>2. /\ stream'[s].status = "closed" /\ stream'[s].gen = stream[s].gen
        /\ \A t \in Stream \ {s} : stream'[t] = stream[t]
        /\ committed' = committed
    BY <2>1 DEF Expire, StreamState
  <2>3. PICK m : Moves(s, m)
    BY <2>2 DEF Moves
  <2>. QED BY <1>13, <2>3, MovesKeepStore DEF StreamExpires
<1>14. CASE UNCHANGED vars
  BY <1>14 DEF vars, StoreInv, Bounds, StoreStream, StoreRequest, StoreCall, StoreConn,
     StoreReply, Delivered, Undecided, Unbegun, OpenNowhere, IsOpen, Of, Told, Spent,
     NoBegin, Awaited, CurrentTx, InChunks
<1>. QED BY <1>2, <1>3, <1>4, <1>5, <1>6, <1>7, <1>8, <1>9, <1>10, <1>11, <1>12,
            <1>13, <1>14
     DEF Next, Pool, Driver, Server, Finished

-----------------------------------------------------------------------------
(* The connection starts like the store.                                    *)
LEMMA StoreInit == Init => Store!Init
  BY DEF Init, ServerInit, Store!Init

(* An answer the client takes for a success acknowledges what the store may *)
(* acknowledge.                                                             *)
LEMMA SuccessIsStoreStep ==
  ASSUME TypeOK, TxInv, StoreInv, NEW c, call.phase = "wait", Returns(TRUE, c),
         Delivered(reply), call.kind # "close", UNCHANGED <<stmtTx, committed>>
  PROVE  [Store!Next]_Store!storeVars
<1>. USE StoreTypes
<1>1. TxCall /\ Bounds /\ StoreCall /\ MaxTx \in Nat
  BY ConnAssumption DEF TxInv, StoreInv
<1>2. /\ acked' = acked \cup call.stmt
      /\ verdict' = CASE call.kind = "commit" ->
                           [verdict EXCEPT !.committed = @ \cup {call.tx}]
                      [] call.kind = "rollback" ->
                           [verdict EXCEPT !.rolledBack = @ \cup {call.tx}]
                      [] OTHER -> verdict
  BY DEF Returns, Succeeds
<1>3. call.tx # NoTx => call.tx \in 1..MaxTx
  BY <1>1 DEF Bounds, NoTx
<1>4. CASE call.kind \in {"exec", "chunk"}
  <2>1. verdict' = verdict
    BY <1>2, <1>4
  <2>2. ASSUME NEW s \in call.stmt
        PROVE  \/ s \in committed \cup verdict.doubtful
               \/ /\ stmtTx[s] \in 1..MaxTx \ verdict.committed
                  /\ ~Store!HasTakenEffect(stmtTx[s])
    <3>1. stmtTx[s] = call.tx
      BY <1>1, <2>2 DEF StoreCall
    <3>2. CASE call.tx = NoTx
      BY <1>1, <1>4, <2>2, <3>2 DEF Delivered, TxCall
    <3>3. CASE call.tx # NoTx
      BY <1>3, <1>4, <3>1, <3>3
         DEF Delivered, Undecided, Told, Of, Store!HasTakenEffect, Store!In
    <3>. QED BY <3>2, <3>3
  <2>3. Store!Acknowledges
    BY <1>2, <2>1, <2>2 DEF Store!Acknowledges
  <2>. QED BY <2>3 DEF Store!Next
<1>5. CASE call.kind = "commit"
  <2>1. /\ acked' = acked /\ verdict'.committed = verdict.committed \cup {call.tx}
        /\ verdict'.asked = verdict.asked /\ verdict'.rolledBack = verdict.rolledBack
        /\ verdict'.doubtful = verdict.doubtful
    BY <1>1, <1>2, <1>5 DEF StoreCall, TypeOK, Verdict
  <2>2. call.tx \in 1..MaxTx
    BY <1>1, <1>3, <1>5 DEF TxCall
  <2>3. Store!TellsCommitted(call.tx)
    BY <1>5, <2>1 DEF Store!TellsCommitted, Delivered, Of, Store!In
  <2>. QED BY <2>2, <2>3 DEF Store!Next
<1>6. CASE call.kind = "rollback"
  <2>1. /\ acked' = acked /\ verdict'.rolledBack = verdict.rolledBack \cup {call.tx}
        /\ verdict'.asked = verdict.asked /\ verdict'.committed = verdict.committed
        /\ verdict'.doubtful = verdict.doubtful
    BY <1>1, <1>2, <1>6 DEF StoreCall, TypeOK, Verdict
  <2>2. call.tx \in 1..MaxTx
    BY <1>1, <1>3, <1>6 DEF TxCall
  <2>3. Store!TellsRolledBack(call.tx)
    BY <1>6, <2>1 DEF Store!TellsRolledBack, Store!HasTakenEffect, Delivered, Of, Store!In
  <2>. QED BY <2>2, <2>3 DEF Store!Next
<1>7. CASE call.kind = "begin"
  <2>1. acked' = acked /\ verdict' = verdict
    BY <1>1, <1>2, <1>7 DEF StoreCall
  <2>. QED BY <2>1 DEF Store!storeVars, Store!told
<1>. QED BY <1>4, <1>5, <1>6, <1>7 DEF TypeOK, Call, Kind

(* A request that is sent issues its statement, or asks for a COMMIT.       *)
LEMMA SendIsStoreStep ==
  ASSUME TypeOK, TxInv, StoreInv, SendPipelineRequest
  PROVE  [Store!Next]_Store!storeVars
<1>. USE StoreTypes
<1>1. TxCall /\ Bounds /\ MaxTx \in Nat /\ call.phase = "send"
  BY ConnAssumption DEF TxInv, StoreInv, SendPipelineRequest
<1>2. PICK stmts \in IF CarriesStmt THEN {{s} : s \in Unissued} ELSE {{}} :
             /\ call' = [call EXCEPT !.phase = "wait", !.stmt = stmts,
                                     !.id = reqs + 1]
             /\ stmtTx' = [s \in Stmt |-> IF s \in stmts THEN call.tx
                                                          ELSE stmtTx[s]]
  BY DEF SendPipelineRequest
<1>3. /\ stmts \subseteq Unissued /\ call'.stmt = stmts
      /\ stmts # {} => call.kind \in {"exec", "chunk"}
  BY <1>2 DEF CarriesStmt, Call
<1>4. call.tx \in 1..MaxTx \cup {NoTx}
  BY <1>1 DEF Bounds, NoTx
<1>5. committed' = committed /\ acked' = acked
  BY DEF SendPipelineRequest, serverVars
<1>6. CASE call.kind = "commit"
  <2>1. stmtTx' = stmtTx
    BY <1>2, <1>3, <1>6
  <2>2. /\ verdict'.asked = verdict.asked \cup {call.tx}
        /\ verdict'.committed = verdict.committed
        /\ verdict'.rolledBack = verdict.rolledBack
        /\ verdict'.doubtful = verdict.doubtful
    BY <1>6 DEF SendPipelineRequest, TypeOK, Verdict
  <2>3. call.tx \in 1..MaxTx
    BY <1>1, <1>4, <1>6 DEF TxCall
  <2>4. Store!AsksForCommit
    BY <1>5, <2>1, <2>2, <2>3 DEF Store!AsksForCommit
  <2>. QED BY <2>4 DEF Store!Next
<1>7. CASE call.kind # "commit"
  <2>. DEFINE D == IF app.failed /\ call.tx = NoTx THEN stmts ELSE {}
  <2>1. /\ verdict'.asked = verdict.asked
        /\ verdict'.committed = verdict.committed
        /\ verdict'.rolledBack = verdict.rolledBack
        /\ verdict'.doubtful = verdict.doubtful \cup D
    BY <1>3, <1>7 DEF SendPipelineRequest, TypeOK, Verdict
  <2>2. D \subseteq (Store!In(NoTx)') \ acked
    BY <1>2, <1>3 DEF Store!In, Unissued, StoreInv
  <2>3. stmts \subseteq Store!In(NotIssued)
    BY <1>3 DEF Store!In, Unissued
  <2>. HIDE DEF D
  <2>4. Store!Issues
    BY <1>2, <1>4, <1>5, <2>1, <2>2, <2>3 DEF Store!Issues, Store!told
  <2>. QED BY <2>4 DEF Store!Next
<1>. QED BY <1>6, <1>7

(* What the server makes durable, the store may.                            *)
LEMMA ExecutesIsStoreStep ==
  ASSUME TypeOK, TxInv, StoreInv, NEW m \in net, NEW n, NEW s \in Stream,
         NEW o, NEW keep \in BOOLEAN,
         Execution(m, s, o, keep), Executes(m, n, s, o, keep),
         UNCHANGED <<stmtTx, acked, verdict>>
  PROVE  [Store!Next]_Store!storeVars
<1>. USE StoreTypes
<1>1. committed' = committed \cup o.durable
  BY DEF Executes
<1>2. CASE o.durable = {}
  BY <1>1, <1>2 DEF Store!storeVars, Store!told
<1>3. CASE o.durable = m.stmt /\ m.tx = NoTx
  <2>1. m.stmt \subseteq Store!In(NoTx)
    BY <1>3 DEF TxInv, TxRequest, Store!In
  <2>2. Store!TakesEffectAlone
    BY <1>1, <1>3, <2>1 DEF Store!TakesEffectAlone, Store!told
  <2>. QED BY <2>2 DEF Store!Next
<1>4. CASE m.kind = "commit" /\ o.durable = PendingOn(m, s) /\ TxOn(m, s) # NoTx
  <2>1. /\ stream[s].status = "open" /\ stream[s].tx = m.tx
        /\ o.durable = stream[s].pending /\ StoreStream(s) /\ TxStream(s)
    BY <1>4 DEF Execution, TxOn, PendingOn, StoreInv, TxInv
  <2>2. m.tx \in 1..MaxTx /\ m.tx \in verdict.asked
    BY <1>4, ConnAssumption DEF TxInv, TxRequest, StoreInv, Bounds
  <2>3. m.tx \notin verdict.rolledBack /\ ~Store!HasTakenEffect(m.tx)
    BY <2>1 DEF StoreStream, Undecided, Told, Of, Store!HasTakenEffect, Store!In
  <2>4. /\ o.durable \subseteq Store!In(m.tx) \cup Store!In(NoTx)
        /\ Store!In(m.tx) \cap acked \subseteq o.durable
    BY <2>1 DEF StoreStream, TxStream, Of, Store!In
  <2>5. Store!TakesEffect(m.tx)
    BY <1>1, <2>2, <2>3, <2>4 DEF Store!TakesEffect, Store!told
  <2>. QED BY <2>2, <2>5 DEF Store!Next
<1>. QED BY <1>2, <1>3, <1>4 DEF Execution

(* Every step of the connection is a step of the store, or changes nothing  *)
(* it shows.                                                                *)
LEMMA StoreStep ==
  ASSUME EagerClose, StepsSucceed, TypeOK, StreamInv, TxInv, StoreInv, [Next]_vars
  PROVE  [Store!Next]_Store!storeVars
<1>. USE DEF serverVars, clientVars, ghostVars
<1>0. CallInv
  BY DEF StreamInv
<1>1. ASSUME UNCHANGED <<stmtTx, committed, acked>>,
             verdict' = verdict \/ \E x : verdict' = [verdict EXCEPT !.chunked = x]
      PROVE  [Store!Next]_Store!storeVars
  BY <1>1 DEF TypeOK, Verdict, Store!storeVars, Store!told
<1>2. CASE Pool
  BY <1>1, <1>2 DEF Pool, Connect, ResetSession, EndSession, Close
<1>3. CASE Calls
  BY <1>1, <1>3 DEF Calls, ExecContext, BeginTx, ExecInChunks, Commit, Rollback,
     Begins, Starts
<1>4. CASE SendPipelineRequest
  BY <1>4, SendIsStoreStep
<1>5. ASSUME NEW c, Returns(FALSE, c), UNCHANGED <<stmtTx, committed>>
      PROVE  [Store!Next]_Store!storeVars
  BY <1>1, <1>5 DEF Returns
<1>6. CASE ErrBadConn
  BY <1>5, <1>6 DEF ErrBadConn
<1>7. CASE TransportError
  BY <1>5, <1>7 DEF TransportError
<1>8. CASE ReceiveReply
  <2>1. reply \in Reply /\ StoreReply(reply) /\ call.phase = "wait"
    BY <1>8 DEF ReceiveReply, TypeOK, StoreInv
  <2>2. CASE reply.http /\ reply.ok
    <3>1. Returns(TRUE, AfterReply(conn, reply))
      BY <1>8, <2>2 DEF ReceiveReply
    <3>. QED BY <1>0, <1>8, <2>1, <2>2, <3>1, SuccessIsStoreStep
         DEF ReceiveReply, StoreReply, CallInv
  <2>3. CASE ~(reply.http /\ reply.ok)
    <3>1. Returns(FALSE, AfterReply(conn, reply))
      BY <1>8, <2>3 DEF ReceiveReply
    <3>. QED BY <1>5, <1>8, <3>1 DEF ReceiveReply
  <2>. QED BY <2>2, <2>3
<1>9. ASSUME NEW m \in net, ServerExecutes(m) PROVE [Store!Next]_Store!storeVars
  <2>1. PICK n \in ReachedBy(m.url), s \in Stream :
          /\ Accepts(m, n, s)
          /\ \E o \in OutcomesOn(m, s) : \E keep \in MayKeep(m, o.tx) :
               Executes(m, n, s, o, keep)
    BY <1>9 DEF ServerExecutes
  <2>2. PICK o \in OutcomesOn(m, s), keep \in BOOLEAN :
          keep \in MayKeep(m, o.tx) /\ Executes(m, n, s, o, keep)
    BY <2>1, KeepType
  <2>3. Execution(m, s, o, keep)
    BY <2>1, <2>2, ExecutionFacts
  <2>4. UNCHANGED <<stmtTx, acked, verdict>>
    BY <1>9 DEF ServerExecutes
  <2>. QED BY <2>2, <2>3, <2>4, ExecutesIsStoreStep
<1>10. ASSUME NEW m \in net, ServerRefuses(m) \/ ServerFails(m)
       PROVE  [Store!Next]_Store!storeVars
  BY <1>1, <1>10 DEF ServerRefuses, ServerFails
<1>11. CASE StreamExpires
  BY <1>1, <1>11 DEF StreamExpires, Expire
<1>12. CASE UNCHANGED vars
  BY <1>1, <1>12 DEF vars
<1>. QED BY <1>2, <1>3, <1>4, <1>6, <1>7, <1>8, <1>9, <1>10, <1>11, <1>12
     DEF Next, Driver, Server, Finished

(* The connection is a transactional store: a transaction takes effect at   *)
(* once with everything acknowledged in it, or not at all and only if its   *)
(* COMMIT was asked for, and Commit, Rollback and ExecContext tell the      *)
(* truth about it (hranaV2.go:199-221, 230-331, 415-466), for any number of *)
(* sessions, transactions, requests and faults.                             *)
THEOREM StoreRefinement ==
  EagerClose /\ StepsSucceed => (Spec => ImplementsTxStore)
<1>. SUFFICES ASSUME EagerClose, StepsSucceed PROVE Spec => ImplementsTxStore
  OBVIOUS
<1>1. TypeOK /\ StreamInv /\ TxInv /\ [Next]_vars => TxInv'
  BY TxInvNext
<1>2. TypeOK /\ StreamInv /\ TxInv /\ StoreInv /\ [Next]_vars => StoreInv'
  BY StoreInvNext
<1>3. TypeOK /\ StreamInv /\ TxInv /\ StoreInv /\ [Next]_vars
        => [Store!Next]_Store!storeVars
  BY StoreStep
<1>. QED
  BY <1>1, <1>2, <1>3, StoreInit, TxInvInit, StoreInvInit, TypeCorrect,
     StreamInvariance, PTL DEF Spec, ImplementsTxStore, Store!Spec

-----------------------------------------------------------------------------
(* What the store promises, and hence the connection.                       *)
Truth ==
  /\ AcksAreTruthful
  /\ CommitIsAtomic
  /\ verdict.doubtful \subseteq Of(NoTx)

(* No step of the store breaks the promise.                                 *)
LEMMA TruthStep ==
  ASSUME TypeOK, StoreInv, Truth, [Store!Next]_Store!storeVars
  PROVE  Truth'
<1>. USE StoreTypes DEF Store!told
<1>1. /\ \A s \in acked \cup committed : stmtTx[s] # NotIssued
      /\ NoTx \notin 1..MaxTx /\ NotIssued \notin 1..MaxTx \cup {NoTx}
  BY ConnAssumption DEF StoreInv, NoTx
<1>2. ASSUME stmtTx' = stmtTx, verdict'.doubtful = verdict.doubtful,
             AcksAreTruthful', CommitIsAtomic'
      PROVE  Truth'
  BY <1>2 DEF Truth, Of
<1>3. CASE Store!Issues
  <2>1. PICK S \in SUBSET Store!In(NotIssued), tx \in 1..MaxTx \cup {NoTx} :
          stmtTx' = [s \in Stmt |-> IF s \in S THEN tx ELSE stmtTx[s]]
    BY <1>3 DEF Store!Issues
  <2>2. \A s \in Stmt : s \in S => stmtTx[s] = NotIssued
    BY <2>1 DEF Store!In
  <2>3. \A s \in acked \cup committed : stmtTx'[s] = stmtTx[s]
    BY <1>1, <2>1, <2>2
  <2>4. PICK D \in SUBSET ((Store!In(NoTx)') \ acked) :
          verdict'.doubtful = verdict.doubtful \cup D
    BY <1>3 DEF Store!Issues
  <2>5. UNCHANGED <<committed, acked, verdict.asked, verdict.committed, verdict.rolledBack>>
    BY <1>3 DEF Store!Issues
  <2>6. AcksAreTruthful' /\ CommitIsAtomic'
    BY <2>3, <2>4, <2>5 DEF Truth, AcksAreTruthful, CommitIsAtomic
  <2>7. verdict'.doubtful \subseteq Of(NoTx)'
    BY <1>1, <2>1, <2>2, <2>4 DEF Truth, Of, Store!In
  <2>. QED BY <2>6, <2>7 DEF Truth
<1>4. CASE Store!AsksForCommit
  BY <1>2, <1>4 DEF Store!AsksForCommit, Truth, AcksAreTruthful, CommitIsAtomic
<1>5. ASSUME NEW tx \in 1..MaxTx, Store!TakesEffect(tx) PROVE Truth'
  <2>1. PICK S \in SUBSET (Store!In(tx) \cup Store!In(NoTx)) :
          Store!In(tx) \cap acked \subseteq S /\ committed' = committed \cup S
    BY <1>5 DEF Store!TakesEffect
  <2>. /\ UNCHANGED <<stmtTx, acked, verdict.asked, verdict.committed,
                      verdict.rolledBack, verdict.doubtful>>
       /\ tx \notin verdict.rolledBack
    BY <1>5 DEF Store!TakesEffect
  <2>2. NoTx \notin verdict.rolledBack
    BY DEF StoreInv, Bounds, Told, NoTx
  <2>3. AcksAreTruthful'
    BY <2>1, <2>2 DEF Truth, AcksAreTruthful, Store!In
  <2>4. CommitIsAtomic'
    BY <2>1 DEF Truth, CommitIsAtomic, Store!In
  <2>. QED BY <1>2, <2>3, <2>4
<1>6. CASE Store!TakesEffectAlone
  <2>1. PICK S \in SUBSET Store!In(NoTx) : committed' = committed \cup S
    BY <1>6 DEF Store!TakesEffectAlone
  <2>. UNCHANGED <<stmtTx, acked, verdict.asked, verdict.committed,
                   verdict.rolledBack, verdict.doubtful>>
    BY <1>6 DEF Store!TakesEffectAlone
  <2>2. NoTx \notin verdict.rolledBack
    BY DEF StoreInv, Bounds, Told, NoTx
  <2>3. AcksAreTruthful'
    BY <2>1, <2>2 DEF Truth, AcksAreTruthful, Store!In
  <2>4. CommitIsAtomic'
    BY <2>1 DEF Truth, CommitIsAtomic, Store!In
  <2>. QED BY <1>2, <2>3, <2>4
<1>7. CASE Store!Acknowledges
  <2>1. PICK S \in SUBSET Stmt :
          /\ acked' = acked \cup S
          /\ \A s \in S :
               \/ s \in committed \cup verdict.doubtful
               \/ /\ stmtTx[s] \in 1..MaxTx \ verdict.committed
                  /\ ~Store!HasTakenEffect(stmtTx[s])
    BY <1>7 DEF Store!Acknowledges
  <2>. UNCHANGED <<stmtTx, committed, verdict.asked, verdict.committed,
                   verdict.rolledBack, verdict.doubtful>>
    BY <1>7 DEF Store!Acknowledges
  <2>2. AcksAreTruthful'
    BY <1>1, <2>1 DEF Truth, AcksAreTruthful
  <2>3. CommitIsAtomic'
    BY <1>1, <2>1 DEF Truth, CommitIsAtomic, Of, Store!HasTakenEffect, Store!In
  <2>. QED BY <1>2, <2>2, <2>3
<1>8. ASSUME NEW tx \in 1..MaxTx, Store!TellsCommitted(tx) PROVE Truth'
  <2>. /\ UNCHANGED <<stmtTx, committed, acked, verdict.asked,
                      verdict.rolledBack, verdict.doubtful>>
       /\ verdict'.committed = verdict.committed \cup {tx}
       /\ Store!In(tx) \cap acked \subseteq committed
    BY <1>8 DEF Store!TellsCommitted
  <2>. QED BY <1>2 DEF Truth, AcksAreTruthful, CommitIsAtomic, Store!In
<1>9. ASSUME NEW tx \in 1..MaxTx, Store!TellsRolledBack(tx) PROVE Truth'
  <2>. /\ UNCHANGED <<stmtTx, committed, acked, verdict.asked,
                      verdict.committed, verdict.doubtful>>
       /\ verdict'.rolledBack = verdict.rolledBack \cup {tx}
       /\ ~Store!HasTakenEffect(tx)
    BY <1>9 DEF Store!TellsRolledBack
  <2>. QED BY <1>2 DEF Truth, AcksAreTruthful, CommitIsAtomic,
                       Store!HasTakenEffect, Store!In
<1>10. CASE UNCHANGED Store!storeVars
  BY <1>2, <1>10 DEF Store!storeVars, Truth, AcksAreTruthful, CommitIsAtomic
<1>. QED BY <1>3, <1>4, <1>5, <1>6, <1>7, <1>8, <1>9, <1>10 DEF Store!Next

(* Truth holds as long as StoreInv does.                                    *)
LEMMA TruthInvariance == EagerClose /\ StepsSucceed => (Spec => []Truth)
<1>. SUFFICES ASSUME EagerClose, StepsSucceed PROVE Spec => []Truth
  OBVIOUS
<1>1. Init => Truth
  BY DEF Init, ServerInit, Truth, AcksAreTruthful, CommitIsAtomic, Of
<1>2. TypeOK /\ StreamInv /\ TxInv /\ [Next]_vars => TxInv'
  BY TxInvNext
<1>3. TypeOK /\ StreamInv /\ TxInv /\ StoreInv /\ [Next]_vars => StoreInv'
  BY StoreInvNext
<1>4. TypeOK /\ StreamInv /\ TxInv /\ StoreInv /\ Truth /\ [Next]_vars => Truth'
  BY StoreStep, TruthStep
<1>. QED
  BY <1>1, <1>2, <1>3, <1>4, TxInvInit, StoreInvInit, TypeCorrect,
     StreamInvariance, PTL DEF Spec

(* What ExecContext, Commit and Rollback report is so: an acknowledged       *)
(* statement is durable, or its transaction is not committed, and nothing   *)
(* of a transaction that was rolled back is.                                *)
THEOREM TruthfulAcks ==
  EagerClose /\ StepsSucceed => (Spec => []AcksAreTruthful)
<1>1. Truth => AcksAreTruthful
  BY DEF Truth
<1>. QED BY <1>1, TruthInvariance, PTL

(* Whatever happens to the answer to a COMMIT, everything acknowledged in   *)
(* its transaction is durable or nothing is.                                *)
THEOREM AtomicCommit ==
  EagerClose /\ StepsSucceed => (Spec => []CommitIsAtomic)
<1>1. Truth => CommitIsAtomic
  BY DEF Truth
<1>. QED BY <1>1, TruthInvariance, PTL

-----------------------------------------------------------------------------
(***************************************************************************)
(* The chunks of a long text.  ChunkInv counts the statements issued in the *)
(* transaction of an executeInChunks call: with those still to come they    *)
(* are Chunks, all but the one under way are acknowledged, and its COMMIT   *)
(* is sent when none is left.  No other call has such a transaction.        *)
(***************************************************************************)
ToIssue ==
  IF call.kind = "chunk" /\ call.phase = "send" THEN call.left + 1 ELSE call.left

Lacks(tx, n) == IsFiniteSet(Of(tx)) /\ Cardinality(Of(tx)) + n = Chunks

ChunksCall ==
  call.phase # "idle" /\ call.chunked =>
    /\ call.tx \in verdict.chunked
    /\ Lacks(call.tx, ToIssue)
    /\ Of(call.tx) \subseteq acked \cup call.stmt
    /\ call.phase = "send" => call.stmt = {}
    /\ call.kind = "commit" => call.left = 0
    /\ call.tx \in verdict.asked => call.kind = "commit"

ChunksTx(tx) ==
  /\ tx \in 1..txs /\ tx # app.tx
  /\ call.phase # "idle" /\ ~call.chunked => call.tx # tx
  /\ tx \in verdict.asked => Of(tx) \subseteq acked /\ Lacks(tx, 0)

ChunkInv == ChunksCall /\ \A tx \in verdict.chunked : ChunksTx(tx)

(* ChunkInv holds when the connection is made.                              *)
LEMMA ChunkInvInit == Init => ChunkInv
  BY DEF Init, ChunkInv, ChunksCall, NoCall

(* Whatever leaves the statements and the verdict alone, and does not go on *)
(* with a call, keeps it.                                                   *)
LEMMA ClientKeepsChunks ==
  ASSUME TypeOK, ChunkInv, UNCHANGED <<stmtTx, txs>>,
         verdict'.chunked = verdict.chunked, verdict'.asked = verdict.asked,
         acked \subseteq acked',
         \/ call' = call
         \/ call'.phase = "idle"
         \/ call'.phase = "send" /\ ~call'.chunked /\ call'.tx \notin verdict.chunked,
         app'.tx \notin verdict.chunked
  PROVE  ChunkInv'
<1>1. \A t : Of(t)' = Of(t)
  BY DEF Of
<1>2. \A t, n : Lacks(t, n) => Lacks(t, n)'
  BY <1>1 DEF Lacks
<1>3. \A tx \in verdict'.chunked : ChunksTx(tx)'
  BY <1>1, <1>2 DEF ChunkInv, ChunksTx
<1>4. ChunksCall'
  <2>1. CASE call' = call
    <3>1. ToIssue' = ToIssue
      BY <2>1 DEF ToIssue
    <3>. QED BY <1>1, <1>2, <2>1, <3>1 DEF ChunkInv, ChunksCall
  <2>. QED BY <2>1 DEF ChunksCall
<1>. QED BY <1>3, <1>4 DEF ChunkInv

(* The request of a call has ended.                                         *)
LEMMA ReturnsKeepsChunks ==
  ASSUME TypeOK, TxInv, StoreInv, ChunkInv, NEW ok \in BOOLEAN, NEW c,
         call.phase # "idle", ok => call.phase = "wait", Returns(ok, c),
         UNCHANGED <<stmtTx, txs>>
  PROVE  ChunkInv'
<1>. USE StoreTypes
<1>1. verdict'.chunked = verdict.chunked /\ verdict'.asked = verdict.asked
  BY DEF TypeOK, Returns, Succeeds, Verdict
<1>2. acked \subseteq acked'
  BY DEF Returns, Succeeds
<1>3. app'.tx \notin verdict.chunked
  <2>1. app.tx \notin verdict.chunked /\ NoTx \notin verdict.chunked
    BY DEF ChunkInv, ChunksTx, NoTx
  <2>2. ~call.chunked => call.tx \notin verdict.chunked
    BY DEF ChunkInv, ChunksTx
  <2>3. app'.tx \in {app.tx, NoTx} \cup (IF call.chunked THEN {} ELSE {call.tx})
    BY SessionType DEF Returns, Succeeds, App
  <2>. QED BY <2>1, <2>2, <2>3
<1>4. CASE ~(ok /\ HasNext)
  <2>1. call' = NoCall
    BY <1>4 DEF Returns
  <2>. QED BY <1>1, <1>2, <1>3, <2>1, ClientKeepsChunks DEF NoCall
<1>5. CASE ok /\ HasNext
  <2>1. /\ call' = NextRequest /\ call.chunked /\ call.kind # "commit"
        /\ acked' = acked \cup call.stmt
    BY <1>5 DEF Returns, Succeeds, HasNext
  <2>2. /\ call'.tx = call.tx /\ call'.phase = "send" /\ call'.chunked
        /\ call'.stmt = {} /\ call.left \in Nat
        /\ call'.kind = IF call.left > 0 THEN "chunk" ELSE "commit"
        /\ call'.left = IF call.left > 0 THEN call.left - 1 ELSE 0
    BY <2>1 DEF NextRequest, Call
  <2>3. /\ call.phase = "wait" /\ ChunksCall /\ ToIssue = call.left
        /\ Of(call.tx)' = Of(call.tx) /\ ToIssue' = call.left
    BY <1>5, <2>2 DEF ChunkInv, ToIssue, Of
  <2>4. ChunksCall'
    BY <1>1, <2>1, <2>2, <2>3 DEF ChunksCall, Lacks
  <2>5. ASSUME NEW tx \in verdict'.chunked PROVE ChunksTx(tx)'
    <3>1. ChunksTx(tx) /\ Of(tx)' = Of(tx)
      BY <1>1 DEF ChunkInv, Of
    <3>. QED BY <1>1, <1>2, <1>3, <2>2, <3>1 DEF ChunksTx, Lacks
  <2>. QED BY <2>4, <2>5 DEF ChunkInv
<1>. QED BY <1>4, <1>5

(* A statement is sent, for the transaction of the call.                    *)
LEMMA SendKeepsChunks ==
  ASSUME TypeOK, StreamInv, TxInv, StoreInv, ChunkInv, SendPipelineRequest
  PROVE  ChunkInv'
<1>. USE StoreTypes
<1>1. PICK stmts \in IF CarriesStmt THEN {{s} : s \in Unissued} ELSE {{}} :
             /\ call' = [call EXCEPT !.phase = "wait", !.stmt = stmts,
                                     !.id = reqs + 1]
             /\ stmtTx' = [s \in Stmt |-> IF s \in stmts THEN call.tx
                                                          ELSE stmtTx[s]]
  BY DEF SendPipelineRequest
<1>2. /\ call'.phase = "wait" /\ call'.kind = call.kind /\ call'.tx = call.tx
      /\ call'.chunked = call.chunked /\ call'.left = call.left
      /\ call'.stmt = stmts /\ call.phase = "send"
      /\ UNCHANGED <<app, txs, acked>>
      /\ verdict'.chunked = verdict.chunked
      /\ verdict'.asked = IF call.kind = "commit" THEN verdict.asked \cup {call.tx}
                                                  ELSE verdict.asked
  <2>1. verdict \in Verdict
    BY DEF TypeOK
  <2>. QED BY <1>1, <2>1 DEF SendPipelineRequest, Call, Verdict
<1>3. stmts \subseteq Unissued /\ (stmts # {} => CarriesStmt)
  BY <1>1
<1>4. ASSUME NEW t \in Nat
      PROVE  Of(t)' = IF t = call.tx THEN Of(t) \cup stmts ELSE Of(t)
  BY <1>1, <1>3, ConnAssumption DEF Of, Unissued
<1>5. ASSUME NEW tx \in verdict.chunked PROVE ChunksTx(tx)'
  <2>1. ChunksTx(tx) /\ tx \in Nat
    BY DEF ChunkInv, ChunksTx
  <2>2. CASE tx # call.tx
    BY <1>2, <1>4, <2>1, <2>2 DEF ChunksTx, Lacks
  <2>3. CASE tx = call.tx
    <3>1. call.chunked /\ ChunksCall
      BY <1>2, <2>1, <2>3 DEF ChunkInv, ChunksTx
    <3>2. CASE call.kind = "commit"
      <4>1. stmts = {} /\ Of(tx)' = Of(tx)
        BY <1>3, <1>4, <2>1, <2>3, <3>2 DEF CarriesStmt
      <4>2. Of(tx) \subseteq acked /\ Lacks(tx, 0)
        BY <1>2, <2>3, <3>1, <3>2 DEF ChunksCall, ToIssue
      <4>. QED BY <1>2, <2>1, <3>1, <4>1, <4>2 DEF ChunksTx, Lacks
    <3>3. CASE call.kind # "commit"
      BY <1>2, <2>1, <2>3, <3>1, <3>3 DEF ChunksTx, ChunksCall
    <3>. QED BY <3>2, <3>3
  <2>. QED BY <2>2, <2>3
<1>6. ASSUME call.chunked PROVE ChunksCall'
  <2>1. ChunksCall /\ Of(call.tx)' = Of(call.tx) \cup stmts
    <3>1. PICK t \in Nat : t = call.tx
      OBVIOUS
    <3>. QED BY <1>2, <1>4, <3>1 DEF ChunkInv, Of
  <2>2. Lacks(call.tx, ToIssue)'
    <3>1. Lacks(call.tx, ToIssue)
      BY <1>2, <1>6, <2>1 DEF ChunksCall
    <3>2. CASE call.kind = "chunk"
      <4>1. PICK s \in Unissued : stmts = {s}
        BY <1>1, <3>2 DEF CarriesStmt
      <4>2. s \notin Of(call.tx)
        BY <4>1, ConnAssumption DEF Of, Unissued
      <4>3. /\ IsFiniteSet(Of(call.tx)')
            /\ Cardinality(Of(call.tx)') = Cardinality(Of(call.tx)) + 1
        BY <2>1, <3>1, <4>1, <4>2, FS_AddElement DEF Lacks
      <4>4. ToIssue = call.left + 1 /\ ToIssue' = call.left /\ call.left \in Nat
        BY <1>2, <3>2 DEF ToIssue, Call
      <4>5. Cardinality(Of(call.tx)) \in Nat
        BY <3>1, FS_CardinalityType DEF Lacks
      <4>. QED BY <1>2, <3>1, <4>3, <4>4, <4>5 DEF Lacks
    <3>3. CASE call.kind # "chunk"
      <4>1. call.kind \in {"begin", "commit"}
        BY <1>2, <1>6, <3>3 DEF TxInv, TxCall
      <4>2. stmts = {} /\ ToIssue' = ToIssue
        BY <1>1, <1>2, <4>1 DEF CarriesStmt, ToIssue
      <4>. QED BY <1>2, <2>1, <3>1, <4>2 DEF Lacks
    <3>. QED BY <3>2, <3>3
  <2>3. Of(call.tx)' \subseteq acked' \cup call'.stmt
    BY <1>2, <1>6, <2>1 DEF ChunksCall
  <2>. QED BY <1>2, <1>6, <2>1, <2>2, <2>3 DEF ChunksCall
<1>7. ~call.chunked => ChunksCall'
  BY <1>2 DEF ChunksCall
<1>. QED BY <1>2, <1>5, <1>6, <1>7 DEF ChunkInv

(* Every action of HranaConn preserves ChunkInv.                            *)
LEMMA ChunkInvNext ==
  ASSUME TypeOK, StreamInv, TxInv, StoreInv, ChunkInv, [Next]_vars
  PROVE  ChunkInv'
<1>. USE StoreTypes DEF serverVars, clientVars, ghostVars
<1>0. CallInv /\ app.tx \notin verdict.chunked /\ NoTx \notin verdict.chunked
  BY DEF StreamInv, ChunkInv, ChunksTx, NoTx
<1>1. CASE Connect \/ ResetSession \/ EndSession \/ Close
  <2>1. app'.tx \in {NoTx, app.tx}
    BY <1>1, SessionType DEF Connect, ResetSession, EndSession, Close, App
  <2>2. UNCHANGED <<stmtTx, txs, verdict, acked, call>>
    BY <1>1 DEF Connect, ResetSession, EndSession, Close
  <2>. QED BY <1>0, <2>1, <2>2, ClientKeepsChunks
<1>2. ASSUME NEW kind, NEW tx, Starts(kind, FALSE, tx), tx \notin verdict.chunked,
             verdict' = verdict, txs' = txs
      PROVE  ChunkInv'
  <2>1. /\ call'.phase = "send" /\ ~call'.chunked /\ call'.tx = tx
        /\ UNCHANGED <<stmtTx, acked, app>>
    BY <1>2 DEF Starts, NoCall
  <2>. QED BY <1>0, <1>2, <2>1, ClientKeepsChunks
<1>3. CASE ExecContext \/ Commit \/ Rollback
  BY <1>0, <1>2, <1>3 DEF ExecContext, Commit, Rollback
<1>4. PICK new \in Nat :
        /\ new = txs + 1 /\ new \notin verdict.chunked /\ new \notin verdict.asked
        /\ Of(new) = {} /\ app.tx # new /\ new \in 1..new
  <2>1. \A t \in verdict.chunked : t \in 1..txs
    BY DEF ChunkInv, ChunksTx
  <2>. QED BY <2>1, ConnAssumption DEF StoreInv, Bounds, Of
<1>5. CASE BeginTx \/ ExecInChunks
  <2>1. PICK chunked \in BOOLEAN :
          /\ Begins(chunked)
          /\ verdict'.asked = verdict.asked
          /\ verdict'.chunked = verdict.chunked \cup (IF chunked THEN {new} ELSE {})
    <3>1. verdict \in Verdict
      BY DEF TypeOK
    <3>2. CASE BeginTx
      BY <1>4, <3>2 DEF BeginTx
    <3>3. CASE ExecInChunks
      BY <1>4, <3>1, <3>3 DEF ExecInChunks, Verdict
    <3>. QED BY <1>5, <3>2, <3>3
  <2>2. /\ call'.phase = "send" /\ call'.kind = "begin" /\ call'.tx = new
        /\ call'.chunked = chunked /\ call'.stmt = {}
        /\ call'.left = IF chunked THEN Chunks ELSE 0
        /\ UNCHANGED <<stmtTx, acked, app>> /\ txs' = new
        /\ call.phase = "idle"
    BY <1>4, <2>1 DEF Begins, Starts, NoCall
  <2>3. \A t : Of(t)' = Of(t)
    BY <2>2 DEF Of
  <2>4. Lacks(new, Chunks)'
    <3>1. Of(new)' = {}
      BY <1>4, <2>3
    <3>. QED BY <3>1, FS_EmptySet, ConnAssumption DEF Lacks
  <2>5. ASSUME NEW tx \in verdict.chunked PROVE ChunksTx(tx)'
    BY <1>4, <2>1, <2>2, <2>3 DEF ChunkInv, ChunksTx, Lacks
  <2>6. ASSUME chunked PROVE ChunksTx(new)'
    BY <1>4, <2>1, <2>2, <2>6 DEF ChunksTx
  <2>7. ASSUME chunked PROVE ChunksCall'
    <3>1. ToIssue' = Chunks
      BY <2>2, <2>7 DEF ToIssue
    <3>2. Lacks(call.tx, ToIssue)'
      BY <2>2, <2>4, <3>1 DEF Lacks
    <3>. QED BY <1>4, <2>1, <2>2, <2>3, <2>7, <3>2 DEF ChunksCall
  <2>8. ~chunked => ChunksCall'
    BY <2>2 DEF ChunksCall
  <2>9. \A tx \in verdict'.chunked : ChunksTx(tx)'
    BY <2>1, <2>5, <2>6
  <2>. QED BY <2>7, <2>8, <2>9 DEF ChunkInv
<1>6. CASE SendPipelineRequest
  BY <1>6, SendKeepsChunks
<1>7. CASE ErrBadConn
  BY <1>7, ReturnsKeepsChunks DEF ErrBadConn
<1>8. CASE ReceiveReply
  <2>1. reply \in Reply
    BY <1>8 DEF ReceiveReply, TypeOK
  <2>2. (reply.http /\ reply.ok) \in BOOLEAN
    BY <2>1 DEF Reply
  <2>. QED BY <1>8, <2>2, ReturnsKeepsChunks DEF ReceiveReply
<1>9. CASE TransportError
  BY <1>9, ReturnsKeepsChunks DEF TransportError
<1>10. CASE Server \/ UNCHANGED vars
  <2>1. UNCHANGED <<stmtTx, txs, verdict, acked, call, app>>
    BY <1>10 DEF Server, ServerExecutes, ServerRefuses, ServerFails, StreamExpires, vars
  <2>. QED BY <1>0, <2>1, ClientKeepsChunks
<1>. QED BY <1>1, <1>3, <1>5, <1>6, <1>7, <1>8, <1>9, <1>10
     DEF Next, Pool, Calls, Driver, Finished

(* A text of many chunks is durable as a whole or not at all, if the steps  *)
(* of a chunk succeed or fail with it: executeInChunks asks for the COMMIT  *)
(* once every chunk was acknowledged, and gives its stream up otherwise     *)
(* (hranaV2.go:415-466).                                                    *)
THEOREM AtomicChunks ==
  EagerClose /\ StepsSucceed => (Spec => []ChunkedExecIsAtomic)
<1>. SUFFICES ASSUME EagerClose, StepsSucceed PROVE Spec => []ChunkedExecIsAtomic
  OBVIOUS
<1>1. TypeOK /\ StreamInv /\ TxInv /\ [Next]_vars => TxInv'
  BY TxInvNext
<1>2. TypeOK /\ StreamInv /\ TxInv /\ StoreInv /\ [Next]_vars => StoreInv'
  BY StoreInvNext
<1>3. TypeOK /\ StreamInv /\ TxInv /\ StoreInv /\ ChunkInv /\ [Next]_vars => ChunkInv'
  BY ChunkInvNext
<1>4. TypeOK /\ TxInv /\ ChunkInv /\ Truth => ChunkedExecIsAtomic
  <2> SUFFICES ASSUME TypeOK, TxInv, ChunkInv, Truth, NEW tx \in verdict.chunked,
                      NEW s \in committed, stmtTx[s] = tx
               PROVE  Cardinality({u \in committed : stmtTx[u] = tx}) = Chunks
    BY DEF ChunkedExecIsAtomic
  <2>1. ChunksTx(tx) /\ tx # NoTx /\ committed \subseteq Stmt
    BY DEF ChunkInv, ChunksTx, NoTx, TypeOK, ServerTypeOK
  <2>2. tx \in verdict.asked
    BY <2>1 DEF TxInv, TxEffectsNeedCommit
  <2>3. Of(tx) \subseteq acked /\ Lacks(tx, 0)
    BY <2>1, <2>2 DEF ChunksTx
  <2>4. Of(tx) \subseteq committed
    BY <2>1, <2>3 DEF Truth, CommitIsAtomic, Of
  <2>5. {u \in committed : stmtTx[u] = tx} = Of(tx)
    BY <2>1, <2>4 DEF Of
  <2>6. Cardinality(Of(tx)) \in Nat
    BY <2>3, FS_CardinalityType DEF Lacks
  <2>. QED BY <2>3, <2>5, <2>6 DEF Lacks
<1>. QED
  BY <1>1, <1>2, <1>3, <1>4, TxInvInit, StoreInvInit, ChunkInvInit, TypeCorrect,
     StreamInvariance, TruthInvariance, PTL DEF Spec

-----------------------------------------------------------------------------
(***************************************************************************)
(* Streams the client loses track of.  Each one is the work of a fault, but *)
(* not always at once: a call that gives up leaves a request behind which   *)
(* may start or move on a stream long after.  OrphanInv counts these        *)
(* requests with the streams already lost.  For any server, whether or not  *)
(* it closes idle streams.                                                  *)
(***************************************************************************)
Doomed == {m \in net : m.kind # "close" /\ ~Awaited(m)}

LeaksPaid ==
  /\ IsFiniteSet(Orphans) /\ IsFiniteSet(Doomed)
  /\ Cardinality(Orphans) + Cardinality(Doomed) <= faults

(* At most one request is awaited, it carries the baton of the connection,  *)
(* and its answer makes that baton an old one.                              *)
AwaitedInv ==
  /\ \A m \in net : Awaited(m) =>
       /\ reply = NoReply /\ m.baton = conn.baton
       /\ \A q \in net : Awaited(q) => q = m
  /\ reply # NoReply =>
       IF reply.http THEN Spent(conn.baton) ELSE reply.baton = NoBaton

OrphanInv == LeaksPaid /\ AwaitedInv

(* A set with at most one new element.                                      *)
LEMMA OneMore ==
  ASSUME NEW A, NEW B, NEW x, IsFiniteSet(A), B \subseteq A \cup {x}
  PROVE  /\ IsFiniteSet(B) /\ Cardinality(A) \in Nat /\ Cardinality(B) \in Nat
         /\ Cardinality(B) <= Cardinality(A) + 1
<1>1. /\ IsFiniteSet(A \cup {x}) /\ Cardinality(A) \in Nat
      /\ Cardinality(A \cup {x}) \in {Cardinality(A), Cardinality(A) + 1}
  BY FS_AddElement, FS_CardinalityType
<1>2. IsFiniteSet(B) /\ Cardinality(B) <= Cardinality(A \cup {x})
  BY <1>1, FS_Subset
<1>. QED BY <1>1, <1>2, FS_CardinalityType

(* A set that is no larger, or has lost an element.                         *)
LEMMA NoMore ==
  ASSUME NEW A, NEW B, IsFiniteSet(A), B \subseteq A
  PROVE  /\ IsFiniteSet(B) /\ Cardinality(A) \in Nat /\ Cardinality(B) \in Nat
         /\ Cardinality(B) <= Cardinality(A)
         /\ \A x \in A : B \subseteq A \ {x} => Cardinality(B) <= Cardinality(A) - 1
<1>1. /\ IsFiniteSet(B) /\ Cardinality(A) \in Nat /\ Cardinality(B) \in Nat
      /\ Cardinality(B) <= Cardinality(A)
  BY FS_Subset, FS_CardinalityType
<1>2. ASSUME NEW x \in A, B \subseteq A \ {x}
      PROVE  Cardinality(B) <= Cardinality(A) - 1
  <2>1. IsFiniteSet(A \ {x}) /\ Cardinality(A \ {x}) = Cardinality(A) - 1
    BY FS_RemoveElement
  <2>. QED BY <1>2, <2>1, FS_Subset
<1>. QED BY <1>1, <1>2

(* What a step may do to the two: nothing worse than nothing, one more of   *)
(* either for a fault, or a stream lost to a request that was left behind.  *)
LEMMA LeaksStayPaid ==
  ASSUME TypeOK, LeaksPaid, faults' \in Nat, faults' >= faults,
         \/ Orphans' \subseteq Orphans /\ Doomed' \subseteq Doomed
         \/ /\ faults' = faults + 1 /\ Doomed' \subseteq Doomed
            /\ \E s : Orphans' \subseteq Orphans \cup {s}
         \/ /\ faults' = faults + 1 /\ Orphans' \subseteq Orphans
            /\ \E m : Doomed' \subseteq Doomed \cup {m}
         \/ /\ \E s : Orphans' \subseteq Orphans \cup {s}
            /\ \E m \in Doomed : Doomed' \subseteq Doomed \ {m}
  PROVE  LeaksPaid'
<1>0. faults \in Nat /\ Cardinality(Orphans) \in Nat /\ Cardinality(Doomed) \in Nat
  BY FS_CardinalityType DEF TypeOK, LeaksPaid
<1>1. CASE Orphans' \subseteq Orphans /\ Doomed' \subseteq Doomed
  BY <1>0, <1>1, NoMore DEF LeaksPaid
<1>2. ASSUME faults' = faults + 1, Doomed' \subseteq Doomed,
             NEW s, Orphans' \subseteq Orphans \cup {s}
      PROVE  LeaksPaid'
  <2>1. IsFiniteSet(Doomed') /\ Cardinality(Doomed') \in Nat
        /\ Cardinality(Doomed') <= Cardinality(Doomed)
    BY <1>2, NoMore DEF LeaksPaid
  <2>2. /\ IsFiniteSet(Orphans') /\ Cardinality(Orphans') \in Nat
        /\ Cardinality(Orphans') <= Cardinality(Orphans) + 1
    BY <1>2, OneMore DEF LeaksPaid
  <2>. QED BY <1>0, <1>2, <2>1, <2>2 DEF LeaksPaid, TypeOK
<1>3. ASSUME faults' = faults + 1, Orphans' \subseteq Orphans,
             NEW m, Doomed' \subseteq Doomed \cup {m}
      PROVE  LeaksPaid'
  <2>1. IsFiniteSet(Orphans') /\ Cardinality(Orphans') \in Nat
        /\ Cardinality(Orphans') <= Cardinality(Orphans)
    BY <1>3, NoMore DEF LeaksPaid
  <2>2. /\ IsFiniteSet(Doomed') /\ Cardinality(Doomed') \in Nat
        /\ Cardinality(Doomed') <= Cardinality(Doomed) + 1
    BY <1>3, OneMore DEF LeaksPaid
  <2>. QED BY <1>0, <1>3, <2>1, <2>2 DEF LeaksPaid, TypeOK
<1>4. ASSUME NEW s, Orphans' \subseteq Orphans \cup {s},
             NEW m \in Doomed, Doomed' \subseteq Doomed \ {m}
      PROVE  LeaksPaid'
  <2>1. /\ IsFiniteSet(Doomed') /\ Cardinality(Doomed') \in Nat
        /\ Cardinality(Doomed') <= Cardinality(Doomed) - 1
    BY <1>4, NoMore DEF LeaksPaid
  <2>2. /\ IsFiniteSet(Orphans') /\ Cardinality(Orphans') \in Nat
        /\ Cardinality(Orphans') <= Cardinality(Orphans) + 1
    BY <1>4, OneMore DEF LeaksPaid
  <2>. QED BY <1>0, <2>1, <2>2 DEF LeaksPaid
<1>. QED BY <1>1, <1>2, <1>3, <1>4

(* OrphanInv holds when the connection is made.                             *)
LEMMA OrphanInvInit == Init => OrphanInv
<1>. SUFFICES ASSUME Init PROVE OrphanInv
  OBVIOUS
<1>1. Orphans = {} /\ Doomed = {}
  BY DEF Init, ServerInit, Orphans, Doomed
<1>2. LeaksPaid
  BY <1>1, FS_EmptySet DEF LeaksPaid, Init
<1>. QED BY <1>2 DEF OrphanInv, AwaitedInv, Init

(* Current batons are batons.                                               *)
LEMMA CurrentBaton ==
  ASSUME TypeOK, NEW s \in Stream
  PROVE  <<s, stream[s].gen>> # NoBaton /\ <<s, stream[s].gen>> \in Baton
  BY ServerAssumption, StoreTypes DEF Baton

(* The current baton of stream s is that of the connection, or of a request. *)
Kept(b, s) ==
  b = <<s, stream[s].gen>> \/ \E m \in net : m.baton = <<s, stream[s].gen>>

(* The baton the client has when a call returns, or when it closes the      *)
(* connection, goes on being known: to the connection or to a close         *)
(* request.                                                                 *)
LEMMA ClientKeepsKnown ==
  ASSUME TypeOK, StreamInv, NEW c, stream' = stream, reply' = NoReply,
         call'.phase # "wait",
         \/ net' = net /\ conn' = c /\ app'.state # "none"
         \/ SendsClose(c)
  PROVE  /\ \A s \in Stream : Kept(c.baton, s) => Known(s)'
         /\ Doomed' \subseteq Doomed \cup {m \in net : Awaited(m)}
         /\ AwaitedInv'
<1>1. ASSUME NEW s \in Stream, Kept(c.baton, s)
      PROVE  Known(s)'
  <2>1. CASE \E m \in net : m.baton = <<s, stream[s].gen>>
    BY <2>1 DEF SendsClose, Known
  <2>2. CASE c.baton = <<s, stream[s].gen>> /\ SendsClose(c)
    <3>1. c.baton # NoBaton
      BY <2>2, CurrentBaton
    <3>2. PICK m : CloseRequests(c) = {m} /\ m.baton = c.baton
      <4>. DEFINE m == [id |-> reqs + 1, baton |-> c.baton, url |-> c.url,
                        kind |-> "close", stmt |-> {}, tx |-> NoTx, sess |-> app.sess]
      <4>1. CloseRequests(c) = {m}
        BY <3>1, Zenon DEF CloseRequests
      <4>2. m.baton = c.baton
        OBVIOUS
      <4>. QED BY <4>1, <4>2
    <3>3. \E q \in net' : q.baton = c.baton
      BY <2>2, <3>2 DEF SendsClose
    <3>. QED BY <2>2, <3>3 DEF Known
  <2>3. CASE c.baton = <<s, stream[s].gen>> /\ conn' = c /\ app'.state # "none"
    BY <2>3 DEF Known
  <2>. QED BY <1>1, <2>1, <2>2, <2>3 DEF Kept
<1>2. Doomed' \subseteq Doomed \cup {m \in net : Awaited(m)}
  BY DEF Doomed, SendsClose, CloseRequests
<1>3. AwaitedInv'
  BY DEF AwaitedInv, Awaited
<1>. QED BY <1>1, <1>2, <1>3

(* A step of the client between its calls, or at the start of one.          *)
LEMMA IdleKeepsOrphans ==
  ASSUME TypeOK, StreamInv, OrphanInv, call.phase = "idle", call'.phase # "wait",
         stream' = stream, reply' = reply, faults' = faults,
         \/ net' = net /\ conn' = conn /\ (app.state # "none" => app'.state # "none")
         \/ net' = net /\ app.state = "none"
         \/ SendsClose(conn)
  PROVE  OrphanInv'
<1>. USE DEF TypeOK
<1>1. reply = NoReply /\ \A m \in net : ~Awaited(m)
  BY DEF StreamInv, CallInv, Awaited
<1>2. ASSUME NEW s \in Stream, Known(s) PROVE Known(s)'
  <2>1. CASE SendsClose(conn) \/ (net' = net /\ conn' = conn /\ app'.state # "none")
    BY <1>1, <1>2, <2>1, ClientKeepsKnown DEF Known, Kept
  <2>2. CASE net' = net /\ app.state = "none"
    BY <1>1, <1>2, <2>2 DEF Known
  <2>. QED BY <2>1, <2>2
<1>3. Orphans' \subseteq Orphans
  BY <1>2 DEF Orphans
<1>4. Doomed' \subseteq Doomed
  BY <1>1 DEF Doomed, SendsClose, CloseRequests
<1>5. AwaitedInv'
  BY <1>1 DEF AwaitedInv, Awaited
<1>. QED BY <1>3, <1>4, <1>5, LeaksStayPaid DEF OrphanInv

(* A call goes on or returns: all that it knew is known, but for what it    *)
(* gave up with a fault.                                                    *)
LEMMA ReturnsKeepsOrphans ==
  ASSUME TypeOK, StreamInv, OrphanInv, NEW ok \in BOOLEAN, NEW c \in Conn,
         app.state = "used", Returns(ok, c), stream' = stream,
         \/ /\ faults' = faults
            /\ call.phase = "send" \/ reply # NoReply
            /\ \A s \in Stream :
                 stream[s].status = "open" /\ Known(s) => Kept(c.baton, s)
         \/ faults' = faults + 1 /\ c = conn
  PROVE  OrphanInv'
<1>. USE DEF TypeOK
<1>1. reply' = NoReply /\ call'.phase # "wait" /\ app'.state = "used"
  <2>1. NextRequest.phase = "send" /\ NoCall.phase = "idle"
    BY DEF NextRequest, NoCall, Call
  <2>2. app'.state = app.state
    BY SessionType DEF Returns, Succeeds, App
  <2>. QED BY <2>1, <2>2 DEF Returns
<1>2. (net' = net /\ conn' = c) \/ SendsClose(c)
  BY DEF Returns
<1>3. /\ \A s \in Stream : Kept(c.baton, s) => Known(s)'
      /\ Doomed' \subseteq Doomed \cup {m \in net : Awaited(m)}
      /\ AwaitedInv'
  BY <1>1, <1>2, ClientKeepsKnown
<1>4. CASE faults' = faults
  <2>1. \A m \in net : ~Awaited(m)
    BY <1>4 DEF OrphanInv, AwaitedInv, Awaited
  <2>2. ASSUME NEW s \in Stream, stream[s].status = "open", Known(s)
        PROVE  Known(s)'
    BY <1>3, <1>4, <2>2
  <2>3. Orphans' \subseteq Orphans
    BY <2>2 DEF Orphans
  <2>. QED BY <1>3, <1>4, <2>1, <2>3, LeaksStayPaid DEF OrphanInv
<1>5. CASE faults' = faults + 1 /\ c = conn
  <2>1. CASE reply = NoReply
    <3>1. Orphans' \subseteq Orphans
      BY <1>3, <1>5, <2>1 DEF Orphans, Known, Kept
    <3>2. \E m : Doomed' \subseteq Doomed \cup {m}
      <4>1. CASE \E m \in net : Awaited(m)
        <5>1. PICK m \in net : Awaited(m)
          BY <4>1
        <5>2. \A q \in net : Awaited(q) => q = m
          BY <5>1 DEF OrphanInv, AwaitedInv
        <5>. QED BY <1>3, <5>2
      <4>2. CASE ~\E m \in net : Awaited(m)
        BY <1>3, <4>2
      <4>. QED BY <4>1, <4>2
    <3>. QED BY <1>3, <1>5, <3>1, <3>2, LeaksStayPaid DEF OrphanInv
  <2>2. CASE reply # NoReply
    <3>1. Doomed' \subseteq Doomed
      BY <1>3, <2>2 DEF OrphanInv, AwaitedInv
    <3>2. ASSUME NEW s \in Stream, Known(s), ~Known(s)'
          PROVE  s = reply.baton[1]
      <4>1. ~Kept(conn.baton, s)
        BY <1>3, <1>5, <3>2
      <4>2. reply.baton = <<s, stream[s].gen>>
        BY <3>2, <4>1 DEF Known, Kept
      <4>. QED BY <4>2
    <3>3. Orphans' \subseteq Orphans \cup {reply.baton[1]}
      BY <3>2 DEF Orphans
    <3>. QED BY <1>3, <1>5, <3>1, <3>3, LeaksStayPaid DEF OrphanInv
  <2>. QED BY <2>1, <2>2
<1>. QED BY <1>4, <1>5

(* Request m moves on stream s, or starts it.                               *)
LEMMA ExecutionKeepsOrphans ==
  ASSUME TypeOK, StreamInv, OrphanInv, NEW m \in net, net' = net \ {m},
         UNCHANGED <<conn, call, app, reqs>>,
         NEW n \in Node, NEW s \in Stream, Accepts(m, n, s),
         NEW o, NEW keep \in BOOLEAN, m.kind = "close" => ~keep,
         Executes(m, n, s, o, keep),
         NEW r \in Reply, Delivers(m, r),
         \/ faults' = faults /\ r.http /\ (keep => r.baton = <<s, stream[s].gen + 1>>)
         \/ faults' = faults + 1 /\ ~r.http /\ r.baton = NoBaton
  PROVE  OrphanInv'
<1>. USE DEF TypeOK
<1>1. /\ \A t \in Stream \ {s} : stream'[t] = stream[t]
      /\ stream'[s].status = IF keep THEN "open" ELSE "closed"
      /\ stream'[s].gen = stream[s].gen + 1 /\ stream[s].gen \in Nat
  BY StoreTypes DEF Executes
<1>2. /\ m.baton = NoBaton => stream[s].status = "unused"
      /\ m.baton # NoBaton => m.baton = <<s, stream[s].gen>> /\ m.baton[1] = s
  BY DEF Accepts
<1>3. Awaited(m) => reply = NoReply /\ m.baton = conn.baton
  BY DEF OrphanInv, AwaitedInv
<1>4. ~Awaited(m) => reply' = reply
  BY DEF Delivers, Awaited
<1>5. ASSUME NEW t \in Stream \ {s}, Known(t) PROVE Known(t)'
  <2>1. <<t, stream[t].gen>> # NoBaton
    BY CurrentBaton
  <2>2. ASSUME m.baton = <<t, stream[t].gen>> PROVE FALSE
    <3>1. m.baton # NoBaton /\ m.baton[1] = t
      BY <2>1, <2>2
    <3>. QED BY <1>2, <3>1
  <2>3. CASE app.state # "none" /\ conn.baton = <<t, stream[t].gen>>
    BY <1>1, <2>3 DEF Known
  <2>4. CASE \E q \in net : q.baton = <<t, stream[t].gen>>
    BY <1>1, <2>2, <2>4 DEF Known
  <2>5. CASE call.phase = "wait" /\ reply # NoReply /\ reply.baton = <<t, stream[t].gen>>
    BY <1>1, <1>3, <1>4, <2>5 DEF Known
  <2>. QED BY <1>5, <2>3, <2>4, <2>5 DEF Known
<1>6. Orphans' \subseteq Orphans \cup {s} /\ (~keep => Orphans' \subseteq Orphans)
  <2>1. ASSUME NEW t \in Orphans', t # s PROVE t \in Orphans
    BY <1>1, <1>5, <2>1 DEF Orphans
  <2>2. ~keep => s \notin Orphans'
    BY <1>1 DEF Orphans
  <2>. QED BY <2>1, <2>2
<1>7. /\ Doomed' \subseteq Doomed
      /\ m.kind # "close" /\ ~Awaited(m) => m \in Doomed /\ Doomed' \subseteq Doomed \ {m}
  BY DEF Doomed, Awaited
<1>8. AwaitedInv'
  <2>1. ASSUME NEW q \in net', Awaited(q)'
        PROVE  /\ reply' = NoReply /\ q.baton = conn'.baton
               /\ \A p \in net' : Awaited(p)' => p = q
    <3>1. q \in net /\ q # m /\ Awaited(q) /\ \A p \in net : Awaited(p)' => Awaited(p)
      BY <2>1 DEF Awaited
    <3>2. reply = NoReply /\ q.baton = conn.baton /\ \A p \in net : Awaited(p) => p = q
      BY <3>1 DEF OrphanInv, AwaitedInv
    <3>3. ~Awaited(m)
      BY <3>1, <3>2
    <3>. QED BY <1>4, <3>1, <3>2, <3>3
  <2>2. ASSUME reply' # NoReply
        PROVE  IF reply'.http THEN Spent(conn.baton)' ELSE reply'.baton = NoBaton
    <3>1. CASE Awaited(m)
      <4>1. Spent(conn.baton)'
        <5>1. m.baton # NoBaton => m.baton[2] = stream[s].gen
          BY <1>2
        <5>. QED BY <1>1, <1>2, <1>3, <3>1, <5>1 DEF Spent
      <4>2. reply' = r
        BY <3>1 DEF Delivers, Awaited
      <4>. QED BY <4>1, <4>2
    <3>2. CASE ~Awaited(m)
      <4>1. reply' = reply
        BY <1>4, <3>2
      <4>2. IF reply.http THEN Spent(conn.baton) ELSE reply.baton = NoBaton
        BY <2>2, <4>1 DEF OrphanInv, AwaitedInv
      <4>3. ASSUME Spent(conn.baton) PROVE Spent(conn.baton)'
        <5>1. Started(conn.baton) /\ conn.baton \in Baton \cup {NoBaton}
          BY StoreTypes DEF StreamInv, GoodConn
        <5>2. conn.baton # NoBaton => conn.baton[1] \in Stream /\ conn.baton[2] \in Nat
          BY <5>1 DEF Baton
        <5>3. m.baton # NoBaton => stream[s].status = "open"
          BY DEF Accepts
        <5>. QED BY <1>1, <1>2, <4>3, <5>1, <5>2, <5>3 DEF Spent, Started
      <4>. QED BY <4>1, <4>2, <4>3
    <3>. QED BY <3>1, <3>2
  <2>. QED BY <2>1, <2>2 DEF AwaitedInv
<1>9. LeaksPaid'
  <2>1. CASE faults' = faults + 1
    BY <1>6, <1>7, <2>1, LeaksStayPaid DEF OrphanInv
  <2>2. CASE faults' = faults /\ ~keep
    BY <1>6, <1>7, <2>2, LeaksStayPaid DEF OrphanInv
  <2>3. CASE faults' = faults /\ keep /\ ~Awaited(m)
    BY <1>6, <1>7, <2>3, LeaksStayPaid DEF OrphanInv
  <2>4. CASE faults' = faults /\ keep /\ Awaited(m)
    <3>1. reply' = r /\ call'.phase = "wait" /\ r # NoReply
      BY <2>4, ConnAssumption DEF Delivers, Awaited
    <3>2. r.baton = <<s, stream[s].gen + 1>>
      BY <2>4
    <3>3. Known(s)'
      BY <1>1, <3>1, <3>2 DEF Known
    <3>4. Orphans' \subseteq Orphans
      BY <1>6, <3>3 DEF Orphans
    <3>. QED BY <1>7, <2>4, <3>4, LeaksStayPaid DEF OrphanInv
  <2>. QED BY <2>1, <2>2, <2>3, <2>4
<1>. QED BY <1>8, <1>9 DEF OrphanInv

(* A request is gone without having been executed: none of the streams was  *)
(* its own, or a fault has lost it.                                         *)
LEMMA RefusalKeepsOrphans ==
  ASSUME TypeOK, StreamInv, OrphanInv, NEW m \in net, net' = net \ {m},
         UNCHANGED <<stream, conn, call, app, reqs>>, Delivers(m, Refusal),
         \/ /\ faults' = faults
            /\ \A s \in Stream : stream[s].status = "open" => m.baton # <<s, stream[s].gen>>
         \/ faults' = faults + 1
  PROVE  OrphanInv'
<1>. USE DEF TypeOK
<1>1. Awaited(m) => reply = NoReply
  BY DEF OrphanInv, AwaitedInv
<1>2. reply' = IF Awaited(m) THEN Refusal ELSE reply
  BY DEF Delivers, Awaited
<1>3. ASSUME NEW t \in Stream, Known(t), m.baton # <<t, stream[t].gen>>
      PROVE  Known(t)'
  <2>1. CASE app.state # "none" /\ conn.baton = <<t, stream[t].gen>>
    BY <2>1 DEF Known
  <2>2. CASE \E q \in net : q.baton = <<t, stream[t].gen>>
    BY <1>3, <2>2 DEF Known
  <2>3. CASE call.phase = "wait" /\ reply # NoReply /\ reply.baton = <<t, stream[t].gen>>
    BY <1>1, <1>2, <2>3 DEF Known
  <2>. QED BY <1>3, <2>1, <2>2, <2>3 DEF Known
<1>4. Doomed' \subseteq Doomed
  BY DEF Doomed, Awaited
<1>5. AwaitedInv'
  <2>1. ASSUME NEW q \in net', Awaited(q)'
        PROVE  /\ reply' = NoReply /\ q.baton = conn'.baton
               /\ \A p \in net' : Awaited(p)' => p = q
    <3>1. q \in net /\ q # m /\ Awaited(q) /\ \A p \in net : Awaited(p)' => Awaited(p)
      BY <2>1 DEF Awaited
    <3>2. reply = NoReply /\ q.baton = conn.baton /\ \A p \in net : Awaited(p) => p = q
      BY <3>1 DEF OrphanInv, AwaitedInv
    <3>3. ~Awaited(m)
      BY <3>1, <3>2
    <3>. QED BY <1>2, <3>1, <3>2, <3>3
  <2>2. Refusal.baton = NoBaton /\ ~Refusal.http
    BY DEF Refusal
  <2>3. Spent(conn.baton) => Spent(conn.baton)'
    BY DEF Spent
  <2>4. ASSUME reply' # NoReply
        PROVE  IF reply'.http THEN Spent(conn.baton)' ELSE reply'.baton = NoBaton
    BY <1>2, <2>2, <2>3, <2>4 DEF OrphanInv, AwaitedInv
  <2>. QED BY <2>1, <2>4 DEF AwaitedInv
<1>6. CASE faults' = faults + 1
  <2>1. ASSUME NEW t \in Orphans', t # m.baton[1] PROVE t \in Orphans
    <3>1. m.baton # <<t, stream[t].gen>>
      BY <2>1
    <3>. QED BY <1>3, <2>1, <3>1 DEF Orphans
  <2>2. \E s : Orphans' \subseteq Orphans \cup {s}
    <3>1. Orphans' \subseteq Orphans \cup {m.baton[1]}
      BY <2>1
    <3>. QED BY <3>1
  <2>. QED BY <1>4, <1>5, <1>6, <2>2, LeaksStayPaid DEF OrphanInv
<1>7. CASE /\ faults' = faults
           /\ \A s \in Stream : stream[s].status = "open" => m.baton # <<s, stream[s].gen>>
  <2>1. Orphans' \subseteq Orphans
    BY <1>3, <1>7 DEF Orphans
  <2>. QED BY <1>4, <1>5, <1>7, <2>1, LeaksStayPaid DEF OrphanInv
<1>. QED BY <1>6, <1>7

(* A request is sent: it is the one that is awaited.                        *)
LEMMA SendKeepsOrphans ==
  ASSUME TypeOK, StreamInv, OrphanInv, SendPipelineRequest
  PROVE  OrphanInv'
<1>. USE DEF TypeOK
<1>1. PICK stmts : /\ net' = net \cup {Message(stmts)}
                   /\ call' = [call EXCEPT !.phase = "wait", !.stmt = stmts,
                                           !.id = reqs + 1]
  BY DEF SendPipelineRequest
<1>2. PICK m : m = Message(stmts)
  OBVIOUS
<1>3. /\ m.id = reqs + 1 /\ m.baton = conn.baton /\ net' = net \cup {m}
      /\ call'.phase = "wait" /\ call'.id = reqs + 1 /\ call.phase = "send"
      /\ reply = NoReply
      /\ UNCHANGED <<stream, conn, app, reply, faults>>
  BY <1>1, <1>2 DEF SendPipelineRequest, Message, StreamInv, CallInv, serverVars
<1>4. ASSUME NEW q \in net PROVE ~Awaited(q) /\ ~Awaited(q)'
  <2>1. q.id <= reqs /\ q.id \in Nat
    BY DEF StreamInv, GoodRequest, Request
  <2>. QED BY <1>3, <2>1 DEF Awaited
<1>5. Awaited(m)'
  BY <1>3 DEF Awaited
<1>6. Doomed' \subseteq Doomed
  BY <1>3, <1>4, <1>5 DEF Doomed
<1>7. \A s \in Stream : Known(s) => Known(s)'
  BY <1>3 DEF Known
<1>8. Orphans' \subseteq Orphans
  BY <1>3, <1>7 DEF Orphans
<1>9. AwaitedInv'
  BY <1>3, <1>4 DEF AwaitedInv
<1>. QED BY <1>3, <1>6, <1>8, <1>9, LeaksStayPaid DEF OrphanInv

(* Every action of HranaConn preserves OrphanInv.                           *)
LEMMA OrphanInvNext ==
  ASSUME TypeOK, StreamInv, OrphanInv, [Next]_vars
  PROVE  OrphanInv'
<1>. USE DEF TypeOK, serverVars, clientVars, ghostVars
<1>0. CallInv
  BY DEF StreamInv
<1>1. CASE Connect
  BY <1>0, <1>1, IdleKeepsOrphans DEF Connect, CallInv
<1>2. CASE ResetSession
  BY <1>0, <1>2, IdleKeepsOrphans DEF ResetSession, CallInv
<1>3. CASE EndSession
  <2>1. /\ call.phase = "idle" /\ call' = call /\ reply' = reply
        /\ UNCHANGED <<stream, faults, conn>>
    BY <1>3 DEF EndSession
  <2>2. CASE IsValid(conn)
    <3>1. net' = net /\ app'.state = "idle"
      BY <1>3, <2>2 DEF EndSession, NewSession
    <3>. QED BY <2>1, <3>1, IdleKeepsOrphans
  <2>3. CASE ~IsValid(conn)
    <3>1. SendsClose(conn)
      BY <1>3, <2>3 DEF EndSession
    <3>. QED BY <2>1, <3>1, IdleKeepsOrphans
  <2>. QED BY <2>2, <2>3
<1>4. CASE Close
  BY <1>0, <1>4, IdleKeepsOrphans DEF Close, CallInv
<1>5. ASSUME NEW kind, NEW chunked, NEW tx, Starts(kind, chunked, tx)
      PROVE  OrphanInv'
  <2>1. call'.phase = "send" /\ call.phase = "idle"
    BY <1>5 DEF Starts, NoCall
  <2>. QED BY <1>5, <2>1, IdleKeepsOrphans DEF Starts
<1>6. CASE Calls
  BY <1>5, <1>6 DEF Calls, ExecContext, BeginTx, ExecInChunks, Begins, Commit, Rollback
<1>7. CASE SendPipelineRequest
  BY <1>7, SendKeepsOrphans
<1>8. CASE ErrBadConn
  <2>1. /\ Returns(FALSE, conn) /\ stream' = stream /\ faults' = faults
        /\ call.phase = "send" /\ reply = NoReply /\ app.state = "used"
    BY <1>0, <1>8 DEF ErrBadConn, CallInv
  <2>2. \A s \in Stream : Known(s) => Kept(conn.baton, s)
    BY <2>1 DEF Known, Kept
  <2>. QED BY <2>1, <2>2, ReturnsKeepsOrphans
<1>9. CASE ReceiveReply
  <2>. DEFINE c == AfterReply(conn, reply)
              ok == reply.http /\ reply.ok
  <2>1. /\ reply \in Reply /\ reply # NoReply /\ app.state = "used"
        /\ Returns(ok, c) /\ stream' = stream /\ faults' = faults
    BY <1>0, <1>9 DEF ReceiveReply, CallInv
  <2>2. ok \in BOOLEAN /\ c \in Conn
    BY <2>1, AfterReplyType DEF Reply
  <2>3. c.baton = IF reply.http THEN reply.baton ELSE conn.baton
    BY DEF AfterReply, Conn
  <2>4. IF reply.http THEN Spent(conn.baton) ELSE reply.baton = NoBaton
    BY <2>1 DEF OrphanInv, AwaitedInv
  <2>. HIDE DEF c, ok
  <2>5. ASSUME NEW s \in Stream, stream[s].status = "open", Known(s)
        PROVE  Kept(c.baton, s)
    <3>1. <<s, stream[s].gen>> # NoBaton /\ stream[s].gen \in Nat
      BY CurrentBaton, StoreTypes
    <3>2. CASE reply.http
      <4>1. conn.baton # <<s, stream[s].gen>>
        BY <2>4, <2>5, <3>1, <3>2 DEF Spent
      <4>. QED BY <2>3, <2>5, <3>2, <4>1 DEF Known, Kept
    <3>3. CASE ~reply.http
      BY <2>3, <2>4, <2>5, <3>1, <3>3 DEF Known, Kept
    <3>. QED BY <3>2, <3>3
  <2>. QED BY <2>1, <2>2, <2>5, ReturnsKeepsOrphans
<1>10. CASE TransportError
  BY <1>0, <1>10, ReturnsKeepsOrphans DEF TransportError, AfterTransportError, CallInv
<1>11. ASSUME NEW m \in net, ServerExecutes(m) PROVE OrphanInv'
  <2>1. PICK n \in ReachedBy(m.url), s \in Stream :
          /\ Accepts(m, n, s)
          /\ \E o \in OutcomesOn(m, s) : \E keep \in MayKeep(m, o.tx) :
              /\ Executes(m, n, s, o, keep)
              /\ \/ /\ \E base \in BaseUrls(m.url, n) :
                         Delivers(m, Answer(s, o, keep, base))
                    /\ UNCHANGED faults
                 \/ /\ faults < MaxFaults /\ faults' = faults + 1
                    /\ Delivers(m, Refusal)
    BY <1>11 DEF ServerExecutes
  <2>2. PICK o \in OutcomesOn(m, s), keep \in BOOLEAN :
          /\ keep \in MayKeep(m, o.tx)
          /\ Executes(m, n, s, o, keep)
          /\ \/ /\ \E base \in BaseUrls(m.url, n) :
                     Delivers(m, Answer(s, o, keep, base))
                /\ UNCHANGED faults
             \/ /\ faults' = faults + 1 /\ Delivers(m, Refusal)
    BY <2>1, KeepType
  <2>3. /\ n \in Node /\ m \in Request /\ net' = net \ {m}
        /\ UNCHANGED <<conn, call, app, reqs>>
    BY <1>11, ReachedType DEF ServerExecutes
  <2>4. m.kind = "close" => ~keep
    BY <2>2 DEF MayKeep
  <2>5. CASE faults' = faults + 1 /\ Delivers(m, Refusal)
    <3>1. Refusal \in Reply /\ ~Refusal.http /\ Refusal.baton = NoBaton
      BY RefusalType DEF Refusal
    <3>. QED BY <2>1, <2>2, <2>3, <2>4, <2>5, <3>1, ExecutionKeepsOrphans
  <2>6. ASSUME NEW base \in BaseUrls(m.url, n),
               Delivers(m, Answer(s, o, keep, base)), faults' = faults
        PROVE  OrphanInv'
    <3>1. PICK r \in Reply : r = Answer(s, o, keep, base)
      BY <2>2, <2>3, ExecutesType, BaseUrlsType
    <3>2. r.http /\ (keep => r.baton = <<s, stream[s].gen + 1>>)
      BY <3>1 DEF Answer
    <3>. QED BY <2>1, <2>2, <2>3, <2>4, <2>6, <3>1, <3>2, ExecutionKeepsOrphans
  <2>. QED BY <2>2, <2>5, <2>6
<1>12. ASSUME NEW m \in net, ServerRefuses(m) PROVE OrphanInv'
  <2>1. /\ net' = net \ {m} /\ Delivers(m, Refusal) /\ faults' = faults
        /\ UNCHANGED <<stream, conn, call, app, reqs>>
    BY <1>12 DEF ServerRefuses
  <2>2. ASSUME NEW s \in Stream, stream[s].status = "open"
        PROVE  m.baton # <<s, stream[s].gen>>
    <3>1. PICK n \in ReachedBy(m.url) : ~Accepts(m, n, s)
      BY <1>12 DEF ServerRefuses
    <3>2. <<s, stream[s].gen>> # NoBaton
      BY CurrentBaton
    <3>3. m.baton # NoBaton => n = stream[m.baton[1]].node
      BY <3>1 DEF StreamInv, GoodRequest, AtHome
    <3>. QED BY <2>2, <3>1, <3>2, <3>3 DEF Accepts
  <2>. QED BY <2>1, <2>2, RefusalKeepsOrphans
<1>13. ASSUME NEW m \in net, ServerFails(m) PROVE OrphanInv'
  BY <1>13, RefusalKeepsOrphans DEF ServerFails
<1>14. CASE StreamExpires
  <2>1. PICK s \in Stream : Expire(s)
    BY <1>14 DEF StreamExpires
  <2>2. /\ stream'[s].status = "closed" /\ stream'[s].gen = stream[s].gen
        /\ \A t \in Stream \ {s} : stream'[t] = stream[t]
    BY <2>1, StoreTypes DEF Expire, StreamState
  <2>3. UNCHANGED <<conn, call, app, net, reply, faults>>
    BY <1>14 DEF StreamExpires
  <2>4. ASSUME NEW t \in Stream, Known(t) PROVE Known(t)'
    BY <2>2, <2>3, <2>4 DEF Known
  <2>5. Orphans' \subseteq Orphans
    BY <2>2, <2>4 DEF Orphans
  <2>6. Doomed' \subseteq Doomed /\ \A m \in net : Awaited(m)' = Awaited(m)
    BY <2>3 DEF Doomed, Awaited
  <2>7. Spent(conn.baton) => Spent(conn.baton)'
    <3>1. conn.baton # NoBaton => conn.baton[1] \in Stream
      BY StoreTypes DEF Baton
    <3>. QED BY <2>2, <2>3, <3>1 DEF Spent
  <2>8. AwaitedInv'
    BY <2>3, <2>6, <2>7 DEF OrphanInv, AwaitedInv
  <2>. QED BY <2>3, <2>5, <2>6, <2>8, LeaksStayPaid DEF OrphanInv
<1>15. CASE UNCHANGED vars
  BY <1>15 DEF vars, OrphanInv, LeaksPaid, AwaitedInv, Orphans, Doomed, Known,
               Awaited, Spent
<1>. QED BY <1>1, <1>2, <1>3, <1>4, <1>6, <1>7, <1>8, <1>9, <1>10, <1>11, <1>12,
            <1>13, <1>14, <1>15
     DEF Next, Pool, Driver, Server, Finished

(* Whatever the server does, the client leaks no stream of its own doing:   *)
(* each stream that is open and that no connection, request or answer can   *)
(* name was lost to a fault of its own (hranaV2.go:108-126, 199-228).       *)
THEOREM NoLeaks == Spec => []OrphansComeFromFaults
<1>1. TypeOK /\ StreamInv /\ OrphanInv /\ [Next]_vars => OrphanInv'
  BY OrphanInvNext
<1>2. TypeOK /\ OrphanInv => OrphansComeFromFaults
  BY FS_CardinalityType DEF OrphanInv, LeaksPaid, OrphansComeFromFaults, TypeOK
<1>. QED BY <1>1, <1>2, OrphanInvInit, TypeCorrect, StreamInvariance, PTL DEF Spec
=============================================================================
