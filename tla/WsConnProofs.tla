---------------------------- MODULE WsConnProofs ----------------------------
(***************************************************************************)
(* Theorems about WsConn: what is under way on a socket, that the           *)
(* connections with the pool and the server implement TxStore, and that a   *)
(* statement is executed again only when a socket breaks.  For any number   *)
(* of sockets, statements, transactions and faults.                         *)
(***************************************************************************)
EXTENDS WsConn, SequenceTheorems, FiniteSetTheorems, TLAPS

Handshaking == {"hello", "open_stream", "helloResp", "openStreamResp"}
Greeting == {"hello", "open_stream"}

Queued(s) == {toServer[s][i] : i \in DOMAIN toServer[s]}
UnderWay(s) == Len(toServer[s]) + Len(toClient[s])
Quiet(s) == toServer[s] = <<>> /\ toClient[s] = <<>>
Request == [kind |-> call.kind, stmt |-> call.stmt, attempt |-> call.attempt]

(* The types, with what is needed of messages and streams.                  *)
WsType ==
  /\ open \in SUBSET Sock /\ up \in SUBSET Sock
  /\ toServer \in [Sock -> Seq(Message)] /\ toClient \in [Sock -> Seq(Response)]
  /\ stream \in [Sock -> [state: {"new", "greeted", "open", "gone"},
                          inTx: BOOLEAN, pending: SUBSET Stmt]]
  /\ durable \in SUBSET Stmt
  /\ socks \in 0..MaxSocks /\ faults \in 0..MaxFaults
  /\ conn \in Sock \cup {NoSock}
  /\ pc \in {"idle", "connect", "exec", "resp", "panic"} \cup Handshaking
  /\ call \in [kind: Kind, stmt: Nat, attempt: 1..Attempts, done: BOOLEAN]
  /\ tx \in 0..MaxTx /\ txs \in 0..MaxTx
  /\ stmtTx \in Seq(0..MaxTx) /\ Len(stmtTx) <= MaxStmts
  /\ asked \subseteq 1..MaxTx /\ committed \subseteq asked
  /\ rolledBack \subseteq 1..MaxTx
  /\ acked \subseteq Stmt /\ doubtful \subseteq Stmt /\ alone \subseteq Stmt
  /\ ran \subseteq Stmt \X (1..Attempts)
  /\ refused \subseteq Sock

(* A socket.                                                                *)
SockInv(s) ==
  /\ s \in open \cup up => s <= socks
  /\ s > socks => Quiet(s) /\ stream[s].state = "new"
  /\ stream[s].inTx => stream[s].state = "open"
  /\ ~stream[s].inTx => stream[s].pending = {}
  /\ UnderWay(s) <= 2
  /\ \A m \in Queued(s) : m.kind \notin Greeting => Len(toServer[s]) = 1
  /\ \A m \in Queued(s) : m.kind = "exec" =>
       m.stmt \in 1..Len(stmtTx) /\ m.attempt \in 1..Attempts

(* The socket of the handshake.                                             *)
HandshakeInv ==
  pc \in Handshaking =>
    /\ conn = NoSock /\ Dialling \in Sock /\ open \subseteq {Dialling}
    /\ ~stream[Dialling].inTx
    /\ \A m \in Queued(Dialling) : m.kind \in Greeting
    /\ UnderWay(Dialling) <= CASE pc = "hello" -> 0
                               [] pc = "helloResp" -> 2
                               [] OTHER -> 1

(* The socket of the connection: nothing is under way on it but the call's  *)
(* request or the answer to it.                                             *)
ConnInv ==
  /\ pc = "connect" => conn = NoSock
  /\ pc \in {"connect", "idle", "exec", "resp"} => open \subseteq {conn}
  /\ pc = "exec" => conn # NoSock
  /\ pc = "resp" => conn \in open
  /\ conn = NoSock => tx = NoTx
  /\ pc = "panic" => conn = NoSock
  /\ conn \in open /\ pc # "resp" => Quiet(conn)
  /\ pc = "resp" =>
       \/ Quiet(conn)
       \/ toServer[conn] = <<Request>> /\ toClient[conn] = <<>>
       \/ /\ toServer[conn] = <<>>
          /\ \E ok \in BOOLEAN : toClient[conn] = <<[of |-> Request, ok |-> ok]>>
  /\ conn \in Sock \ open => /\ \A m \in Queued(conn) : m.kind = "exec"
                             /\ UnderWay(conn) <= 1

(* The call.                                                                *)
CallInv ==
  /\ tx \in {NoTx, txs} /\ acked \subseteq 1..Len(stmtTx)
  /\ pc = "resp" /\ call.kind = "commit" => tx \in asked
  /\ pc \notin {"idle", "panic"} =>
       CASE call.kind = "exec" ->
              /\ call.stmt = Len(stmtTx) /\ call.stmt # 0
              /\ stmtTx[call.stmt] = tx /\ call.stmt \notin acked
         [] call.kind = "begin" -> tx = NoTx /\ txs # 0 /\ call.stmt = 0
         [] call.kind \in {"commit", "rollback"} -> tx # NoTx /\ call.stmt = 0
         [] OTHER -> FALSE

LinkInv ==
  /\ WsType /\ HandshakeInv /\ ConnInv /\ CallInv
  /\ \A s \in Sock : SockInv(s)

-----------------------------------------------------------------------------
(* What the queues of a socket look like after a message was sent.          *)
Sent(kind) == [kind |-> kind, stmt |-> call.stmt, attempt |-> call.attempt]

LEMMA SendsAppends ==
  ASSUME WsType, NEW s \in Sock, NEW kind \in Kind, Sends(s, kind)
  PROVE  /\ toServer' \in [Sock -> Seq(Message)]
         /\ \A r \in Sock \ {s} : toServer'[r] = toServer[r]
         /\ Len(toServer'[s]) <= Len(toServer[s]) + 1
         /\ \A m \in Queued(s)' : m \in Queued(s) \/ m = Sent(kind)
         /\ toServer[s] = <<>> => toServer'[s] \in {<<>>, <<Sent(kind)>>}
<1>1. Sent(kind) \in Message /\ toServer[s] \in Seq(Message)
  <2>1. call.stmt \in Nat /\ call.attempt \in 1..Attempts
    BY DEF WsType
  <2>2. call.attempt \in Nat
    BY <2>1 DEF Attempts
  <2>. QED BY <2>1, <2>2 DEF Sent, Message, WsType
<1>2. /\ toServer'[s] \in {toServer[s], Append(toServer[s], Sent(kind))}
      /\ \A r \in Sock \ {s} : toServer'[r] = toServer[r]
  BY DEF Sends, Sent, WsType
<1>3. toServer' \in [Sock -> Seq(Message)]
  BY <1>1 DEF Sends, Sent, WsType
<1>4. toServer[s] = <<>> => toServer'[s] \in {<<>>, <<Sent(kind)>>}
  BY <1>1, <1>2
<1>5. Len(toServer'[s]) <= Len(toServer[s]) + 1
  BY <1>1, <1>2
<1>6. \A m \in Queued(s)' : m \in Queued(s) \/ m = Sent(kind)
  BY <1>1, <1>2 DEF Queued
<1>. QED BY <1>2, <1>3, <1>4, <1>5, <1>6

(* Its length, before and after a step.                                     *)
LEMMA Sizes ==
  ASSUME WsType, NEW s \in Sock
  PROVE  /\ Len(toServer[s]) \in Nat /\ Len(toClient[s]) \in Nat
         /\ UnderWay(s) \in Nat
  BY DEF WsType, UnderWay

LEMMA SizesAfter ==
  ASSUME WsType', NEW s \in Sock
  PROVE  /\ Len(toServer'[s]) \in Nat /\ Len(toClient'[s]) \in Nat
         /\ UnderWay(s)' \in Nat
  BY DEF WsType, UnderWay

LEMMA OneForOne ==
  ASSUME NEW a \in Nat, NEW b \in Nat, NEW c \in Nat, NEW d \in Nat,
         c = a - 1, d <= b + 1
  PROVE  c + d <= a + b
  OBVIOUS

(* And after the server has taken one and answered it.                      *)
LEMMA ServedTakes ==
  ASSUME WsType, NEW s \in Sock, NEW st, NEW ok \in BOOLEAN, Served(s, st, ok)
  PROVE  /\ toServer' \in [Sock -> Seq(Message)]
         /\ toClient' \in [Sock -> Seq(Response)]
         /\ \A r \in Sock \ {s} : /\ toServer'[r] = toServer[r]
                                  /\ toClient'[r] = toClient[r]
         /\ Head(toServer[s]) \in Queued(s) /\ Head(toServer[s]) \in Message
         /\ Queued(s)' \subseteq Queued(s)
         /\ Len(toServer'[s]) = Len(toServer[s]) - 1
         /\ UnderWay(s)' <= UnderWay(s)
         /\ Len(toServer[s]) = 1 => toServer'[s] = <<>>
         /\ toClient[s] = <<>> =>
              toClient'[s] \in {<<>>, <<[of |-> Head(toServer[s]), ok |-> ok]>>}
<1>. DEFINE r == [of |-> Head(toServer[s]), ok |-> ok]
<1>1. /\ toServer[s] \in Seq(Message) /\ toServer[s] # <<>>
      /\ toClient[s] \in Seq(Response)
  BY DEF Served, WsType
<1>2. Head(toServer[s]) \in Message /\ r \in Response
  BY <1>1 DEF Response
<1>3. /\ toServer'[s] = Tail(toServer[s])
      /\ toClient'[s] \in {toClient[s], Append(toClient[s], r)}
      /\ \A q \in Sock \ {s} : /\ toServer'[q] = toServer[q]
                               /\ toClient'[q] = toClient[q]
  BY DEF Served, WsType
<1>4. toServer' \in [Sock -> Seq(Message)]
  BY <1>1 DEF Served, WsType
<1>5. toClient' \in [Sock -> Seq(Response)]
  BY <1>1, <1>2 DEF Served, WsType
<1>6. Head(toServer[s]) \in Queued(s) /\ Queued(s)' \subseteq Queued(s)
  BY <1>1, <1>3 DEF Queued
<1>7. Len(toServer'[s]) = Len(toServer[s]) - 1 /\ Len(toClient'[s]) <= Len(toClient[s]) + 1
  BY <1>1, <1>2, <1>3
<1>8. UnderWay(s)' <= UnderWay(s)
  <2>1. /\ Len(toServer[s]) \in Nat /\ Len(toClient[s]) \in Nat
        /\ Len(toServer'[s]) \in Nat /\ Len(toClient'[s]) \in Nat
    BY <1>1, <1>4, <1>5
  <2>2. /\ UnderWay(s) = Len(toServer[s]) + Len(toClient[s])
        /\ UnderWay(s)' = Len(toServer'[s]) + Len(toClient'[s])
    BY DEF UnderWay
  <2>. QED BY <2>1, <2>2, <1>7, OneForOne
<1>9. Len(toServer[s]) = 1 => toServer'[s] = <<>>
  <2>1. toServer'[s] \in Seq(Message) /\ Len(toServer'[s]) = Len(toServer[s]) - 1
    BY <1>1, <1>4, <1>7
  <2>. QED BY <2>1
<1>10. toClient[s] = <<>> => toClient'[s] \in {<<>>, <<r>>}
  BY <1>2, <1>3
<1>. QED BY <1>2, <1>3, <1>4, <1>5, <1>6, <1>7, <1>8, <1>9, <1>10

-----------------------------------------------------------------------------
(* LinkInv holds before the first call.                                     *)
LEMMA LinkInit == Init => LinkInv
<1>. SUFFICES ASSUME Init PROVE LinkInv
  OBVIOUS
<1>. USE WsAssumption DEF Init, NoCall, Sock, NoSock, NoTx, Attempts, Kind
<1>1. WsType
  BY DEF WsType, Message, Response
<1>2. HandshakeInv
  BY DEF HandshakeInv, Handshaking
<1>3. ConnInv
  BY DEF ConnInv
<1>4. CallInv
  BY DEF CallInv
<1>5. \A s \in Sock : SockInv(s)
  BY DEF SockInv, Quiet, UnderWay, Queued
<1>. QED BY <1>1, <1>2, <1>3, <1>4, <1>5 DEF LinkInv

(* The server takes a message and answers, and stays the server of its      *)
(* stream.                                                                  *)
LEMMA ServedKeepsLinks ==
  ASSUME LinkInv, NEW s \in Sock, NEW st, NEW ok \in BOOLEAN, Served(s, st, ok),
         st \in [state: {"new", "greeted", "open", "gone"},
                 inTx: BOOLEAN, pending: SUBSET Stmt],
         st.inTx => /\ st.state = "open"
                    /\ stream[s].inTx \/ Head(toServer[s]).kind \notin Greeting,
         ~st.inTx => st.pending = {},
         durable' \in SUBSET Stmt, ran' \subseteq Stmt \X (1..Attempts),
         refused' \subseteq Sock
  PROVE  LinkInv'
<1>1. /\ UNCHANGED <<open, up, socks, faults, conn, pc, call, tx, txs, stmtTx>>
      /\ UNCHANGED <<asked, committed, rolledBack, acked, doubtful, alone>>
      /\ stream' = [stream EXCEPT ![s] = st] /\ toServer[s] # <<>>
  BY DEF Served, program, told
<1>0. WsType /\ s \in 1..MaxSocks /\ socks \in Nat
  <2>1. WsType
    BY DEF LinkInv
  <2>2. socks \in Nat
    BY <2>1, WsAssumption DEF WsType
  <2>. QED BY <2>1, <2>2 DEF Sock
<1>o. \A r \in Sock \ {s} : toServer'[r] = toServer[r] /\ toClient'[r] = toClient[r]
  <2>1. WsType /\ s \in Sock /\ ok \in BOOLEAN /\ Served(s, st, ok)
    BY <1>0
  <2>2. /\ toServer \in [Sock -> Seq(Message)] /\ toClient \in [Sock -> Seq(Response)]
        /\ toServer' = [toServer EXCEPT ![s] = Tail(@)]
        /\ toClient' = [toClient EXCEPT ![s] = toClient'[s]]
    BY ONLY <2>1 DEF WsType, Served
  <2>. QED BY ONLY <2>1, <2>2
<1>2. WsType'
  <2>1. /\ toServer' \in [Sock -> Seq(Message)]
        /\ toClient' \in [Sock -> Seq(Response)]
    BY <1>0, ServedTakes
  <2>2. stream' \in [Sock -> [state: {"new", "greeted", "open", "gone"},
                             inTx: BOOLEAN, pending: SUBSET Stmt]]
    BY <1>0, <1>1 DEF WsType
  <2>. QED BY <1>0, <1>1, <2>1, <2>2 DEF WsType
<1>3. \A r \in Sock : SockInv(r)'
  <2>. SUFFICES ASSUME NEW r \in Sock PROVE SockInv(r)'
    OBVIOUS
  <2>1. CASE r # s
    <3>1. /\ toServer'[r] = toServer[r] /\ toClient'[r] = toClient[r]
          /\ stream'[r] = stream[r]
      <4>1. toServer'[r] = toServer[r] /\ toClient'[r] = toClient[r]
        BY <1>o, <2>1
      <4>2. stream'[r] = stream[r]
        BY <1>0, <1>1, <2>1 DEF WsType
      <4>. QED BY <4>1, <4>2
    <3>2. SockInv(r)
      BY DEF LinkInv
    <3>3. Quiet(r)' = Quiet(r) /\ UnderWay(r)' = UnderWay(r) /\ Queued(r)' = Queued(r)
      BY <3>1 DEF Quiet, UnderWay, Queued
    <3>. QED BY <1>1, <3>1, <3>2, <3>3 DEF SockInv
  <2>2. CASE r = s
    <3>1. s <= socks
      BY <1>0, <1>1 DEF LinkInv, SockInv, Quiet
    <3>2. \A m \in Queued(s)' : m.kind \notin Greeting => Len(toServer'[s]) = 1
      <4>1. /\ \A m \in Queued(s) : m.kind \notin Greeting => Len(toServer[s]) = 1
            /\ Queued(s)' \subseteq Queued(s)
            /\ Len(toServer[s]) = 1 => toServer'[s] = <<>>
        BY ServedTakes DEF LinkInv, SockInv
      <4>2. toServer'[s] = <<>> => Queued(s)' = {}
        BY DEF Queued
      <4>. QED BY <4>1, <4>2
    <3>3. UnderWay(s)' <= 2
      <4>1. UnderWay(s) <= 2 /\ UnderWay(s)' <= UnderWay(s)
        BY ServedTakes DEF LinkInv, SockInv
      <4>2. UnderWay(s) \in Nat /\ UnderWay(s)' \in Nat
        BY <1>0, <1>2, Sizes, SizesAfter
      <4>. QED BY <4>1, <4>2
    <3>4. stream'[s] = st
      BY <1>1 DEF LinkInv, WsType
    <3>5. Queued(s)' \subseteq Queued(s)
      BY ServedTakes DEF LinkInv
    <3>. QED BY <1>1, <2>2, <3>1, <3>2, <3>3, <3>4, <3>5 DEF LinkInv, SockInv, WsType, Sock
  <2>. QED BY <2>1, <2>2
<1>4. HandshakeInv'
  <2>. SUFFICES ASSUME pc \in Handshaking PROVE HandshakeInv'
    BY <1>1 DEF HandshakeInv
  <2>1. /\ conn = NoSock /\ Dialling \in Sock /\ open \subseteq {Dialling}
        /\ ~stream[Dialling].inTx /\ Dialling' = Dialling
        /\ \A m \in Queued(Dialling) : m.kind \in Greeting
    BY <1>1 DEF LinkInv, HandshakeInv, Dialling
  <2>2. /\ Queued(Dialling)' \subseteq Queued(Dialling)
        /\ UnderWay(Dialling)' <= UnderWay(Dialling)
    <3>1. CASE s = Dialling
      BY <2>1, <3>1, ServedTakes DEF LinkInv, Dialling
    <3>2. CASE s # Dialling
      <4>1. /\ toServer'[Dialling] = toServer[Dialling]
            /\ toClient'[Dialling] = toClient[Dialling]
        BY <2>1, <3>2, ServedTakes DEF LinkInv
      <4>2. UnderWay(Dialling) \in Nat
        BY <1>0, <2>1, Sizes
      <4>. QED BY <1>1, <4>1, <4>2 DEF Queued, UnderWay, Dialling
    <3>. QED BY <3>1, <3>2
  <2>3. ~stream'[Dialling].inTx
    <3>1. CASE s = Dialling
      <4>1. st.inTx => stream[s].inTx \/ Head(toServer[s]).kind \notin Greeting
        OBVIOUS
      <4>2. Head(toServer[s]).kind \in Greeting
        BY <2>1, <3>1, <1>0, ServedTakes
      <4>. QED BY <4>1, <4>2, <1>0, <1>1, <2>1, <3>1 DEF WsType
    <3>2. CASE s # Dialling
      BY <1>1, <2>1, <3>2 DEF LinkInv, WsType
    <3>. QED BY <3>1, <3>2
  <2>4. UnderWay(Dialling) \in Nat /\ UnderWay(Dialling)' \in Nat
    BY <1>0, <1>2, <2>1, Sizes, SizesAfter
  <2>. QED BY <1>1, <2>1, <2>2, <2>3, <2>4 DEF LinkInv, HandshakeInv
<1>5. ConnInv'
  <2>1. conn = s => \/ pc = "resp"
                    \/ conn \notin open
    BY <1>1 DEF LinkInv, ConnInv, Quiet
  <2>2. CASE conn # s
    <3>1. conn \in Sock => /\ toServer'[conn] = toServer[conn]
                           /\ toClient'[conn] = toClient[conn]
      BY <2>2, ServedTakes DEF LinkInv
    <3>2. open \subseteq Sock
      BY <1>0 DEF WsType
    <3>3. conn \in Sock => (Quiet(conn)' <=> Quiet(conn)) /\ Queued(conn)' = Queued(conn)
                         /\ UnderWay(conn)' = UnderWay(conn)
      BY <1>1, <3>1 DEF Quiet, Queued, UnderWay
    <3>4. Request' = Request
      BY <1>1 DEF Request
    <3>. QED BY <1>0, <1>1, <3>1, <3>2, <3>3, <3>4 DEF LinkInv, ConnInv
  <2>3. CASE conn = s /\ pc = "resp"
    <3>1. toServer[s] = <<Request>> /\ toClient[s] = <<>> /\ s \in open
      BY <1>1, <2>3 DEF LinkInv, ConnInv, Quiet
    <3>2. Head(toServer[s]) = Request /\ Len(toServer[s]) = 1 /\ Request' = Request
      BY <1>1, <3>1 DEF Request
    <3>3. /\ toServer'[s] = <<>>
          /\ toClient'[s] \in {<<>>, <<[of |-> Request, ok |-> ok]>>}
      BY <1>0, <3>1, <3>2, ServedTakes
    <3>4. \/ Quiet(s)'
          \/ toServer'[s] = <<>> /\ toClient'[s] = <<[of |-> Request, ok |-> ok]>>
      BY <3>3 DEF Quiet
    <3>5. open \subseteq {conn} /\ conn # NoSock
      BY <2>3, <1>0 DEF LinkInv, ConnInv, Sock, NoSock
    <3>. QED BY <1>1, <2>3, <3>1, <3>2, <3>4, <3>5 DEF ConnInv
  <2>4. CASE conn = s /\ pc # "resp" /\ conn \notin open
    <3>1. Queued(s)' \subseteq Queued(s) /\ UnderWay(s)' <= UnderWay(s)
      BY ServedTakes DEF LinkInv
    <3>2. UnderWay(s) \in Nat /\ UnderWay(s)' \in Nat
      BY <1>0, <1>2, Sizes, SizesAfter
    <3>3. UnderWay(s) <= 1
      BY <2>4 DEF LinkInv, ConnInv
    <3>. QED BY <1>1, <2>4, <3>1, <3>2, <3>3 DEF LinkInv, ConnInv
  <2>. QED BY <2>1, <2>2, <2>3, <2>4
<1>6. CallInv'
  BY <1>1 DEF LinkInv, CallInv
<1>. QED BY <1>2, <1>3, <1>4, <1>5, <1>6 DEF LinkInv

(* The types of what a step of the client changes.                          *)
LEMMA LinkTypes ==
  ASSUME LinkInv
  PROVE  /\ WsType
         /\ MaxSocks \in Nat /\ socks \in 0..MaxSocks
         /\ open \subseteq Sock /\ up \subseteq Sock
         /\ Sock = 1..MaxSocks /\ NoSock \notin Sock
         /\ txs \in Nat /\ stmtTx \in Seq(0..MaxTx) /\ Len(stmtTx) \in Nat
<1>1. WsType
  BY DEF LinkInv
<1>2. /\ MaxSocks \in Nat /\ socks \in 0..MaxSocks
      /\ open \subseteq Sock /\ up \subseteq Sock
  BY <1>1, WsAssumption DEF WsType
<1>3. Sock = 1..MaxSocks /\ NoSock \notin Sock
  BY <1>2 DEF Sock, NoSock
<1>4. txs \in Nat /\ stmtTx \in Seq(0..MaxTx)
  BY <1>1, WsAssumption DEF WsType
<1>5. Len(stmtTx) \in Nat
  BY <1>4
<1>. QED BY <1>1, <1>2, <1>3, <1>4, <1>5

(* Sockets on which nothing moves.                                          *)
LEMMA SocksKeep ==
  ASSUME LinkInv, UNCHANGED <<toServer, toClient, stream>>,
         socks' \in socks..MaxSocks, \A s \in open' \cup up' : s <= socks',
         Len(stmtTx') \in Nat, Len(stmtTx) <= Len(stmtTx')
  PROVE  \A s \in Sock : SockInv(s)'
<1>. SUFFICES ASSUME NEW s \in Sock PROVE SockInv(s)'
  OBVIOUS
<1>1. SockInv(s) /\ s \in Nat /\ socks \in Nat /\ socks' \in Nat /\ Len(stmtTx) \in Nat
  BY LinkTypes DEF LinkInv
<1>2. Quiet(s)' = Quiet(s) /\ UnderWay(s)' = UnderWay(s) /\ Queued(s)' = Queued(s)
  BY DEF Quiet, UnderWay, Queued
<1>3. s > socks' => s > socks
  BY <1>1, LinkTypes
<1>4. \A m : m \in 1..Len(stmtTx) => m \in 1..Len(stmtTx')
  BY <1>1
<1>. QED BY <1>1, <1>2, <1>3, <1>4 DEF SockInv

(* A statement is issued, a transaction begun or ended.                     *)
LEMMA CallsKeepLinks ==
  ASSUME LinkInv, ExecContext \/ BeginTx \/ Commit \/ Rollback
  PROVE  LinkInv'
<1>0. /\ pc = "idle" /\ pc' = IF conn = NoSock THEN "connect" ELSE "exec"
      /\ UNCHANGED <<open, up, toServer, toClient, stream, durable, socks, faults, conn, tx>>
      /\ UNCHANGED <<asked, committed, rolledBack, acked, ran, refused, doubtful>>
  BY DEF ExecContext, BeginTx, Commit, Rollback, Calls, network, ghosts, marked, told
<1>1. /\ \/ /\ call'.kind = "exec" /\ call'.stmt = Len(stmtTx) + 1
            /\ stmtTx' = Append(stmtTx, tx) /\ Len(stmtTx) < MaxStmts
            /\ txs' = txs
         \/ /\ call'.kind = "begin" /\ call'.stmt = 0 /\ stmtTx' = stmtTx
            /\ tx = NoTx /\ txs < MaxTx /\ txs' = txs + 1
         \/ /\ call'.kind \in {"commit", "rollback"} /\ call'.stmt = 0
            /\ tx # NoTx /\ UNCHANGED <<txs, stmtTx>>
      /\ call' \in [kind: Kind, stmt: Nat, attempt: 1..Attempts, done: BOOLEAN]
  <2>1. ASSUME NEW kind \in Kind, NEW stmt \in Nat, Calls(kind, stmt)
        PROVE  /\ call' = [kind |-> kind, stmt |-> stmt, attempt |-> 1, done |-> FALSE]
               /\ call' \in [kind: Kind, stmt: Nat, attempt: 1..Attempts, done: BOOLEAN]
    <3>1. call' = [kind |-> kind, stmt |-> stmt, attempt |-> 1, done |-> FALSE]
      BY <2>1 DEF Calls, NoCall
    <3>2. 1 \in 1..Attempts
      BY DEF Attempts
    <3>. QED BY <2>1, <3>1, <3>2
  <2>2. CASE ExecContext
    <3>1. Calls("exec", Len(stmtTx) + 1) /\ Len(stmtTx) + 1 \in Nat /\ "exec" \in Kind
      BY <2>2, LinkTypes DEF ExecContext, Kind
    <3>. QED BY <2>1, <2>2, <3>1 DEF ExecContext
  <2>3. CASE BeginTx
    <3>1. Calls("begin", 0) /\ "begin" \in Kind
      BY <2>3 DEF BeginTx, Kind
    <3>. QED BY <2>1, <2>3, <3>1 DEF BeginTx
  <2>4. CASE Commit
    <3>1. Calls("commit", 0) /\ "commit" \in Kind
      BY <2>4 DEF Commit, Kind
    <3>. QED BY <2>1, <2>4, <3>1 DEF Commit
  <2>5. CASE Rollback
    <3>1. Calls("rollback", 0) /\ "rollback" \in Kind
      BY <2>5 DEF Rollback, Kind
    <3>. QED BY <2>1, <2>5, <3>1 DEF Rollback
  <2>. QED BY <2>2, <2>3, <2>4, <2>5
<1>2. /\ stmtTx' \in Seq(0..MaxTx) /\ Len(stmtTx') <= MaxStmts
      /\ Len(stmtTx') \in Nat /\ Len(stmtTx) <= Len(stmtTx')
      /\ txs' \in 0..MaxTx
      /\ stmtTx' = stmtTx \/ (Len(stmtTx') = Len(stmtTx) + 1 /\ stmtTx'[Len(stmtTx')] = tx)
  <2>1. /\ WsType /\ tx \in 0..MaxTx /\ txs \in 0..MaxTx /\ MaxTx \in Nat
        /\ stmtTx \in Seq(0..MaxTx) /\ Len(stmtTx) <= MaxStmts /\ MaxStmts \in Nat
    BY LinkTypes, WsAssumption DEF WsType
  <2>2. CASE stmtTx' = stmtTx
    BY <1>1, <2>1, <2>2, LinkTypes
  <2>3. CASE stmtTx' = Append(stmtTx, tx) /\ Len(stmtTx) < MaxStmts /\ txs' = txs
    BY <2>1, <2>3
  <2>. QED BY <1>1, <2>2, <2>3
<1>3. WsType'
  <2>1. pc' \in {"idle", "connect", "exec", "resp", "panic"} \cup Handshaking
    BY <1>0
  <2>2. alone' \subseteq Stmt
    <3>1. alone \subseteq Stmt /\ Len(stmtTx) \in Nat /\ MaxStmts \in Nat
      BY LinkTypes, WsAssumption DEF WsType
    <3>2. CASE ExecContext
      <4>1. /\ call'.stmt = Len(stmtTx) + 1 /\ Len(stmtTx) < MaxStmts
            /\ alone' \in {alone, alone \cup {call'.stmt}}
        BY <3>2 DEF ExecContext, Calls, NoCall
      <4>. QED BY <3>1, <4>1 DEF Stmt
    <3>3. CASE BeginTx \/ Commit \/ Rollback
      BY <3>1, <3>3 DEF BeginTx, Commit, Rollback
    <3>. QED BY <3>2, <3>3
  <2>. QED BY <1>0, <1>1, <1>2, <2>1, <2>2, LinkTypes DEF WsType
<1>4. \A s \in Sock : SockInv(s)'
  <2>1. \A s \in open' \cup up' : s <= socks'
    BY <1>0, LinkTypes DEF LinkInv, SockInv
  <2>2. socks' \in socks..MaxSocks
    BY <1>0, LinkTypes
  <2>. QED BY <1>0, <1>2, <2>1, <2>2, SocksKeep
<1>5. HandshakeInv'
  BY <1>0 DEF HandshakeInv, Handshaking
<1>6. ConnInv'
  BY <1>0 DEF LinkInv, ConnInv, Quiet, Queued, UnderWay
<1>7. CallInv'
  <2>1. acked \subseteq 1..Len(stmtTx) /\ tx \in {NoTx, txs}
    BY DEF LinkInv, CallInv
  <2>2. acked \subseteq 1..Len(stmtTx')
    BY <1>2, <2>1, LinkTypes
  <2>3. tx' \in {NoTx, txs'}
    BY <1>0, <1>1, <2>1
  <2>4. call'.kind = "exec" =>
          /\ call'.stmt = Len(stmtTx') /\ call'.stmt # 0
          /\ stmtTx'[call'.stmt] = tx' /\ call'.stmt \notin acked'
    BY <1>0, <1>1, <1>2, <2>1, LinkTypes
  <2>5. call'.kind = "begin" => tx' = NoTx /\ txs' # 0 /\ call'.stmt = 0
    BY <1>0, <1>1, LinkTypes
  <2>. QED BY <1>0, <1>1, <2>2, <2>3, <2>4, <2>5 DEF CallInv
<1>. QED BY <1>3, <1>4, <1>5, <1>6, <1>7 DEF LinkInv

(* An answer is read.                                                       *)
LEMMA ReadsTakes ==
  ASSUME WsType, NEW s \in Sock, Reads(s)
  PROVE  /\ UNCHANGED <<up, toServer, stream, durable>>
         /\ toClient' \in [Sock -> Seq(Response)]
         /\ \A r \in Sock \ {s} : toClient'[r] = toClient[r]
         /\ UnderWay(s) \in Nat /\ UnderWay(s)' \in Nat /\ UnderWay(s)' + 1 = UnderWay(s)
         /\ Len(toClient[s]) = 1 => toClient'[s] = <<>>
<1>1. toClient[s] \in Seq(Response) /\ toClient[s] # <<>>
  BY DEF WsType, Reads
<1>2. /\ toClient'[s] = Tail(toClient[s])
      /\ \A r \in Sock \ {s} : toClient'[r] = toClient[r]
      /\ UNCHANGED <<up, toServer, stream, durable>>
  BY DEF WsType, Reads
<1>3. toClient' \in [Sock -> Seq(Response)]
  BY <1>1 DEF WsType, Reads
<1>4. Len(toClient'[s]) + 1 = Len(toClient[s]) /\ Len(toClient'[s]) \in Nat
  BY <1>1, <1>2
<1>5. Len(toServer[s]) \in Nat /\ Len(toClient[s]) \in Nat
  BY Sizes
<1>6. /\ UnderWay(s) = Len(toServer[s]) + Len(toClient[s])
      /\ UnderWay(s)' = Len(toServer[s]) + Len(toClient'[s])
  BY <1>2 DEF UnderWay
<1>7. Len(toClient[s]) = 1 => toClient'[s] = <<>>
  <2>1. toClient'[s] \in Seq(Response)
    BY <1>3
  <2>. QED BY <1>4, <2>1
<1>. DEFINE a == Len(toServer[s])
            b == Len(toClient[s])
            c == Len(toClient'[s])
<1>8. a + c \in Nat /\ (a + c) + 1 = a + b /\ a + b \in Nat
  <2>1. a \in Nat /\ b \in Nat /\ c \in Nat /\ c + 1 = b
    BY <1>4, <1>5
  <2>. HIDE DEF a, b, c
  <2>. QED BY <2>1
<1>9. UnderWay(s) \in Nat /\ UnderWay(s)' \in Nat /\ UnderWay(s)' + 1 = UnderWay(s)
  BY <1>6, <1>8
<1>. QED BY <1>2, <1>3, <1>7, <1>9

(* One socket fewer answers to read.                                        *)
LEMMA ReadsKeepsSocks ==
  ASSUME LinkInv, NEW s \in Sock, Reads(s), open' \subseteq open,
         UNCHANGED <<socks, stmtTx>>
  PROVE  \A r \in Sock : SockInv(r)'
<1>. SUFFICES ASSUME NEW r \in Sock PROVE SockInv(r)'
  OBVIOUS
<1>1. /\ UNCHANGED <<up, toServer, stream, durable>>
      /\ \A q \in Sock \ {s} : toClient'[q] = toClient[q]
      /\ UnderWay(s) \in Nat /\ UnderWay(s)' \in Nat /\ UnderWay(s)' + 1 = UnderWay(s)
  BY LinkTypes, ReadsTakes
<1>2. SockInv(r) /\ s <= socks /\ toClient[s] # <<>>
  BY LinkTypes DEF LinkInv, SockInv, Quiet, Reads
<1>3. Queued(r)' = Queued(r)
  BY <1>1 DEF Queued
<1>4. CASE r = s
  <2>1. ~(s > socks) /\ UnderWay(s)' <= 2
    BY <1>1, <1>2, <1>4, LinkTypes DEF SockInv
  <2>. QED BY <1>1, <1>2, <1>3, <1>4, <2>1 DEF SockInv
<1>5. CASE r # s
  <2>1. Quiet(r)' = Quiet(r) /\ UnderWay(r)' = UnderWay(r)
    BY <1>1, <1>5 DEF Quiet, UnderWay
  <2>. QED BY <1>1, <1>2, <1>3, <2>1 DEF SockInv
<1>. QED BY <1>4, <1>5

(* A call returns.                                                          *)
LEMMA ReturnsKeepsCall ==
  ASSUME LinkInv, Returns, acked' = acked
  PROVE  /\ CallInv' /\ HandshakeInv'
         /\ call' \in [kind: Kind, stmt: Nat, attempt: 1..Attempts, done: BOOLEAN]
         /\ tx' \in {NoTx, tx} /\ pc' = "idle" /\ UNCHANGED <<txs, stmtTx>>
<1>1. /\ pc' = "idle" /\ tx' \in {NoTx, tx} /\ UNCHANGED <<txs, stmtTx>>
      /\ call' = [kind |-> "exec", stmt |-> 0, attempt |-> 1, done |-> FALSE]
  BY DEF Returns, NoCall
<1>2. 1 \in 1..Attempts /\ "exec" \in Kind
  BY DEF Attempts, Kind
<1>3. call' \in [kind: Kind, stmt: Nat, attempt: 1..Attempts, done: BOOLEAN]
  BY <1>1, <1>2
<1>4. HandshakeInv'
  BY <1>1 DEF HandshakeInv, Handshaking
<1>5. CallInv'
  BY <1>1 DEF LinkInv, CallInv
<1>. QED BY <1>1, <1>3, <1>4, <1>5

(* The context of the call is done, or the connection is closed.            *)
LEMMA CancelKeepsLinks ==
  ASSUME LinkInv, Cancel
  PROVE  LinkInv'
<1>1. /\ call' = [call EXCEPT !.done = TRUE] /\ pc \notin Handshaking
      /\ faults' = faults + 1 /\ faults < MaxFaults
      /\ UNCHANGED <<open, up, toServer, toClient, stream, durable, socks, conn, pc>>
      /\ UNCHANGED <<tx, txs, stmtTx, asked, committed, rolledBack, acked, ran,
                     refused, doubtful, alone>>
  BY DEF Cancel, network, program, ghosts, marked, told, Handshaking
<1>2. /\ UNCHANGED <<call.kind, call.stmt, call.attempt>>
      /\ call' \in [kind: Kind, stmt: Nat, attempt: 1..Attempts, done: BOOLEAN]
  BY <1>1, LinkTypes DEF WsType
<1>3. WsType'
  <2>1. faults' \in 0..MaxFaults
    BY <1>1, LinkTypes, WsAssumption DEF WsType
  <2>. QED BY <1>1, <1>2, <2>1, LinkTypes DEF WsType
<1>4. \A s \in Sock : SockInv(s)'
  <2>1. \A s \in open' \cup up' : s <= socks'
    BY <1>1, LinkTypes DEF LinkInv, SockInv
  <2>2. socks' \in socks..MaxSocks /\ Len(stmtTx') \in Nat /\ Len(stmtTx) <= Len(stmtTx')
    BY <1>1, LinkTypes
  <2>. QED BY <1>1, <2>1, <2>2, SocksKeep
<1>5. HandshakeInv'
  BY <1>1 DEF HandshakeInv
<1>6. ConnInv'
  <2>1. Request' = Request
    BY <1>2 DEF Request
  <2>. QED BY <1>1, <2>1 DEF LinkInv, ConnInv, Quiet, Queued, UnderWay
<1>7. CallInv'
  BY <1>1, <1>2 DEF LinkInv, CallInv
<1>. QED BY <1>3, <1>4, <1>5, <1>6, <1>7 DEF LinkInv

LEMMA CloseKeepsLinks ==
  ASSUME LinkInv, Close
  PROVE  LinkInv'
<1>1. /\ pc = "idle" /\ tx = NoTx /\ open' = open \ {conn} /\ conn' = NoSock
      /\ UNCHANGED <<up, toServer, toClient, stream, durable, socks, faults, pc, call>>
      /\ UNCHANGED <<tx, txs, stmtTx, asked, committed, rolledBack, acked, ran,
                     refused, doubtful, alone>>
  BY DEF Close, network, program, ghosts, marked, told
<1>2. WsType'
  BY <1>1, LinkTypes DEF WsType
<1>3. \A s \in Sock : SockInv(s)'
  <2>1. \A s \in open' \cup up' : s <= socks'
    BY <1>1, LinkTypes DEF LinkInv, SockInv
  <2>2. socks' \in socks..MaxSocks /\ Len(stmtTx') \in Nat /\ Len(stmtTx) <= Len(stmtTx')
    BY <1>1, LinkTypes
  <2>. QED BY <1>1, <2>1, <2>2, SocksKeep
<1>4. HandshakeInv' /\ CallInv'
  BY <1>1 DEF LinkInv, HandshakeInv, Handshaking, CallInv
<1>5. ConnInv'
  BY <1>1, LinkTypes DEF LinkInv, ConnInv
<1>. QED BY <1>2, <1>3, <1>4, <1>5 DEF LinkInv

(* The handshake begins, or does not.                                       *)
LEMMA DialsKeepsLinks ==
  ASSUME LinkInv, Dials
  PROVE  LinkInv'
<1>1. /\ pc = "connect" /\ socks < MaxSocks /\ socks' = socks + 1
      /\ open' = open \cup {socks'} /\ up' = up \cup {socks'} /\ pc' = "hello"
      /\ UNCHANGED <<toServer, toClient, stream, durable, faults, conn, call>>
      /\ UNCHANGED <<tx, txs, stmtTx, asked, committed, rolledBack, acked, ran,
                     refused, doubtful, alone>>
  BY DEF Dials, program, ghosts, marked, told
<1>2. socks' \in Sock /\ socks' > socks /\ socks' \in socks..MaxSocks
  BY <1>1, LinkTypes
<1>3. WsType'
  <2>1. pc' \in Handshaking
    BY <1>1 DEF Handshaking
  <2>2. socks' \in 0..MaxSocks
    BY <1>1, LinkTypes
  <2>. QED BY <1>1, <1>2, <2>1, <2>2, LinkTypes DEF WsType
<1>4. conn = NoSock /\ open = {}
  BY <1>1, LinkTypes DEF LinkInv, ConnInv
<1>5. Quiet(socks') /\ ~stream[socks'].inTx
  BY <1>2 DEF LinkInv, SockInv
<1>6. \A s \in Sock : SockInv(s)'
  <2>1. \A s \in open' \cup up' : s <= socks'
    BY <1>1, <1>2, LinkTypes DEF LinkInv, SockInv
  <2>2. Len(stmtTx') \in Nat /\ Len(stmtTx) <= Len(stmtTx')
    BY <1>1, LinkTypes
  <2>. QED BY <1>1, <1>2, <2>1, <2>2, SocksKeep
<1>7. HandshakeInv'
  <2>1. UnderWay(Dialling)' = 0 /\ Queued(Dialling)' = {}
    BY <1>1, <1>5 DEF Quiet, UnderWay, Queued, Dialling
  <2>2. ~stream'[Dialling'].inTx /\ Dialling' \in Sock /\ open' \subseteq {Dialling'}
    BY <1>1, <1>2, <1>4, <1>5 DEF Dialling
  <2>. QED BY <1>1, <1>4, <2>1, <2>2 DEF HandshakeInv
<1>8. ConnInv'
  BY <1>1, <1>4, LinkTypes DEF LinkInv, ConnInv
<1>9. CallInv'
  BY <1>1 DEF LinkInv, CallInv
<1>. QED BY <1>3, <1>6, <1>7, <1>8, <1>9 DEF LinkInv

LEMMA DialFailsKeepsLinks ==
  ASSUME LinkInv, DialFails
  PROVE  LinkInv'
<1>1. /\ pc = "connect" /\ Returns
      /\ faults' = faults \/ (faults < MaxFaults /\ faults' = faults + 1)
      /\ UNCHANGED <<open, up, toServer, toClient, stream, durable, socks, conn>>
      /\ UNCHANGED <<asked, committed, rolledBack, acked, ran, refused, doubtful, alone>>
  BY DEF DialFails, network, ghosts, marked, told
<1>2. /\ CallInv' /\ HandshakeInv'
      /\ call' \in [kind: Kind, stmt: Nat, attempt: 1..Attempts, done: BOOLEAN]
      /\ tx' \in {NoTx, tx} /\ pc' = "idle" /\ UNCHANGED <<txs, stmtTx>>
  BY <1>1, ReturnsKeepsCall
<1>3. WsType'
  <2>1. faults' \in 0..MaxFaults
    BY <1>1, LinkTypes, WsAssumption DEF WsType
  <2>2. tx' \in 0..MaxTx
    BY <1>2, LinkTypes, WsAssumption DEF WsType, NoTx
  <2>. QED BY <1>1, <1>2, <2>1, <2>2, LinkTypes DEF WsType
<1>4. \A s \in Sock : SockInv(s)'
  <2>1. \A s \in open' \cup up' : s <= socks'
    BY <1>1, LinkTypes DEF LinkInv, SockInv
  <2>2. socks' \in socks..MaxSocks /\ Len(stmtTx') \in Nat /\ Len(stmtTx) <= Len(stmtTx')
    BY <1>1, <1>2, LinkTypes
  <2>. QED BY <1>1, <2>1, <2>2, SocksKeep
<1>5. ConnInv'
  <2>1. conn = NoSock /\ open \subseteq {NoSock} /\ tx' = NoTx
    BY <1>1, <1>2 DEF LinkInv, ConnInv
  <2>. QED BY <1>1, <1>2, <2>1, LinkTypes DEF ConnInv
<1>. QED BY <1>2, <1>3, <1>4, <1>5 DEF LinkInv

(* hello and open_stream are sent.                                          *)
LEMMA GreetsKeepsLinks ==
  ASSUME LinkInv, SendsHello \/ SendsOpenStream
  PROVE  LinkInv'
<1>1. PICK kind \in Greeting :
        /\ Sends(Dialling, kind)
        /\ \/ pc = "hello" /\ pc' = "open_stream"
           \/ pc = "open_stream" /\ pc' = "helloResp"
  BY DEF SendsHello, SendsOpenStream, Greeting
<1>2. /\ UNCHANGED <<open, up, toClient, stream, durable, socks, faults, conn, call>>
      /\ UNCHANGED <<tx, txs, stmtTx, asked, committed, rolledBack, acked, ran,
                     refused, doubtful, alone>>
  BY DEF SendsHello, SendsOpenStream, program, ghosts, marked, told
<1>3. /\ conn = NoSock /\ Dialling \in Sock /\ open \subseteq {Dialling}
      /\ ~stream[Dialling].inTx
      /\ \A m \in Queued(Dialling) : m.kind \in Greeting
      /\ pc = "hello" => UnderWay(Dialling) <= 0
      /\ pc = "open_stream" => UnderWay(Dialling) <= 1
  BY <1>1 DEF LinkInv, HandshakeInv, Handshaking
<1>4. /\ toServer' \in [Sock -> Seq(Message)]
      /\ \A r \in Sock \ {Dialling} : toServer'[r] = toServer[r]
      /\ Len(toServer'[Dialling]) <= Len(toServer[Dialling]) + 1
      /\ \A m \in Queued(Dialling)' : m \in Queued(Dialling) \/ m = Sent(kind)
  <2>1. kind \in Kind /\ WsType
    BY LinkTypes DEF Greeting, Kind
  <2>2. /\ toServer' \in [Sock -> Seq(Message)]
        /\ \A r \in Sock \ {Dialling} : toServer'[r] = toServer[r]
        /\ Len(toServer'[Dialling]) <= Len(toServer[Dialling]) + 1
    BY <1>1, <1>3, <2>1, SendsAppends
  <2>3. PICK d \in Sock : d = Dialling
    BY <1>3
  <2>4. Sends(d, kind)
    BY <1>1, <2>3
  <2>5. \A m \in Queued(d)' : m \in Queued(d) \/ m = Sent(kind)
    BY <2>1, <2>4, SendsAppends
  <2>6. Dialling' = Dialling
    BY <1>2 DEF Dialling
  <2>. QED BY <2>2, <2>3, <2>5, <2>6 DEF Queued
<1>5. WsType'
  <2>1. pc' \in Handshaking
    BY <1>1 DEF Handshaking
  <2>. QED BY <1>2, <1>4, <2>1, LinkTypes DEF WsType
<1>6. \A m \in Queued(Dialling)' : m.kind \in Greeting
  BY <1>1, <1>3, <1>4 DEF Sent
<1>7. /\ UnderWay(Dialling)' <= UnderWay(Dialling) + 1
      /\ UnderWay(Dialling)' \in Nat /\ UnderWay(Dialling) \in Nat
  <2>. DEFINE a == Len(toServer[Dialling])
              b == Len(toClient[Dialling])
              c == Len(toServer'[Dialling])
  <2>1. a \in Nat /\ b \in Nat /\ c \in Nat /\ c <= a + 1
    BY <1>3, <1>4, <1>5, LinkTypes, Sizes, SizesAfter
  <2>2. UnderWay(Dialling) = a + b /\ UnderWay(Dialling)' = c + b
    BY <1>2 DEF UnderWay, Dialling
  <2>. HIDE DEF a, b, c
  <2>. QED BY <2>1, <2>2
<1>8. \A s \in Sock : SockInv(s)'
  <2>. SUFFICES ASSUME NEW s \in Sock PROVE SockInv(s)'
    OBVIOUS
  <2>1. CASE s # Dialling
    <3>1. toServer'[s] = toServer[s] /\ SockInv(s)
      BY <1>4, <2>1 DEF LinkInv
    <3>. QED BY <1>2, <3>1 DEF SockInv, Quiet, UnderWay, Queued
  <2>2. CASE s = Dialling
    <3>1. SockInv(s) /\ ~(s > socks)
      BY <1>3, <2>2, LinkTypes DEF LinkInv, Dialling
    <3>2. Queued(s)' = Queued(Dialling)' /\ UnderWay(s)' = UnderWay(Dialling)'
      BY <1>2, <2>2 DEF Queued, UnderWay, Dialling
    <3>3. UnderWay(s)' <= 2
      BY <1>1, <1>3, <1>7, <3>2
    <3>4. \A m \in Queued(s)' : m.kind \in Greeting
      BY <1>6, <3>2
    <3>5. "exec" \notin Greeting
      BY DEF Greeting
    <3>. QED BY <1>2, <3>1, <3>3, <3>4, <3>5 DEF SockInv
  <2>. QED BY <2>1, <2>2
<1>9. HandshakeInv'
  <2>1. Dialling' = Dialling
    BY <1>2 DEF Dialling
  <2>2. pc' = "open_stream" => UnderWay(Dialling)' <= 1
    BY <1>1, <1>3, <1>7
  <2>3. pc' = "helloResp" => UnderWay(Dialling)' <= 2
    BY <1>1, <1>3, <1>7
  <2>. QED BY <1>1, <1>2, <1>3, <1>6, <2>1, <2>2, <2>3 DEF HandshakeInv
<1>10. ConnInv'
  BY <1>1, <1>2, <1>3, LinkTypes DEF LinkInv, ConnInv
<1>11. CallInv'
  BY <1>1, <1>2 DEF LinkInv, CallInv
<1>. QED BY <1>5, <1>8, <1>9, <1>10, <1>11 DEF LinkInv

(* The answers to hello and open_stream are read.                           *)
LEMMA ReadsHelloKeepsLinks ==
  ASSUME LinkInv, ReadsHello
  PROVE  LinkInv'
<1>1. PICK d \in Sock : d = Dialling
  BY DEF LinkInv, HandshakeInv, Handshaking, ReadsHello
<1>2. /\ pc = "helloResp" /\ Reads(d) /\ UNCHANGED <<socks, faults>>
      /\ UNCHANGED <<asked, committed, rolledBack, acked, ran, refused, doubtful, alone>>
      /\ \/ /\ pc' = "openStreamResp"
            /\ UNCHANGED <<conn, open, call, tx, txs, stmtTx>>
         \/ open' = open \ {d} /\ Returns /\ UNCHANGED conn
  BY <1>1 DEF ReadsHello, AfterHello, GoesOn, ClosesSocket, program, ghosts, marked, told
<1>3. /\ UNCHANGED <<up, toServer, stream, durable>>
      /\ toClient' \in [Sock -> Seq(Response)]
      /\ UnderWay(d) \in Nat /\ UnderWay(d)' \in Nat /\ UnderWay(d)' + 1 = UnderWay(d)
  BY <1>2, LinkTypes, ReadsTakes
<1>4. /\ conn = NoSock /\ open \subseteq {d} /\ ~stream[d].inTx /\ UnderWay(d) <= 2
      /\ \A m \in Queued(d) : m.kind \in Greeting
  BY <1>1, <1>2 DEF LinkInv, HandshakeInv, Handshaking
<1>5. CASE pc' = "openStreamResp" /\ UNCHANGED <<conn, open, call, tx, txs, stmtTx>>
  <2>1. WsType'
    <3>1. pc' \in Handshaking
      BY <1>5 DEF Handshaking
    <3>. QED BY <1>2, <1>3, <1>5, <3>1, LinkTypes DEF WsType
  <2>2. \A s \in Sock : SockInv(s)'
    BY <1>2, <1>5, ReadsKeepsSocks
  <2>3. HandshakeInv'
    <3>1. Dialling' = d /\ Queued(d)' = Queued(d) /\ UnderWay(d)' <= 1
      BY <1>1, <1>2, <1>3, <1>4 DEF Dialling, Queued
    <3>2. UnderWay(Dialling)' = UnderWay(d)' /\ Queued(Dialling)' = Queued(d)'
      BY <3>1 DEF UnderWay, Queued
    <3>. QED BY <1>3, <1>4, <1>5, <3>1, <3>2 DEF HandshakeInv
  <2>4. ConnInv' /\ CallInv'
    BY <1>2, <1>4, <1>5, LinkTypes DEF LinkInv, ConnInv, CallInv
  <2>. QED BY <2>1, <2>2, <2>3, <2>4 DEF LinkInv
<1>6. CASE open' = open \ {d} /\ Returns /\ UNCHANGED conn
  <2>1. /\ CallInv' /\ HandshakeInv'
        /\ call' \in [kind: Kind, stmt: Nat, attempt: 1..Attempts, done: BOOLEAN]
        /\ tx' \in {NoTx, tx} /\ pc' = "idle" /\ UNCHANGED <<txs, stmtTx>>
    BY <1>2, <1>6, ReturnsKeepsCall
  <2>2. WsType'
    <3>1. tx \in 0..MaxTx /\ MaxTx \in Nat
      BY LinkTypes, WsAssumption DEF WsType
    <3>2. tx' \in 0..MaxTx
      BY <2>1, <3>1 DEF NoTx
    <3>3. open' \in SUBSET Sock
      BY <1>6, LinkTypes
    <3>. QED BY <1>2, <1>3, <1>6, <2>1, <3>2, <3>3, LinkTypes DEF WsType
  <2>3. \A s \in Sock : SockInv(s)'
    BY <1>2, <1>6, <2>1, ReadsKeepsSocks
  <2>4. ConnInv'
    <3>1. open' = {} /\ conn' = NoSock /\ tx' = NoTx
      BY <1>4, <1>6, <2>1 DEF LinkInv, ConnInv
    <3>. QED BY <2>1, <3>1, LinkTypes DEF ConnInv
  <2>. QED BY <2>1, <2>2, <2>3, <2>4 DEF LinkInv
<1>. QED BY <1>2, <1>5, <1>6

LEMMA ReadsOpenStreamKeepsLinks ==
  ASSUME LinkInv, ReadsOpenStream
  PROVE  LinkInv'
<1>1. PICK d \in Sock : d = Dialling
  BY DEF LinkInv, HandshakeInv, Handshaking, ReadsOpenStream
<1>2. /\ pc = "openStreamResp" /\ Reads(d)
      /\ UNCHANGED <<open, socks, faults, call, tx, txs, stmtTx>>
      /\ UNCHANGED <<asked, committed, rolledBack, acked, ran, refused, doubtful, alone>>
      /\ \/ pc' = "exec" /\ conn' = d
         \/ pc' = "panic" /\ conn' = conn
  BY <1>1 DEF ReadsOpenStream, GoesOn, program, ghosts, marked, told
<1>3. /\ UNCHANGED <<up, toServer, stream, durable>>
      /\ toClient' \in [Sock -> Seq(Response)]
      /\ UnderWay(d) \in Nat /\ UnderWay(d)' \in Nat /\ UnderWay(d)' + 1 = UnderWay(d)
  BY <1>2, LinkTypes, ReadsTakes
<1>4. /\ conn = NoSock /\ open \subseteq {d} /\ UnderWay(d) <= 1 /\ tx = NoTx
  BY <1>1, <1>2 DEF LinkInv, HandshakeInv, Handshaking, ConnInv
<1>5. WsType'
  BY <1>2, <1>3, <1>4, LinkTypes DEF WsType
<1>6. Quiet(d)'
  <2>1. /\ toServer'[d] \in Seq(Message) /\ toClient'[d] \in Seq(Response)
        /\ Len(toServer'[d]) \in Nat /\ Len(toClient'[d]) \in Nat
    BY <1>5, SizesAfter DEF WsType
  <2>. DEFINE a == Len(toServer'[d])
              b == Len(toClient'[d])
  <2>2. a + b = 0
    <3>1. UnderWay(d)' = 0
      BY <1>3, <1>4
    <3>. QED BY <3>1 DEF UnderWay
  <2>3. a = 0 /\ b = 0
    <3>1. a \in Nat /\ b \in Nat
      BY <2>1
    <3>. HIDE DEF a, b
    <3>. QED BY <2>2, <3>1
  <2>. QED BY <2>1, <2>3 DEF Quiet
<1>7. \A s \in Sock : SockInv(s)'
  BY <1>2, ReadsKeepsSocks
<1>8. HandshakeInv' /\ CallInv'
  BY <1>2 DEF LinkInv, HandshakeInv, Handshaking, CallInv
<1>9. ConnInv'
  <2>1. CASE pc' = "exec" /\ conn' = d
    <3>1. /\ conn' # NoSock /\ open' \subseteq {conn'}
          /\ Quiet(conn)' /\ (conn' \in Sock \ open' => Queued(conn)' = {} /\ UnderWay(conn)' <= 1)
      BY <1>2, <1>3, <1>4, <1>6, <2>1, LinkTypes DEF Quiet, Queued, UnderWay
    <3>. QED BY <2>1, <3>1 DEF ConnInv
  <2>2. CASE pc' = "panic" /\ conn' = conn
    BY <1>2, <1>4, <2>2, LinkTypes DEF ConnInv
  <2>. QED BY <1>2, <2>1, <2>2
<1>. QED BY <1>5, <1>7, <1>8, <1>9 DEF LinkInv

LEMMA HandshakeFailsKeepsLinks ==
  ASSUME LinkInv, HandshakeFails
  PROVE  LinkInv'
<1>1. /\ pc \in Handshaking /\ Returns /\ open' = open \ {Dialling}
      /\ UNCHANGED <<up, toServer, toClient, stream, durable, socks, faults, conn>>
      /\ UNCHANGED <<asked, committed, rolledBack, acked, ran, refused, doubtful, alone>>
  BY DEF HandshakeFails, Handshaking, network, ghosts, marked, told
<1>2. /\ CallInv' /\ HandshakeInv'
      /\ call' \in [kind: Kind, stmt: Nat, attempt: 1..Attempts, done: BOOLEAN]
      /\ tx' \in {NoTx, tx} /\ pc' = "idle" /\ UNCHANGED <<txs, stmtTx>>
  BY <1>1, ReturnsKeepsCall
<1>3. open' = {} /\ conn' = NoSock /\ tx' = NoTx
  BY <1>1, <1>2 DEF LinkInv, HandshakeInv, ConnInv
<1>4. WsType'
  <2>1. tx' \in 0..MaxTx /\ open' \in SUBSET Sock
    BY <1>3, WsAssumption DEF NoTx
  <2>. QED BY <1>1, <1>2, <2>1, LinkTypes DEF WsType
<1>5. \A s \in Sock : SockInv(s)'
  <2>1. \A s \in open' \cup up' : s <= socks'
    BY <1>1, LinkTypes DEF LinkInv, SockInv
  <2>2. socks' \in socks..MaxSocks /\ Len(stmtTx') \in Nat /\ Len(stmtTx) <= Len(stmtTx')
    BY <1>1, <1>2, LinkTypes
  <2>. QED BY <1>1, <2>1, <2>2, SocksKeep
<1>6. ConnInv'
  BY <1>2, <1>3, LinkTypes DEF ConnInv
<1>. QED BY <1>2, <1>4, <1>5, <1>6 DEF LinkInv

(* exec sends its request.                                                  *)
LEMMA WritesKeepsLinks ==
  ASSUME LinkInv, Writes
  PROVE  LinkInv'
<1>1. PICK c \in Sock : c = conn
  BY LinkTypes DEF Writes
<1>2. /\ pc = "exec" /\ c \in open /\ Sends(c, call.kind) /\ pc' = "resp"
      /\ asked' = IF call.kind = "commit" THEN asked \cup {tx} ELSE asked
      /\ doubtful' \in {doubtful, doubtful \cup {call.stmt}}
      /\ doubtful' = doubtful \/ call.kind = "exec"
      /\ UNCHANGED <<open, up, toClient, stream, durable, socks, faults, conn, call>>
      /\ UNCHANGED <<tx, txs, stmtTx, committed, rolledBack, acked, ran, refused, alone>>
  BY <1>1 DEF Writes, program
<1>3. Quiet(c)
  BY <1>1, <1>2 DEF LinkInv, ConnInv
<1>4. call.kind \in Kind /\ Sent(call.kind) = Request
  BY LinkTypes DEF WsType, Sent, Request
<1>5. /\ toServer' \in [Sock -> Seq(Message)]
      /\ \A r \in Sock \ {c} : toServer'[r] = toServer[r]
      /\ toServer'[c] \in {<<>>, <<Request>>}
  BY <1>2, <1>3, <1>4, LinkTypes, SendsAppends DEF Quiet
<1>6. /\ call.kind = "exec" => /\ call.stmt \in 1..Len(stmtTx) /\ call.stmt \in Stmt
                               /\ call.attempt \in 1..Attempts
      /\ call.kind = "commit" => tx \in 1..MaxTx
  <2>1. /\ call.kind = "exec" => call.stmt = Len(stmtTx) /\ call.stmt # 0
        /\ call.kind = "commit" => tx # NoTx
    BY <1>2 DEF LinkInv, CallInv
  <2>2. /\ tx \in 0..MaxTx /\ Len(stmtTx) <= MaxStmts /\ MaxStmts \in Nat /\ MaxTx \in Nat
        /\ Len(stmtTx) \in Nat /\ call.attempt \in 1..Attempts
    BY LinkTypes, WsAssumption DEF WsType
  <2>. QED BY <2>1, <2>2 DEF Stmt, NoTx
<1>7. WsType'
  <2>1. asked' \subseteq 1..MaxTx /\ committed' \subseteq asked' /\ doubtful' \subseteq Stmt
    BY <1>2, <1>6, LinkTypes DEF WsType
  <2>. QED BY <1>2, <1>5, <2>1, LinkTypes DEF WsType
<1>8. \A s \in Sock : SockInv(s)'
  <2>. SUFFICES ASSUME NEW s \in Sock PROVE SockInv(s)'
    OBVIOUS
  <2>1. CASE s # c
    <3>1. toServer'[s] = toServer[s] /\ SockInv(s)
      BY <1>5, <2>1 DEF LinkInv
    <3>. QED BY <1>2, <3>1 DEF SockInv, Quiet, UnderWay, Queued
  <2>2. CASE s = c
    <3>1. SockInv(s) /\ ~(s > socks)
      BY <1>2, <2>2, LinkTypes DEF LinkInv, SockInv
    <3>2. toServer'[s] \in {<<>>, <<Request>>} /\ toClient'[s] = <<>>
      BY <1>2, <1>3, <1>5, <2>2 DEF Quiet
    <3>3. /\ UnderWay(s)' <= 2 /\ Len(toServer'[s]) <= 1
          /\ \A m \in Queued(s)' : m = Request /\ Len(toServer'[s]) = 1
      <4>1. CASE toServer'[s] = <<>>
        BY <3>2, <4>1 DEF UnderWay, Queued
      <4>2. CASE toServer'[s] = <<Request>>
        BY <3>2, <4>2 DEF UnderWay, Queued
      <4>. QED BY <3>2, <4>1, <4>2
    <3>4. Request.kind = call.kind /\ Request.stmt = call.stmt /\ Request.attempt = call.attempt
      BY DEF Request
    <3>. QED BY <1>2, <1>6, <3>1, <3>3, <3>4 DEF SockInv
  <2>. QED BY <2>1, <2>2
<1>9. HandshakeInv'
  BY <1>2 DEF HandshakeInv, Handshaking
<1>10. ConnInv'
  <2>1. Request' = Request
    BY <1>2 DEF Request
  <2>2. toServer'[c] \in {<<>>, <<Request>>} /\ toClient'[c] = <<>>
    BY <1>2, <1>3, <1>5 DEF Quiet
  <2>. QED BY <1>1, <1>2, <2>1, <2>2 DEF LinkInv, ConnInv, Quiet
<1>11. CallInv'
  BY <1>2 DEF LinkInv, CallInv
<1>. QED BY <1>7, <1>8, <1>9, <1>10, <1>11 DEF LinkInv

(* exec returns ErrBadConn.                                                 *)
LEMMA BadConnFacts ==
  ASSUME LinkInv, BadConn, pc \in {"exec", "resp"}, acked' = acked
  PROVE  /\ CallInv' /\ HandshakeInv'
         /\ call' \in [kind: Kind, stmt: Nat, attempt: 1..Attempts, done: BOOLEAN]
         /\ tx' \in 0..MaxTx /\ UNCHANGED <<txs, stmtTx>>
         /\ pc' \in {"idle", "connect"}
         /\ \/ conn' = NoSock /\ tx' = NoTx
            \/ /\ conn' = conn /\ tx' = tx /\ tx # NoTx
               /\ pc' = "idle" /\ call.kind = "exec"
<1>1. /\ call \in [kind: Kind, stmt: Nat, attempt: 1..Attempts, done: BOOLEAN]
      /\ tx \in 0..MaxTx /\ MaxTx \in Nat
  BY LinkTypes, WsAssumption DEF WsType
<1>2. /\ call.kind = "begin" => tx = NoTx
      /\ call.kind \in {"exec", "begin", "commit", "rollback"}
  BY DEF LinkInv, CallInv
<1>3. \/ conn' = conn /\ tx # NoTx /\ call.kind = "exec"
      \/ conn' = NoSock /\ ~(tx # NoTx /\ call.kind = "exec")
  BY DEF BadConn
<1>4. CASE Retries
  <2>1. /\ pc' = "connect" /\ call' = [call EXCEPT !.attempt = @ + 1]
        /\ UNCHANGED <<tx, txs, stmtTx>> /\ tx = NoTx /\ call.attempt < Attempts
    BY <1>4 DEF BadConn, Retries, program
  <2>2. call.attempt + 1 \in 1..Attempts
    BY <1>1, <2>1 DEF Attempts
  <2>3. /\ call' \in [kind: Kind, stmt: Nat, attempt: 1..Attempts, done: BOOLEAN]
        /\ call'.kind = call.kind /\ call'.stmt = call.stmt
    BY <1>1, <2>1, <2>2
  <2>4. CallInv'
    BY <2>1, <2>3 DEF LinkInv, CallInv
  <2>5. HandshakeInv'
    BY <2>1 DEF HandshakeInv, Handshaking
  <2>. QED BY <1>1, <1>3, <2>1, <2>3, <2>4, <2>5
<1>5. CASE ~Retries
  <2>1. Returns
    BY <1>5 DEF BadConn
  <2>2. /\ CallInv' /\ HandshakeInv'
        /\ call' \in [kind: Kind, stmt: Nat, attempt: 1..Attempts, done: BOOLEAN]
        /\ tx' \in {NoTx, tx} /\ pc' = "idle" /\ UNCHANGED <<txs, stmtTx>>
    BY <2>1, ReturnsKeepsCall
  <2>3. tx' = IF call.kind \in {"commit", "rollback"} THEN NoTx ELSE tx
    BY <2>1 DEF Returns
  <2>4. tx' \in 0..MaxTx
    BY <1>1, <2>2 DEF NoTx
  <2>. QED BY <1>2, <1>3, <2>2, <2>3, <2>4
<1>. QED BY <1>4, <1>5

LEMMA FailuresKeepLinks ==
  ASSUME LinkInv, WriteFails \/ ReadFails
  PROVE  LinkInv'
<1>1. /\ pc \in {"exec", "resp"} /\ BadConn
      /\ open' = open \ {conn} \/ (pc = "exec" /\ conn' = conn /\ open' = open)
      /\ UNCHANGED <<up, toServer, toClient, stream, durable, socks, faults>>
      /\ UNCHANGED <<asked, committed, rolledBack, acked, ran, refused, doubtful, alone>>
  BY DEF WriteFails, ReadFails, network, ghosts, marked, told
<1>2. /\ CallInv' /\ HandshakeInv'
      /\ call' \in [kind: Kind, stmt: Nat, attempt: 1..Attempts, done: BOOLEAN]
      /\ tx' \in 0..MaxTx /\ UNCHANGED <<txs, stmtTx>>
      /\ pc' \in {"idle", "connect"}
      /\ \/ conn' = NoSock /\ tx' = NoTx
         \/ /\ conn' = conn /\ tx' = tx /\ tx # NoTx
            /\ pc' = "idle" /\ call.kind = "exec"
  BY <1>1, BadConnFacts
<1>3. open \subseteq {conn} /\ conn \in Sock
  BY <1>1, LinkTypes DEF LinkInv, ConnInv, WsType
<1>4. WsType'
  <2>1. open' \in SUBSET Sock /\ conn' \in Sock \cup {NoSock}
    BY <1>1, <1>2, <1>3, LinkTypes
  <2>. QED BY <1>1, <1>2, <2>1, LinkTypes DEF WsType
<1>5. \A s \in Sock : SockInv(s)'
  <2>1. \A s \in open' \cup up' : s <= socks'
    BY <1>1, LinkTypes DEF LinkInv, SockInv
  <2>2. socks' \in socks..MaxSocks /\ Len(stmtTx') \in Nat /\ Len(stmtTx) <= Len(stmtTx')
    BY <1>1, <1>2, LinkTypes
  <2>. QED BY <1>1, <2>1, <2>2, SocksKeep
<1>6. ConnInv'
  <2>1. CASE conn' = NoSock /\ tx' = NoTx
    <3>1. open' = {}
      BY <1>1, <1>3, <2>1, LinkTypes
    <3>. QED BY <1>2, <2>1, <3>1, LinkTypes DEF ConnInv
  <2>2. CASE conn' = conn /\ tx' = tx /\ tx # NoTx /\ pc' = "idle" /\ call.kind = "exec"
    <3>1. open' \subseteq {conn} /\ (conn \in open' => conn \in open /\ pc = "exec")
      BY <1>1, <1>3
    <3>2. conn \in open => UnderWay(conn) <= 1 /\ \A m \in Queued(conn) : m.kind = "exec"
      <4>1. CASE Quiet(conn)
        BY <4>1 DEF Quiet, UnderWay, Queued
      <4>2. CASE toServer[conn] = <<Request>> /\ toClient[conn] = <<>>
        BY <2>2, <4>2 DEF UnderWay, Queued, Request
      <4>3. CASE /\ toServer[conn] = <<>>
                 /\ \E ok \in BOOLEAN : toClient[conn] = <<[of |-> Request, ok |-> ok]>>
        BY <4>3 DEF UnderWay, Queued
      <4>. QED BY <1>1, <4>1, <4>2, <4>3 DEF LinkInv, ConnInv
    <3>3. /\ Quiet(conn)' = Quiet(conn) /\ UnderWay(conn)' = UnderWay(conn)
          /\ Queued(conn)' = Queued(conn)
      BY <1>1, <2>2 DEF Quiet, UnderWay, Queued
    <3>4. conn \in Sock \ open => UnderWay(conn) <= 1 /\ \A m \in Queued(conn) : m.kind = "exec"
      BY DEF LinkInv, ConnInv
    <3>5. conn \in open /\ pc = "exec" => Quiet(conn)
      BY DEF LinkInv, ConnInv
    <3>. QED BY <1>3, <2>2, <3>1, <3>2, <3>3, <3>4, <3>5, LinkTypes DEF ConnInv
  <2>. QED BY <1>2, <2>1, <2>2
<1>. QED BY <1>2, <1>4, <1>5, <1>6 DEF LinkInv

(* An answer that is read is the call's, and nothing is left behind it.     *)
LEMMA ResponseFacts ==
  ASSUME LinkInv, ReadsResponse
  PROVE  /\ conn \in Sock /\ conn \in open /\ Reads(conn)
         /\ toServer[conn] = <<>>
         /\ \E ok \in BOOLEAN : toClient[conn] = <<[of |-> Request, ok |-> ok]>>
         /\ Head(toClient[conn]).ok \in BOOLEAN
         /\ Quiet(conn)'
         /\ UNCHANGED <<open, up, toServer, stream, durable, socks, faults, conn, txs,
                        stmtTx, asked, ran, refused, doubtful, alone>>
<1>1. pc = "resp" /\ Reads(conn) /\ toClient[conn] # <<>>
  BY DEF ReadsResponse, Reads
<1>2. conn \in Sock /\ conn \in open
  BY <1>1, LinkTypes DEF LinkInv, ConnInv
<1>3. /\ toServer[conn] = <<>>
      /\ \E ok \in BOOLEAN : toClient[conn] = <<[of |-> Request, ok |-> ok]>>
  BY <1>1 DEF LinkInv, ConnInv, Quiet
<1>4. Len(toClient[conn]) = 1 /\ Head(toClient[conn]).ok \in BOOLEAN
  BY <1>3
<1>5. toClient'[conn] = <<>> /\ UNCHANGED <<up, toServer, stream, durable>>
  BY <1>1, <1>2, <1>4, LinkTypes, ReadsTakes
<1>6. UNCHANGED <<open, socks, faults, conn, txs, stmtTx, asked, ran, refused, doubtful, alone>>
  BY DEF ReadsResponse, marked
<1>. QED BY <1>1, <1>2, <1>3, <1>4, <1>5, <1>6 DEF Quiet

LEMMA ResponseKeepsLinks ==
  ASSUME LinkInv, ReadsResponse
  PROVE  LinkInv'
<1>1. /\ conn \in Sock /\ conn \in open /\ Reads(conn) /\ Quiet(conn)'
      /\ UNCHANGED <<open, up, toServer, stream, durable, socks, faults, conn, txs,
                     stmtTx, asked, ran, refused, doubtful, alone>>
  BY ResponseFacts
<1>2. /\ pc = "resp" /\ pc' = "idle"
      /\ call' = [kind |-> "exec", stmt |-> 0, attempt |-> 1, done |-> FALSE]
      /\ tx' \in {NoTx, tx, txs}
      /\ acked' = acked \/ (call.kind = "exec" /\ acked' = acked \cup {call.stmt})
      /\ committed' = committed \/ (call.kind = "commit" /\ committed' = committed \cup {tx})
      /\ rolledBack' = rolledBack \/ (call.kind = "rollback" /\ rolledBack' = rolledBack \cup {tx})
  BY DEF ReadsResponse, Tells, NoCall
<1>3. /\ call.kind = "exec" => call.stmt \in 1..Len(stmtTx) /\ call.stmt \in Stmt
      /\ call.kind = "commit" => tx \in asked
      /\ call.kind = "rollback" => tx \in 1..MaxTx
  <2>1. /\ call.kind = "exec" => call.stmt = Len(stmtTx) /\ call.stmt # 0
        /\ call.kind = "commit" => tx \in asked
        /\ call.kind = "rollback" => tx # NoTx
    BY <1>2 DEF LinkInv, CallInv
  <2>2. /\ tx \in 0..MaxTx /\ Len(stmtTx) <= MaxStmts /\ MaxStmts \in Nat /\ MaxTx \in Nat
        /\ Len(stmtTx) \in Nat
    BY LinkTypes, WsAssumption DEF WsType
  <2>. QED BY <2>1, <2>2 DEF Stmt, NoTx
<1>4. WsType'
  <2>1. toClient' \in [Sock -> Seq(Response)]
    BY <1>1, LinkTypes, ReadsTakes
  <2>2. call' \in [kind: Kind, stmt: Nat, attempt: 1..Attempts, done: BOOLEAN]
    BY <1>2 DEF Kind, Attempts
  <2>3. acked' \subseteq Stmt /\ committed' \subseteq asked /\ rolledBack' \subseteq 1..MaxTx
    BY <1>2, <1>3, LinkTypes DEF WsType
  <2>4. tx' \in 0..MaxTx
    BY <1>2, LinkTypes, WsAssumption DEF WsType, NoTx
  <2>. QED BY <1>1, <1>2, <2>1, <2>2, <2>3, <2>4, LinkTypes DEF WsType
<1>5. \A s \in Sock : SockInv(s)'
  BY <1>1, ReadsKeepsSocks
<1>6. HandshakeInv'
  BY <1>2 DEF HandshakeInv, Handshaking
<1>7. ConnInv'
  BY <1>1, <1>2, LinkTypes DEF LinkInv, ConnInv
<1>8. CallInv'
  BY <1>1, <1>2, <1>3 DEF LinkInv, CallInv
<1>. QED BY <1>4, <1>5, <1>6, <1>7, <1>8 DEF LinkInv

(* A socket breaks, or the server sees its end.                             *)
LEMMA EndsKeepsLinks ==
  ASSUME LinkInv, NEW s \in Sock, Ends(s)
  PROVE  LinkInv'
<1>1. /\ toServer' = [toServer EXCEPT ![s] = <<>>]
      /\ stream' = [stream EXCEPT ![s] = [state |-> "gone", inTx |-> FALSE, pending |-> {}]]
      /\ toServer[s] # <<>> \/ stream[s].inTx
      /\ UNCHANGED <<open, up, toClient, durable, socks, faults, conn, pc, call>>
      /\ UNCHANGED <<tx, txs, stmtTx, asked, committed, rolledBack, acked, ran,
                     refused, doubtful, alone>>
  BY DEF Ends, program, ghosts, marked, told
<1>2. /\ toServer' \in [Sock -> Seq(Message)] /\ toServer'[s] = <<>>
      /\ \A r \in Sock \ {s} : toServer'[r] = toServer[r] /\ stream'[r] = stream[r]
      /\ stream'[s] = [state |-> "gone", inTx |-> FALSE, pending |-> {}]
      /\ stream' \in [Sock -> [state: {"new", "greeted", "open", "gone"},
                               inTx: BOOLEAN, pending: SUBSET Stmt]]
  BY <1>1, LinkTypes DEF WsType
<1>3. WsType'
  BY <1>1, <1>2, LinkTypes DEF WsType
<1>4. /\ Queued(s)' = {} /\ UnderWay(s)' \in Nat /\ UnderWay(s) \in Nat
      /\ UnderWay(s)' <= UnderWay(s)
  <2>. DEFINE a == Len(toServer[s])
              b == Len(toClient[s])
  <2>1. a \in Nat /\ b \in Nat
    BY LinkTypes, Sizes
  <2>2. UnderWay(s) = a + b /\ UnderWay(s)' = 0 + b
    BY <1>1, <1>2 DEF UnderWay
  <2>3. Queued(s)' = {}
    BY <1>2 DEF Queued
  <2>. HIDE DEF a, b
  <2>. QED BY <2>1, <2>2, <2>3
<1>5. ASSUME NEW r \in Sock
      PROVE  Queued(r)' \subseteq Queued(r) /\ UnderWay(r)' <= UnderWay(r) /\ UnderWay(r) \in Nat
             /\ UnderWay(r)' \in Nat
  <2>1. CASE r = s
    BY <1>4, <2>1
  <2>2. CASE r # s
    <3>1. Queued(r)' = Queued(r) /\ UnderWay(r)' = UnderWay(r)
      BY <1>1, <1>2, <2>2 DEF Queued, UnderWay
    <3>2. UnderWay(r) \in Nat
      BY LinkTypes, Sizes
    <3>. QED BY <3>1, <3>2
  <2>. QED BY <2>1, <2>2
<1>6. \A r \in Sock : SockInv(r)'
  <2>. SUFFICES ASSUME NEW r \in Sock PROVE SockInv(r)'
    OBVIOUS
  <2>1. SockInv(r)
    BY DEF LinkInv
  <2>2. CASE r = s
    <3>1. ~(s > socks)
      BY <1>1, <2>1, <2>2 DEF SockInv, Quiet
    <3>. QED BY <1>1, <1>2, <1>4, <2>1, <2>2, <3>1 DEF SockInv
  <2>3. CASE r # s
    BY <1>1, <1>2, <2>1, <2>3 DEF SockInv, Quiet, UnderWay, Queued
  <2>. QED BY <2>2, <2>3
<1>7. HandshakeInv'
  <2>. SUFFICES ASSUME pc \in Handshaking PROVE HandshakeInv'
    BY <1>1 DEF HandshakeInv
  <2>1. PICK d \in Sock : d = Dialling
    BY DEF LinkInv, HandshakeInv
  <2>2. /\ conn = NoSock /\ open \subseteq {d} /\ ~stream[d].inTx
        /\ \A m \in Queued(d) : m.kind \in Greeting
        /\ UnderWay(d) <= CASE pc = "hello" -> 0
                            [] pc = "helloResp" -> 2
                            [] OTHER -> 1
    BY <2>1 DEF LinkInv, HandshakeInv
  <2>3. Dialling' = d /\ Queued(Dialling)' = Queued(d)' /\ UnderWay(Dialling)' = UnderWay(d)'
    BY <1>1, <2>1 DEF Dialling, Queued, UnderWay
  <2>4. ~stream'[d].inTx
    BY <1>2, <2>2
  <2>5. UnderWay(d)' <= CASE pc = "hello" -> 0
                          [] pc = "helloResp" -> 2
                          [] OTHER -> 1
    BY <1>5, <2>2
  <2>. QED BY <1>1, <1>5, <2>2, <2>3, <2>4, <2>5 DEF HandshakeInv
<1>8. ConnInv'
  <2>1. conn = NoSock \/ conn \in Sock
    BY LinkTypes DEF WsType
  <2>2. conn \in Sock =>
          /\ toServer'[conn] \in {<<>>, toServer[conn]}
          /\ Queued(conn)' \subseteq Queued(conn)
          /\ UnderWay(conn)' <= UnderWay(conn)
          /\ UnderWay(conn) \in Nat /\ UnderWay(conn)' \in Nat
    <3>. SUFFICES ASSUME NEW c \in Sock, c = conn
                  PROVE  /\ toServer'[c] \in {<<>>, toServer[c]}
                         /\ Queued(c)' \subseteq Queued(c)
                         /\ UnderWay(c)' <= UnderWay(c)
                         /\ UnderWay(c) \in Nat /\ UnderWay(c)' \in Nat
      BY <1>1 DEF Queued, UnderWay
    <3>. QED BY <1>2, <1>5
  <2>3. Request' = Request
    BY <1>1 DEF Request
  <2>4. UnderWay(conn) <= 1 /\ conn \in Sock => UnderWay(conn)' <= 1
    BY <2>2
  <2>. QED BY <1>1, <2>1, <2>2, <2>3, <2>4, LinkTypes DEF LinkInv, ConnInv, Quiet
<1>9. CallInv'
  BY <1>1 DEF LinkInv, CallInv
<1>. QED BY <1>3, <1>6, <1>7, <1>8, <1>9 DEF LinkInv

LEMMA BreaksKeepsLinks ==
  ASSUME LinkInv, NEW s \in Sock, Breaks(s)
  PROVE  LinkInv'
<1>1. /\ up' = up \ {s} /\ s \in open /\ faults < MaxFaults /\ faults' = faults + 1
      /\ toClient' \in {toClient, [toClient EXCEPT ![s] = <<>>]}
      /\ UNCHANGED <<open, toServer, stream, durable, socks, conn, pc, call>>
      /\ UNCHANGED <<tx, txs, stmtTx, asked, committed, rolledBack, acked, ran,
                     refused, doubtful, alone>>
  BY DEF Breaks, program, ghosts, marked, told
<1>2. /\ toClient' \in [Sock -> Seq(Response)]
      /\ \A r \in Sock : toClient'[r] \in {<<>>, toClient[r]}
  <2>1. toClient \in [Sock -> Seq(Response)] /\ <<>> \in Seq(Response)
    BY LinkTypes DEF WsType
  <2>2. \/ toClient' = toClient
        \/ toClient' = [toClient EXCEPT ![s] = <<>>]
    BY <1>1
  <2>. QED BY <2>1, <2>2
<1>3. WsType'
  <2>1. faults' \in 0..MaxFaults
    BY <1>1, LinkTypes, WsAssumption DEF WsType
  <2>. QED BY <1>1, <1>2, <2>1, LinkTypes DEF WsType
<1>4. ASSUME NEW r \in Sock
      PROVE  /\ Queued(r)' = Queued(r) /\ UnderWay(r)' <= UnderWay(r)
             /\ UnderWay(r) \in Nat /\ UnderWay(r)' \in Nat
  <2>. DEFINE a == Len(toServer[r])
              b == Len(toClient[r])
              c == Len(toClient'[r])
  <2>1. a \in Nat /\ b \in Nat /\ c \in {0, b}
    BY <1>2, LinkTypes, Sizes
  <2>2. UnderWay(r) = a + b /\ UnderWay(r)' = a + c
    BY <1>1 DEF UnderWay
  <2>3. Queued(r)' = Queued(r)
    BY <1>1 DEF Queued
  <2>. HIDE DEF a, b, c
  <2>. QED BY <2>1, <2>2, <2>3
<1>5. \A r \in Sock : SockInv(r)'
  <2>. SUFFICES ASSUME NEW r \in Sock PROVE SockInv(r)'
    OBVIOUS
  <2>1. SockInv(r) /\ (Quiet(r) => Quiet(r)')
    BY <1>1, <1>2 DEF LinkInv, Quiet
  <2>2. UnderWay(r)' <= 2
    BY <1>4, <2>1 DEF SockInv
  <2>. QED BY <1>1, <1>4, <2>1, <2>2 DEF SockInv
<1>6. HandshakeInv'
  <2>. SUFFICES ASSUME pc \in Handshaking PROVE HandshakeInv'
    BY <1>1 DEF HandshakeInv
  <2>1. PICK d \in Sock : d = Dialling
    BY DEF LinkInv, HandshakeInv
  <2>2. /\ conn = NoSock /\ open \subseteq {d} /\ ~stream[d].inTx
        /\ \A m \in Queued(d) : m.kind \in Greeting
        /\ UnderWay(d) <= CASE pc = "hello" -> 0
                            [] pc = "helloResp" -> 2
                            [] OTHER -> 1
    BY <2>1 DEF LinkInv, HandshakeInv
  <2>3. Dialling' = d /\ Queued(Dialling)' = Queued(d)' /\ UnderWay(Dialling)' = UnderWay(d)'
    BY <1>1, <2>1 DEF Dialling, Queued, UnderWay
  <2>4. UnderWay(d)' <= CASE pc = "hello" -> 0
                          [] pc = "helloResp" -> 2
                          [] OTHER -> 1
    BY <1>4, <2>2
  <2>. QED BY <1>1, <1>4, <2>2, <2>3, <2>4 DEF HandshakeInv
<1>7. ConnInv'
  <2>1. conn \in Sock =>
          /\ toServer'[conn] = toServer[conn]
          /\ toClient'[conn] \in {<<>>, toClient[conn]}
          /\ Queued(conn)' = Queued(conn) /\ UnderWay(conn)' <= UnderWay(conn)
          /\ UnderWay(conn) \in Nat /\ UnderWay(conn)' \in Nat
    <3>. SUFFICES ASSUME NEW c \in Sock, c = conn
                  PROVE  /\ toServer'[c] = toServer[c]
                         /\ toClient'[c] \in {<<>>, toClient[c]}
                         /\ Queued(c)' = Queued(c) /\ UnderWay(c)' <= UnderWay(c)
                         /\ UnderWay(c) \in Nat /\ UnderWay(c)' \in Nat
      BY <1>1 DEF Queued, UnderWay
    <3>. QED BY <1>1, <1>2, <1>4
  <2>2. Request' = Request
    BY <1>1 DEF Request
  <2>3. UnderWay(conn) <= 1 /\ conn \in Sock => UnderWay(conn)' <= 1
    BY <2>1
  <2>. QED BY <1>1, <2>1, <2>2, <2>3, LinkTypes DEF LinkInv, ConnInv, Quiet
<1>8. CallInv'
  BY <1>1 DEF LinkInv, CallInv
<1>. QED BY <1>3, <1>5, <1>6, <1>7, <1>8 DEF LinkInv

(* The server takes a message.                                              *)
LEMMA ServerKeepsLinks ==
  ASSUME LinkInv, NEW s \in Sock,
         \/ ServesHello(s) \/ ServesOpenStream(s) \/ Executes(s)
         \/ FailsToExecute(s) \/ FailsAndRollsBack(s)
  PROVE  LinkInv'
<1>1. /\ WsType /\ toServer[s] # <<>>
      /\ stream[s] \in [state: {"new", "greeted", "open", "gone"},
                        inTx: BOOLEAN, pending: SUBSET Stmt]
      /\ stream[s].inTx => stream[s].state = "open"
      /\ ~stream[s].inTx => stream[s].pending = {}
      /\ durable \subseteq Stmt /\ ran \subseteq Stmt \X (1..Attempts) /\ refused \subseteq Sock
  BY LinkTypes DEF LinkInv, SockInv, WsType, ServesHello, ServesOpenStream, Executes,
                   FailsToExecute, FailsAndRollsBack, Asks
<1>. DEFINE m == Head(toServer[s])
<1>2. m \in Queued(s) /\ m \in Message
  BY <1>1 DEF WsType, Queued
<1>3. m.kind = "exec" => m.stmt \in Stmt /\ <<m.stmt, m.attempt>> \in Stmt \X (1..Attempts)
  <2>1. m.kind = "exec" => m.stmt \in 1..Len(stmtTx) /\ m.attempt \in 1..Attempts
    BY <1>2 DEF LinkInv, SockInv
  <2>2. Len(stmtTx) \in Nat /\ Len(stmtTx) <= MaxStmts /\ MaxStmts \in Nat
    BY LinkTypes, WsAssumption DEF WsType
  <2>. QED BY <2>1, <2>2 DEF Stmt
<1>. HIDE DEF m
<1>4. CASE ServesHello(s)
  <2>1. \E ok \in BOOLEAN, state \in {"greeted", "gone"} :
          Served(s, [stream[s] EXCEPT !.state = state], ok)
    BY <1>4 DEF ServesHello
  <2>2. PICK ok \in BOOLEAN, state \in {"greeted", "gone"} :
          Served(s, [stream[s] EXCEPT !.state = state], ok)
    BY <2>1
  <2>3. stream[s].state = "new" /\ UNCHANGED <<durable, ran, refused>>
    BY <1>4 DEF ServesHello
  <2>. DEFINE st == [stream[s] EXCEPT !.state = state]
  <2>4. /\ st \in [state: {"new", "greeted", "open", "gone"},
                   inTx: BOOLEAN, pending: SUBSET Stmt]
        /\ ~st.inTx /\ st.pending = {}
    BY <1>1, <2>3
  <2>5. Served(s, st, ok)
    BY <2>2
  <2>. HIDE DEF st
  <2>. QED BY <1>1, <2>3, <2>4, <2>5, ServedKeepsLinks
<1>5. CASE ServesOpenStream(s)
  <2>1. PICK ok \in BOOLEAN, state \in {"greeted", "open"} :
          Served(s, [stream[s] EXCEPT !.state = state], ok)
    <3>1. stream[s].state = "greeted" => stream[s] = [stream[s] EXCEPT !.state = "greeted"]
      BY <1>1
    <3>. QED BY <1>5, <3>1 DEF ServesOpenStream
  <2>2. stream[s].state = "greeted" /\ UNCHANGED <<durable, ran, refused>>
    BY <1>5 DEF ServesOpenStream
  <2>. DEFINE st == [stream[s] EXCEPT !.state = state]
  <2>3. /\ st \in [state: {"new", "greeted", "open", "gone"},
                   inTx: BOOLEAN, pending: SUBSET Stmt]
        /\ ~st.inTx /\ st.pending = {}
    BY <1>1, <2>2
  <2>4. Served(s, st, ok)
    BY <2>1
  <2>. HIDE DEF st
  <2>. QED BY <1>1, <2>2, <2>3, <2>4, ServedKeepsLinks
<1>6. CASE Executes(s)
  <2>1. /\ stream[s].state = "open"
        /\ \/ /\ m.kind = "exec" /\ stream[s].inTx
              /\ Served(s, [stream[s] EXCEPT !.pending = @ \cup {m.stmt}], TRUE)
              /\ Ran(m) /\ UNCHANGED <<durable, refused>>
           \/ /\ m.kind = "exec" /\ ~stream[s].inTx
              /\ Served(s, stream[s], TRUE)
              /\ durable' = durable \cup {m.stmt}
              /\ Ran(m) /\ UNCHANGED refused
           \/ /\ m.kind = "begin" /\ ~stream[s].inTx
              /\ Served(s, [stream[s] EXCEPT !.inTx = TRUE], TRUE)
              /\ UNCHANGED <<durable, ran, refused>>
           \/ /\ m.kind \in {"commit", "rollback"} /\ stream[s].inTx
              /\ Served(s, [stream[s] EXCEPT !.inTx = FALSE, !.pending = {}], TRUE)
              /\ durable' \in {durable, durable \cup stream[s].pending}
              /\ UNCHANGED <<ran, refused>>
    BY <1>6 DEF Executes, m
  <2>2. PICK st : /\ Served(s, st, TRUE)
                  /\ st \in [state: {"new", "greeted", "open", "gone"},
                             inTx: BOOLEAN, pending: SUBSET Stmt]
                  /\ st.inTx => st.state = "open" /\ m.kind \notin Greeting
                  /\ ~st.inTx => st.pending = {}
    <3>0. {"exec", "begin", "commit", "rollback"} \cap Greeting = {}
      BY DEF Greeting
    <3>1. CASE m.kind = "exec" /\ stream[s].inTx
      <4>. DEFINE st == [stream[s] EXCEPT !.pending = @ \cup {m.stmt}]
      <4>1. Served(s, st, TRUE)
        BY <2>1, <3>1
      <4>2. /\ st \in [state: {"new", "greeted", "open", "gone"},
                       inTx: BOOLEAN, pending: SUBSET Stmt]
            /\ st.inTx /\ st.state = "open"
        BY <1>1, <1>3, <2>1, <3>1
      <4>. HIDE DEF st
      <4>. QED BY <3>0, <3>1, <4>1, <4>2
    <3>2. CASE m.kind = "exec" /\ ~stream[s].inTx
      <4>1. Served(s, stream[s], TRUE)
        BY <2>1, <3>2
      <4>. QED BY <1>1, <3>0, <3>2, <4>1
    <3>3. CASE m.kind = "begin"
      <4>. DEFINE st == [stream[s] EXCEPT !.inTx = TRUE]
      <4>1. Served(s, st, TRUE)
        BY <2>1, <3>3
      <4>2. /\ st \in [state: {"new", "greeted", "open", "gone"},
                       inTx: BOOLEAN, pending: SUBSET Stmt]
            /\ st.inTx /\ st.state = "open"
        BY <1>1, <2>1
      <4>. HIDE DEF st
      <4>. QED BY <3>0, <3>3, <4>1, <4>2
    <3>4. CASE m.kind \in {"commit", "rollback"}
      <4>. DEFINE st == [stream[s] EXCEPT !.inTx = FALSE, !.pending = {}]
      <4>1. Served(s, st, TRUE)
        BY <2>1, <3>4
      <4>2. /\ st \in [state: {"new", "greeted", "open", "gone"},
                       inTx: BOOLEAN, pending: SUBSET Stmt]
            /\ ~st.inTx /\ st.pending = {}
        BY <1>1
      <4>. HIDE DEF st
      <4>. QED BY <4>1, <4>2
    <3>. QED BY <2>1, <3>1, <3>2, <3>3, <3>4
  <2>3. /\ durable' \in SUBSET Stmt /\ ran' \subseteq Stmt \X (1..Attempts)
        /\ refused' = refused
    BY <1>1, <1>3, <2>1 DEF Ran
  <2>. QED BY <1>1, <2>2, <2>3, ServedKeepsLinks DEF m
<1>7. CASE FailsToExecute(s)
  <2>1. /\ Served(s, stream[s], FALSE) /\ UNCHANGED <<durable, ran>>
        /\ refused' \subseteq Sock
    BY <1>1, <1>7 DEF FailsToExecute
  <2>. QED BY <1>1, <2>1, ServedKeepsLinks
<1>8. CASE FailsAndRollsBack(s)
  <2>. DEFINE st == [stream[s] EXCEPT !.inTx = FALSE, !.pending = {}]
  <2>1. Served(s, st, FALSE) /\ UNCHANGED <<durable, ran, refused>>
    BY <1>8 DEF FailsAndRollsBack
  <2>2. /\ st \in [state: {"new", "greeted", "open", "gone"},
                   inTx: BOOLEAN, pending: SUBSET Stmt]
        /\ ~st.inTx /\ st.pending = {}
    BY <1>1
  <2>. HIDE DEF st
  <2>. QED BY <1>1, <2>1, <2>2, ServedKeepsLinks
<1>. QED BY <1>4, <1>5, <1>6, <1>7, <1>8

LEMMA RestsKeepsLinks ==
  ASSUME LinkInv, UNCHANGED vars
  PROVE  LinkInv'
<1>. USE DEF vars, network, program, ghosts, marked, told
<1>1. WsType'
  BY DEF LinkInv, WsType
<1>2. \A s \in Sock : SockInv(s)'
  BY DEF LinkInv, SockInv, Quiet, UnderWay, Queued
<1>3. HandshakeInv'
  BY DEF LinkInv, HandshakeInv, Dialling, Queued, UnderWay
<1>4. ConnInv'
  BY DEF LinkInv, ConnInv, Quiet, Queued, UnderWay, Request
<1>5. CallInv'
  BY DEF LinkInv, CallInv
<1>. QED BY <1>1, <1>2, <1>3, <1>4, <1>5 DEF LinkInv

LEMMA LinkNext == LinkInv /\ [Next]_vars => LinkInv'
<1>. SUFFICES ASSUME LinkInv, [Next]_vars PROVE LinkInv'
  OBVIOUS
<1>1. CASE ExecContext \/ BeginTx \/ Commit \/ Rollback
  BY <1>1, CallsKeepLinks
<1>2. CASE Cancel
  BY <1>2, CancelKeepsLinks
<1>3. CASE Close
  BY <1>3, CloseKeepsLinks
<1>4. CASE Dials
  BY <1>4, DialsKeepsLinks
<1>5. CASE DialFails
  BY <1>5, DialFailsKeepsLinks
<1>6. CASE SendsHello \/ SendsOpenStream
  BY <1>6, GreetsKeepsLinks
<1>7. CASE ReadsHello
  BY <1>7, ReadsHelloKeepsLinks
<1>8. CASE ReadsOpenStream
  BY <1>8, ReadsOpenStreamKeepsLinks
<1>9. CASE HandshakeFails
  BY <1>9, HandshakeFailsKeepsLinks
<1>10. CASE Writes
  BY <1>10, WritesKeepsLinks
<1>11. CASE WriteFails \/ ReadFails
  BY <1>11, FailuresKeepLinks
<1>12. CASE ReadsResponse
  BY <1>12, ResponseKeepsLinks
<1>13. ASSUME NEW s \in Sock,
              \/ ServesHello(s) \/ ServesOpenStream(s) \/ Executes(s)
              \/ FailsToExecute(s) \/ FailsAndRollsBack(s)
       PROVE  LinkInv'
  BY <1>13, ServerKeepsLinks
<1>14. ASSUME NEW s \in Sock, Ends(s)
       PROVE  LinkInv'
  BY <1>14, EndsKeepsLinks
<1>15. ASSUME NEW s \in Sock, Breaks(s)
       PROVE  LinkInv'
  BY <1>15, BreaksKeepsLinks
<1>16. CASE UNCHANGED vars
  BY <1>16, RestsKeepsLinks
<1>. QED BY <1>1, <1>2, <1>3, <1>4, <1>5, <1>6, <1>7, <1>8, <1>9, <1>10, <1>11,
            <1>12, <1>13, <1>14, <1>15, <1>16 DEF Next, Rests

LEMMA LinkInvariance == Spec => []LinkInv
<1>. QED BY LinkInit, LinkNext, PTL DEF Spec

-----------------------------------------------------------------------------
(* The state of the driver, the sockets and the server keeps its type; at   *)
(* most one message is under way on the socket of the connection (exec      *)
(* writes a request only after it has read the answer to the last one).     *)
THEOREM TypeCorrect == Spec => []TypeOK
<1>1. LinkInv => TypeOK
  <2>. SUFFICES ASSUME LinkInv PROVE TypeOK
    OBVIOUS
  <2>1. WsType
    BY LinkTypes
  <2>2. ASSUME NEW s \in Sock
        PROVE  /\ toServer[s] \in Seq(Message) /\ toClient[s] \in Seq(Response)
               /\ Len(toServer[s]) + Len(toClient[s]) <= IF s = conn THEN 1 ELSE 2
    <3>1. toServer[s] \in Seq(Message) /\ toClient[s] \in Seq(Response)
      BY <2>1 DEF WsType
    <3>2. SockInv(s) /\ UnderWay(s) \in Nat
      BY <2>1, Sizes DEF LinkInv
    <3>3. CASE s # conn
      BY <3>1, <3>2, <3>3 DEF SockInv, UnderWay
    <3>4. CASE s = conn
      <4>1. UnderWay(s) <= 1
        <5>1. CASE s \notin open
          BY <3>4, <5>1 DEF LinkInv, ConnInv
        <5>2. CASE Quiet(s)
          <6>1. Len(toServer[s]) = 0 /\ Len(toClient[s]) = 0
            BY <5>2 DEF Quiet
          <6>. QED BY <6>1 DEF UnderWay
        <5>3. CASE \/ Len(toServer[s]) = 1 /\ Len(toClient[s]) = 0
                   \/ Len(toServer[s]) = 0 /\ Len(toClient[s]) = 1
          <6>. DEFINE a == Len(toServer[s])
                      b == Len(toClient[s])
          <6>1. UnderWay(s) = a + b
            BY DEF UnderWay
          <6>2. (a = 1 /\ b = 0) \/ (a = 0 /\ b = 1)
            BY <5>3
          <6>. HIDE DEF a, b
          <6>. QED BY <6>1, <6>2
        <5>4. \/ Quiet(s) \/ s \notin open
              \/ /\ pc = "resp"
                 /\ \/ toServer[s] = <<Request>> /\ toClient[s] = <<>>
                    \/ /\ toServer[s] = <<>>
                       /\ \E ok \in BOOLEAN : toClient[s] = <<[of |-> Request, ok |-> ok]>>
          BY <3>4 DEF LinkInv, ConnInv
        <5>5. \A x : Len(<<x>>) = 1
          OBVIOUS
        <5>6. Len(<<>>) = 0
          OBVIOUS
        <5>. QED BY <5>1, <5>2, <5>3, <5>4, <5>5, <5>6
      <4>. QED BY <3>1, <3>4, <4>1 DEF UnderWay
    <3>. QED BY <3>1, <3>3, <3>4
  <2>. QED BY <2>1, <2>2 DEF TypeOK, WsType, Handshaking
<1>. QED BY <1>1, LinkInvariance, PTL

(* exec takes the answer to its own request for it, never one left behind   *)
(* by the handshake or by a call that gave up.                              *)
THEOREM OwnAnswers == Spec => []AnswersAreOwn
<1>1. LinkInv => AnswersAreOwn
  <2>. SUFFICES ASSUME LinkInv, pc = "resp", conn \in open, toClient[conn] # <<>>
                PROVE  Head(toClient[conn]).of = Request
    BY DEF AnswersAreOwn, Request
  <2>1. \E ok \in BOOLEAN : toClient[conn] = <<[of |-> Request, ok |-> ok]>>
    BY DEF LinkInv, ConnInv, Quiet
  <2>. QED BY <2>1
<1>. QED BY <1>1, LinkInvariance, PTL

(* Outside a handshake the driver has no socket open but that of the        *)
(* connection: connect closes the one it gives up, exec the one that fails. *)
THEOREM NoneLeftOpen == Spec => []NoSocketLeftOpen
<1>1. LinkInv => NoSocketLeftOpen
  BY LinkTypes DEF LinkInv, ConnInv, NoSocketLeftOpen, WsType, Handshaking
<1>. QED BY <1>1, LinkInvariance, PTL

-----------------------------------------------------------------------------
(* The store. The statements of a transaction, and where they are: pending  *)
(* in a stream, or on their way to it.                                      *)
Of(t) == {s \in Stmt : s \in DOMAIN stmtTx /\ IssuedIn(s) = t}
Beginning == pc \notin {"idle", "panic"} /\ call.kind = "begin"
Touches(s, t) ==
  \/ stream[s].pending \cap Of(t) # {}
  \/ \E m \in Queued(s) : m.kind = "exec" /\ m.stmt \in Of(t)
OnlyOn(s, t) == \A r \in Sock : Touches(r, t) => r = s
Holds(s, t) ==
  Of(t) \cap acked \subseteq stream[s].pending /\ stream[s].pending \subseteq Of(t)
Untaken(t) == Of(t) \cap durable = {}

(* Nothing is known of a statement or transaction that is still to come.    *)
NumbersInv ==
  /\ \A s \in DOMAIN stmtTx : stmtTx[s] <= txs /\ (Beginning => stmtTx[s] < txs)
  /\ \A t \in asked \cup rolledBack : t <= txs /\ (Beginning => t < txs)
  /\ acked \cup durable \cup doubtful \cup alone \subseteq DOMAIN stmtTx
  /\ \A s \in Sock : stream[s].pending \subseteq DOMAIN stmtTx
  /\ asked \cap rolledBack = {}

(* A statement of a transaction can only be executed inside one, and what   *)
(* a COMMIT that is still to be served finds is a whole transaction.        *)
StreamInv(s) ==
  /\ \A m \in Queued(s) : m.kind = "exec" /\ m.stmt \notin Of(NoTx)
       => stream[s].inTx \/ stream[s].state = "gone"
  /\ stream[s].inTx /\ (\E m \in Queued(s) : m.kind = "commit")
       => \E t \in asked \ rolledBack : Holds(s, t) /\ OnlyOn(s, t) /\ Untaken(t)

(* The transaction of the program: while the server has it, all of it is on  *)
(* the connection's socket.                                                 *)
TxInv ==
  tx # NoTx =>
    /\ tx \notin rolledBack
    /\ tx \in asked <=> pc = "resp" /\ call.kind = "commit"
    /\ OnlyOn(conn, tx)
    /\ tx \notin asked \/ toServer[conn] # <<>> => Untaken(tx)
    /\ conn \in open /\ stream[conn].inTx => Holds(conn, tx)

(* A statement of the program's transaction stands alone if the server has  *)
(* that transaction no more.                                                *)
AloneInv ==
  tx # NoTx /\ conn \in open /\ call.kind = "exec" =>
    /\ pc \in {"exec", "resp"} /\ call.stmt \in alone => ~stream[conn].inTx
    /\ pc = "exec" /\ call.stmt \notin alone =>
         stream[conn].inTx \/ stream[conn].state = "gone"

(* The server has one that the program does not have only after it refused  *)
(* a COMMIT, or before the program has heard of it.                         *)
LeftoverInv ==
  /\ tx = NoTx /\ conn \in open /\ stream[conn].inTx =>
       \/ conn \in refused
       \/ /\ pc = "resp" /\ call.kind = "begin" /\ toServer[conn] = <<>>
          /\ toClient[conn] # <<>> => Head(toClient[conn]).ok
  /\ pc = "resp" /\ call.kind = "exec" /\ tx = NoTx /\ conn \in refused
       => call.stmt \in doubtful

(* An answer tells the truth before the program has heard it.               *)
Truth(ok) ==
  LET st == stream[conn]
  IN  /\ call.kind = "begin" /\ ok => st.state = "gone" \/ (st.inTx /\ st.pending = {})
      /\ call.kind = "begin" /\ ~ok => (st.inTx => conn \in refused)
      /\ call.kind = "exec" /\ ok =>
           IF call.stmt \in Of(NoTx) THEN call.stmt \in durable \cup doubtful
           ELSE st.state = "gone" \/ call.stmt \in st.pending
      /\ call.kind = "commit" => (st.inTx => conn \in refused)
      /\ call.kind = "commit" /\ ok => Of(tx) \cap acked \subseteq durable
      /\ call.kind = "rollback" => ~st.inTx

AnswerInv == pc = "resp" /\ toClient[conn] # <<>> => Truth(Head(toClient[conn]).ok)

StoreInv ==
  /\ NumbersInv /\ (\A s \in Sock : StreamInv(s))
  /\ TxInv /\ AloneInv /\ LeftoverInv /\ AnswerInv

-----------------------------------------------------------------------------
LEMMA InitStore == Init => StoreInv
<1>. USE WsAssumption DEF Init, NoCall, Sock, NoSock, NoTx
<1>1. Init => NumbersInv
  BY DEF NumbersInv, Beginning
<1>2. Init => \A s \in Sock : StreamInv(s)
  BY DEF StreamInv, Queued
<1>3. Init => TxInv /\ AloneInv /\ LeftoverInv /\ AnswerInv
  BY DEF TxInv, AloneInv, LeftoverInv, AnswerInv
<1>. QED BY <1>1, <1>2, <1>3 DEF StoreInv

(* The numbers of statements and transactions.                              *)
LEMMA NumberTypes ==
  ASSUME LinkInv
  PROVE  /\ MaxStmts \in Nat /\ MaxTx \in Nat /\ NoTx = 0 /\ Stmt = 1..MaxStmts
         /\ DOMAIN stmtTx = 1..Len(stmtTx) /\ DOMAIN stmtTx \subseteq Stmt
         /\ \A s \in DOMAIN stmtTx : stmtTx[s] \in 0..MaxTx
         /\ tx \in 0..MaxTx /\ txs \in 0..MaxTx /\ tx \in {NoTx, txs}
         /\ asked \subseteq 1..MaxTx /\ rolledBack \subseteq 1..MaxTx /\ committed \subseteq asked
         /\ call.stmt \in Nat /\ call.kind \in Kind
<1>1. MaxStmts \in Nat /\ MaxTx \in Nat /\ NoTx = 0 /\ Stmt = 1..MaxStmts
  BY WsAssumption DEF NoTx, Stmt
<1>2. stmtTx \in Seq(0..MaxTx) /\ Len(stmtTx) \in Nat /\ Len(stmtTx) <= MaxStmts
  BY LinkTypes DEF WsType
<1>3. /\ DOMAIN stmtTx = 1..Len(stmtTx) /\ DOMAIN stmtTx \subseteq Stmt
      /\ \A s \in DOMAIN stmtTx : stmtTx[s] \in 0..MaxTx
  BY <1>1, <1>2
<1>4. /\ tx \in 0..MaxTx /\ txs \in 0..MaxTx /\ tx \in {NoTx, txs}
      /\ asked \subseteq 1..MaxTx /\ rolledBack \subseteq 1..MaxTx /\ committed \subseteq asked
      /\ call.stmt \in Nat /\ call.kind \in Kind
  BY DEF LinkInv, WsType, CallInv
<1>. QED BY <1>1, <1>3, <1>4

(* Steps that neither send nor serve nor tell anything.                     *)
LEMMA SilentKeepsStore ==
  ASSUME LinkInv, StoreInv,
         UNCHANGED <<toServer, stream, stmtTx, txs, asked, rolledBack, acked, durable,
                     doubtful, refused, alone>>,
         Beginning' => Beginning,
         pc' = "resp" =>
           /\ pc = "resp" /\ UNCHANGED <<conn, open, tx>>
           /\ call'.kind = call.kind /\ call'.stmt = call.stmt
           /\ toClient'[conn] \in {<<>>, toClient[conn]},
         pc' # "resp" /\ tx' # NoTx =>
           /\ tx' = tx /\ conn' = conn /\ open' \subseteq open
           /\ pc = "resp" => call.kind = "exec",
         pc' = "exec" /\ tx' # NoTx =>
           pc = "exec" /\ call'.kind = call.kind /\ call'.stmt = call.stmt,
         pc' # "resp" /\ tx' = NoTx /\ conn' \in open' /\ stream[conn'].inTx =>
           tx = NoTx /\ conn' = conn /\ conn \in open /\ pc # "resp"
  PROVE  StoreInv'
<1>1. /\ \A t : Of(t)' = Of(t) /\ Untaken(t)' = Untaken(t)
      /\ \A s \in Sock : Queued(s)' = Queued(s)
  BY DEF Of, IssuedIn, Untaken, Queued
<1>2. \A s, t : Holds(s, t)' = Holds(s, t)
  BY <1>1 DEF Holds
<1>3. \A s, t : s \in Sock => Touches(s, t)' = Touches(s, t)
  BY <1>1 DEF Touches
<1>4. \A s, t : OnlyOn(s, t)' = OnlyOn(s, t)
  BY <1>3 DEF OnlyOn
<1>5. NumbersInv'
  BY DEF StoreInv, NumbersInv
<1>6. \A s \in Sock : StreamInv(s)'
  BY <1>1, <1>2, <1>4 DEF StoreInv, StreamInv
<1>7. TxInv'
  BY <1>1, <1>2, <1>4 DEF StoreInv, TxInv
<1>8. AloneInv' /\ LeftoverInv'
  BY DEF StoreInv, AloneInv, LeftoverInv
<1>9. AnswerInv'
  <2>. SUFFICES ASSUME pc' = "resp", toClient'[conn'] # <<>>
                PROVE  Truth(Head(toClient[conn]).ok)'
    BY DEF AnswerInv
  <2>1. Truth(Head(toClient[conn]).ok)
    BY DEF StoreInv, AnswerInv
  <2>. QED BY <1>1, <2>1 DEF Truth
<1>. QED BY <1>5, <1>6, <1>7, <1>8, <1>9 DEF StoreInv

LEMMA SilentSteps ==
  ASSUME LinkInv, StoreInv,
         \/ Cancel \/ Close \/ Dials \/ DialFails
         \/ ReadsHello \/ ReadsOpenStream \/ HandshakeFails
         \/ WriteFails \/ ReadFails
         \/ \E s \in Sock : Breaks(s)
         \/ UNCHANGED vars
  PROVE  /\ StoreInv'
         /\ UNCHANGED <<stmtTx, alone, durable, acked, asked, committed, rolledBack, doubtful>>
<1>. USE DEF network, ghosts, marked, told, program
<1>0. /\ open \subseteq Sock /\ NoSock \notin Sock /\ conn \in Sock \cup {NoSock}
      /\ conn = NoSock => tx = NoTx
      /\ pc \in Handshaking =>
           /\ conn = NoSock /\ Dialling \in Sock /\ ~stream[Dialling].inTx
      /\ pc = "connect" => conn = NoSock
  BY LinkTypes DEF LinkInv, WsType, ConnInv, HandshakeInv
<1>1. /\ UNCHANGED <<toServer, stream, stmtTx, txs, asked, rolledBack, acked, durable,
                     doubtful, refused, alone>>
      /\ UNCHANGED committed
  <2>1. Returns => UNCHANGED <<txs, stmtTx>>
    BY DEF Returns
  <2>2. BadConn => UNCHANGED <<txs, stmtTx>>
    BY <2>1 DEF BadConn
  <2>3. \A s : Reads(s) => UNCHANGED <<toServer, stream, durable>>
    BY DEF Reads
  <2>4. CASE Cancel \/ Close \/ Dials \/ UNCHANGED vars \/ \E s \in Sock : Breaks(s)
    BY <2>4 DEF Cancel, Close, Dials, Breaks, vars
  <2>5. CASE DialFails \/ HandshakeFails
    BY <2>1, <2>5 DEF DialFails, HandshakeFails
  <2>6. CASE ReadsHello \/ ReadsOpenStream
    BY <2>1, <2>3, <2>6 DEF ReadsHello, ReadsOpenStream, AfterHello, GoesOn
  <2>7. CASE WriteFails \/ ReadFails
    BY <2>2, <2>7 DEF WriteFails, ReadFails
  <2>. QED BY <2>4, <2>5, <2>6, <2>7
<1>2. CASE Returns /\ pc \in Handshaking \cup {"connect"} /\ UNCHANGED conn /\ open' \subseteq open
  <2>1. /\ pc' = "idle" /\ tx' = NoTx /\ conn' = NoSock /\ conn' \notin open'
        /\ ~Beginning'
    BY <1>0, <1>2 DEF Returns, Beginning
  <2>. QED BY <1>1, <2>1, SilentKeepsStore
<1>3. CASE Cancel \/ Close \/ Dials \/ UNCHANGED vars \/ \E s \in Sock : Breaks(s)
  <2>1. CASE Cancel
    <3>1. /\ UNCHANGED <<pc, tx, conn, open, toClient>>
          /\ call'.kind = call.kind /\ call'.stmt = call.stmt
      BY <2>1, NumberTypes DEF Cancel, LinkInv, WsType
    <3>. QED BY <1>1, <3>1, SilentKeepsStore DEF Beginning
  <2>2. CASE Close
    BY <1>0, <1>1, <2>2, SilentKeepsStore DEF Close, Beginning
  <2>3. CASE Dials
    <3>1. pc = "connect" /\ pc' = "hello" /\ UNCHANGED <<tx, call>> /\ conn' = NoSock
          /\ tx = NoTx /\ conn' \notin open'
      BY <1>0, <2>3, DialsKeepsLinks, LinkTypes DEF Dials, LinkInv, WsType, NoSock, Sock
    <3>. QED BY <1>1, <3>1, SilentKeepsStore DEF Beginning
  <2>4. CASE UNCHANGED vars
    <3>1. UNCHANGED <<pc, tx, conn, open, toClient, call>>
      BY <2>4 DEF vars
    <3>. QED BY <1>1, <3>1, SilentKeepsStore DEF Beginning
  <2>5. ASSUME NEW s \in Sock, Breaks(s)
        PROVE  StoreInv'
    <3>1. /\ UNCHANGED <<pc, tx, conn, open, call>>
          /\ pc = "resp" => conn \in Sock
      BY <1>0, <2>5 DEF Breaks, LinkInv, ConnInv
    <3>2. conn \in Sock => toClient'[conn] \in {<<>>, toClient[conn]}
      BY <2>5 DEF Breaks, LinkInv, WsType
    <3>. QED BY <1>1, <3>1, <3>2, SilentKeepsStore DEF Beginning
  <2>. QED BY <1>1, <1>3, <2>1, <2>2, <2>3, <2>4, <2>5
<1>4. CASE DialFails \/ HandshakeFails
  BY <1>0, <1>2, <1>4 DEF DialFails, HandshakeFails, Handshaking
<1>5. CASE ReadsHello
  <2>1. CASE Head(toClient[Dialling]).ok
    <3>1. /\ pc = "helloResp" /\ pc' = "openStreamResp" /\ UNCHANGED <<conn, open, call, tx>>
      BY <1>5, <2>1 DEF ReadsHello, AfterHello, GoesOn
    <3>2. conn = NoSock /\ tx = NoTx /\ conn \notin open
      BY <1>0, <3>1 DEF Handshaking
    <3>. QED BY <1>1, <3>1, <3>2, SilentKeepsStore DEF Beginning
  <2>2. CASE ~Head(toClient[Dialling]).ok
    BY <1>2, <1>5, <2>2 DEF ReadsHello, ClosesSocket, Handshaking
  <2>. QED BY <2>1, <2>2
<1>6. CASE ReadsOpenStream
  <2>1. pc = "openStreamResp" /\ pc' \in {"exec", "panic"} /\ UNCHANGED <<call, tx, open>>
        /\ conn' \in {conn, Dialling}
    BY <1>6 DEF ReadsOpenStream, GoesOn
  <2>2. conn = NoSock /\ tx = NoTx /\ conn \notin open /\ ~stream[Dialling].inTx
    BY <1>0, <2>1 DEF Handshaking
  <2>. QED BY <1>1, <2>1, <2>2, SilentKeepsStore DEF Beginning
<1>7. CASE WriteFails \/ ReadFails
  <2>1. /\ pc \in {"exec", "resp"} /\ BadConn
        /\ open' \subseteq open /\ (pc = "resp" => open' = open \ {conn})
    BY <1>7 DEF WriteFails, ReadFails
  <2>2. /\ pc' \in {"connect", "idle"}
        /\ pc' = "connect" => call'.kind = call.kind
    BY <2>1 DEF BadConn, Returns, LinkInv, WsType
  <2>3. tx # NoTx => ~Retries
    BY DEF Retries
  <2>4. tx = NoTx \/ call.kind # "exec" => conn' = NoSock
    BY <2>1 DEF BadConn
  <2>5. tx # NoTx /\ call.kind = "exec" => conn' = conn /\ tx' = tx
    BY <2>1, <2>3 DEF BadConn, Returns
  <2>6. tx # NoTx /\ call.kind # "exec" => tx' = NoTx
    <3>1. tx # NoTx /\ call.kind # "exec" => call.kind \in {"commit", "rollback"}
      BY <2>1, NumberTypes DEF LinkInv, CallInv, Kind
    <3>. QED BY <2>1, <2>3, <3>1 DEF BadConn, Returns
  <2>7. tx = NoTx => tx' = NoTx
    BY <2>1 DEF BadConn, Returns
  <2>8. Beginning' => Beginning
    BY <2>1, <2>2 DEF Beginning
  <2>. QED BY <1>0, <1>1, <2>1, <2>2, <2>4, <2>5, <2>6, <2>7, <2>8, SilentKeepsStore
<1>. QED BY <1>1, <1>3, <1>4, <1>5, <1>6, <1>7

(* A statement is issued, a transaction begun or ended.                     *)
LEMMA CallsKeepStore ==
  ASSUME LinkInv, StoreInv, ExecContext \/ BeginTx \/ Commit \/ Rollback
  PROVE  StoreInv'
<1>1. /\ pc = "idle" /\ pc' \in {"connect", "exec"}
      /\ UNCHANGED <<open, toServer, toClient, stream, durable, conn, tx>>
      /\ UNCHANGED <<asked, rolledBack, acked, refused, doubtful>>
  BY DEF ExecContext, BeginTx, Commit, Rollback, Calls, network, ghosts, marked, told
<1>2. /\ \/ stmtTx' = stmtTx /\ (call'.kind = "begin" => txs' = txs + 1)
         \/ stmtTx' = Append(stmtTx, tx) /\ call'.kind # "begin"
      /\ txs' \in {txs, txs + 1}
  BY DEF ExecContext, BeginTx, Commit, Rollback, Calls, NoCall
<1>3. /\ txs \in Nat /\ tx \in Nat /\ tx <= txs
      /\ DOMAIN stmtTx = 1..Len(stmtTx) /\ Len(stmtTx) \in Nat
      /\ \A s \in DOMAIN stmtTx : stmtTx[s] \in Nat
      /\ asked \cup rolledBack \subseteq Nat
      /\ stmtTx \in Seq(0..MaxTx) /\ tx \in 0..MaxTx
  BY NumberTypes, LinkTypes
<1>4. /\ DOMAIN stmtTx \subseteq DOMAIN stmtTx'
      /\ \A s \in DOMAIN stmtTx : stmtTx'[s] = stmtTx[s]
      /\ \A s \in DOMAIN stmtTx' \ DOMAIN stmtTx :
           stmtTx'[s] = tx /\ call'.kind # "begin"
  <2>1. CASE stmtTx' = stmtTx
    BY <2>1
  <2>2. CASE stmtTx' = Append(stmtTx, tx) /\ call'.kind # "begin"
    <3>1. /\ DOMAIN stmtTx' = 1..(Len(stmtTx) + 1)
          /\ \A s \in 1..Len(stmtTx) : stmtTx'[s] = stmtTx[s]
          /\ stmtTx'[Len(stmtTx) + 1] = tx
      BY <1>3, <2>2
    <3>. QED BY <1>3, <2>2, <3>1
  <2>. QED BY <1>2, <2>1, <2>2
<1>5. /\ acked \cup durable \cup alone \subseteq DOMAIN stmtTx
      /\ \A s \in Sock : stream[s].pending \subseteq DOMAIN stmtTx
      /\ \A s \in Sock : \A m \in Queued(s) : m.kind = "exec" => m.stmt \in DOMAIN stmtTx
  BY <1>3 DEF StoreInv, NumbersInv, LinkInv, SockInv
<1>6. /\ \A t : Of(t) \subseteq Of(t)' /\ Of(t)' \cap DOMAIN stmtTx = Of(t)
      /\ alone' \subseteq DOMAIN stmtTx' /\ alone' \cap DOMAIN stmtTx = alone
  <2>1. alone' \subseteq DOMAIN stmtTx' /\ alone' \cap DOMAIN stmtTx = alone
    <3>1. CASE ExecContext
      <4>1. /\ alone' \in {alone, alone \cup {Len(stmtTx) + 1}}
            /\ stmtTx' = Append(stmtTx, tx)
        BY <3>1 DEF ExecContext, Calls, NoCall
      <4>2. Len(stmtTx) + 1 \in DOMAIN stmtTx' /\ Len(stmtTx) + 1 \notin DOMAIN stmtTx
        BY <1>3, <4>1
      <4>. QED BY <1>4, <1>5, <4>1, <4>2
    <3>2. CASE BeginTx \/ Commit \/ Rollback
      BY <1>4, <1>5, <3>2 DEF BeginTx, Commit, Rollback
    <3>. QED BY <3>1, <3>2
  <2>2. \A s \in DOMAIN stmtTx : IssuedIn(s)' = IssuedIn(s)
    BY <1>4, <2>1 DEF IssuedIn
  <2>. QED BY <1>4, <2>1, <2>2 DEF Of
<1>7. \A s \in Sock : Queued(s)' = Queued(s)
  BY <1>1 DEF Queued
<1>8. \A t : Untaken(t)' = Untaken(t)
  BY <1>1, <1>5, <1>6 DEF Untaken
<1>9. \A s \in Sock : \A t : Holds(s, t) => Holds(s, t)'
  BY <1>1, <1>5, <1>6 DEF Holds
<1>10. \A s \in Sock : \A t : Touches(s, t)' => Touches(s, t)
  BY <1>1, <1>5, <1>6, <1>7 DEF Touches
<1>11. \A s, t : OnlyOn(s, t) => OnlyOn(s, t)'
  BY <1>10 DEF OnlyOn
<1>12. NumbersInv'
  <2>1. \A s \in DOMAIN stmtTx' : stmtTx'[s] <= txs' /\ (Beginning' => stmtTx'[s] < txs')
    <3>1. \A s \in DOMAIN stmtTx : stmtTx[s] <= txs
      BY DEF StoreInv, NumbersInv
    <3>. QED BY <1>2, <1>3, <1>4, <3>1 DEF Beginning
  <2>2. \A t \in asked \cup rolledBack : t <= txs' /\ (Beginning' => t < txs')
    <3>1. \A t \in asked \cup rolledBack : t <= txs
      BY DEF StoreInv, NumbersInv
    <3>2. Beginning' => txs' = txs + 1
      <4>1. call'.kind = "begin" => txs' = txs + 1
        BY <1>2
      <4>. QED BY <4>1 DEF Beginning
    <3>. QED BY <1>2, <1>3, <3>1, <3>2
  <2>. QED BY <1>1, <1>4, <1>6, <2>1, <2>2 DEF StoreInv, NumbersInv
<1>13. \A s \in Sock : StreamInv(s)'
  <2>. SUFFICES ASSUME NEW s \in Sock PROVE StreamInv(s)'
    OBVIOUS
  <2>1. StreamInv(s)
    BY DEF StoreInv
  <2>. QED BY <1>1, <1>6, <1>7, <1>8, <1>9, <1>11, <2>1 DEF StreamInv
<1>14. TxInv'
  <2>1. conn \in Sock \/ conn \notin open
    BY LinkTypes
  <2>. QED BY <1>1, <1>8, <1>9, <1>11, <2>1 DEF StoreInv, TxInv
<1>15. LeftoverInv' /\ AnswerInv'
  BY <1>1 DEF StoreInv, LeftoverInv, AnswerInv
<1>16. AloneInv'
  <2>. SUFFICES ASSUME tx # NoTx, conn \in open, call'.kind = "exec"
                PROVE  IF call'.stmt \in alone' THEN ~stream[conn].inTx
                       ELSE stream[conn].inTx \/ stream[conn].state = "gone"
    BY <1>1 DEF AloneInv
  <2>1. ExecContext
    BY DEF BeginTx, Commit, Rollback, Calls, NoCall
  <2>2. /\ call'.stmt = Len(stmtTx) + 1
        /\ alone' = IF ~stream[conn].inTx /\ stream[conn].state # "gone"
                    THEN alone \cup {call'.stmt} ELSE alone
    BY <2>1 DEF ExecContext, Calls, NoCall, StandsAlone
  <2>3. call'.stmt \notin alone
    BY <1>3, <1>5, <2>2
  <2>. QED BY <2>2, <2>3
<1>. QED BY <1>12, <1>13, <1>14, <1>15, <1>16 DEF StoreInv

(* The messages of the handshake are no requests.                           *)
LEMMA GreetsKeepsStore ==
  ASSUME LinkInv, StoreInv, SendsHello \/ SendsOpenStream
  PROVE  /\ StoreInv'
         /\ UNCHANGED <<stmtTx, alone, durable, acked, asked, committed, rolledBack, doubtful>>
<1>1. /\ UNCHANGED <<open, stream, durable, conn, tx, txs, stmtTx, call>>
      /\ UNCHANGED <<asked, committed, rolledBack, acked, refused, doubtful, alone>>
      /\ pc \in Handshaking /\ pc' \in {"open_stream", "helloResp"}
      /\ \E kind \in Greeting : Sends(Dialling, kind)
  BY DEF SendsHello, SendsOpenStream, program, ghosts, marked, told, Handshaking, Greeting
<1>2. conn = NoSock /\ tx = NoTx /\ conn \notin open /\ Dialling \in Sock
  BY <1>1, LinkTypes DEF LinkInv, ConnInv, HandshakeInv
<1>3. ASSUME NEW s \in Sock, NEW m \in Queued(s)', m.kind \notin Greeting
      PROVE  m \in Queued(s)
  <2>1. PICK d \in Sock : d = Dialling
    BY <1>2
  <2>2. PICK kind \in Greeting : Sends(d, kind)
    BY <1>1, <2>1
  <2>3. kind \in Kind
    BY DEF Greeting, Kind
  <2>4. CASE s = d
    <3>1. m \in Queued(d)' /\ WsType
      BY <2>4, LinkTypes
    <3>2. m \in Queued(d) \/ m = Sent(kind)
      BY <2>2, <2>3, <3>1, SendsAppends
    <3>. QED BY <1>3, <2>4, <3>2 DEF Sent
  <2>5. CASE s # d
    <3>1. toServer'[s] = toServer[s]
      BY <2>2, <2>3, <2>5, LinkTypes, SendsAppends
    <3>. QED BY <3>1 DEF Queued
  <2>. QED BY <2>4, <2>5
<1>4. \A t : Of(t)' = Of(t) /\ Untaken(t)' = Untaken(t)
  BY <1>1 DEF Of, IssuedIn, Untaken
<1>5. \A s, t : Holds(s, t)' = Holds(s, t)
  BY <1>1, <1>4 DEF Holds
<1>6. \A s \in Sock : \A t : Touches(s, t)' => Touches(s, t)
  BY <1>1, <1>3, <1>4 DEF Touches, Greeting
<1>7. \A s, t : OnlyOn(s, t) => OnlyOn(s, t)'
  BY <1>6 DEF OnlyOn
<1>8. NumbersInv'
  BY <1>1 DEF StoreInv, NumbersInv, Beginning, Handshaking
<1>9. \A s \in Sock : StreamInv(s)'
  BY <1>1, <1>3, <1>4, <1>5, <1>7 DEF StoreInv, StreamInv, Greeting
<1>10. TxInv' /\ AloneInv' /\ LeftoverInv' /\ AnswerInv'
  BY <1>1, <1>2 DEF TxInv, AloneInv, LeftoverInv, AnswerInv
<1>. QED BY <1>1, <1>8, <1>9, <1>10 DEF StoreInv

(* A request is written. For a COMMIT, the connection's stream holds the    *)
(* program's whole transaction.                                             *)
LEMMA WritesKeepsStore ==
  ASSUME LinkInv, StoreInv, Writes
  PROVE  StoreInv'
<1>0. PICK c \in Sock, u \in 0..MaxTx : c = conn /\ u = tx
  BY LinkTypes, NumberTypes DEF Writes
<1>1. /\ conn = c /\ conn' = c /\ tx = u /\ tx' = u
      /\ pc = "exec" /\ pc' = "resp" /\ c \in open /\ Sends(c, call.kind)
      /\ UNCHANGED <<open, toClient, stream, durable, call, txs, stmtTx>>
      /\ UNCHANGED <<rolledBack, acked, refused, alone>>
      /\ asked' = IF call.kind = "commit" THEN asked \cup {u} ELSE asked
      /\ doubtful' = IF call.kind = "exec" /\ u = NoTx /\ c \in refused
                     THEN doubtful \cup {call.stmt} ELSE doubtful
  BY <1>0 DEF Writes, program
<1>2. /\ c \in Sock /\ Quiet(c) /\ u \notin asked
      /\ call.kind = "exec" =>
           /\ call.stmt \in DOMAIN stmtTx /\ stmtTx[call.stmt] = u
           /\ IssuedIn(call.stmt) \in {u, NoTx}
      /\ call.kind = "commit" => u # NoTx
      /\ call.kind \in Kind
  <2>1. c \in Sock /\ Quiet(c)
    BY <1>1, LinkTypes DEF LinkInv, ConnInv
  <2>2. u \notin asked
    BY <1>1, NumberTypes DEF StoreInv, TxInv
  <2>3. call.kind = "exec" => call.stmt \in DOMAIN stmtTx /\ stmtTx[call.stmt] = u
    BY <1>1, NumberTypes, LinkTypes DEF LinkInv, CallInv
  <2>. QED BY <1>1, <2>1, <2>2, <2>3, NumberTypes DEF LinkInv, CallInv, IssuedIn
<1>3. /\ Queued(c) = {} /\ \A m \in Queued(c)' : m = Sent(call.kind)
      /\ \A s \in Sock \ {c} : toServer'[s] = toServer[s] /\ Queued(s)' = Queued(s)
  <2>1. Queued(c) = {}
    BY <1>2 DEF Quiet, Queued
  <2>2. /\ \A m \in Queued(c)' : m \in Queued(c) \/ m = Sent(call.kind)
        /\ \A s \in Sock \ {c} : toServer'[s] = toServer[s]
    BY <1>1, <1>2, LinkTypes, SendsAppends
  <2>. QED BY <2>1, <2>2 DEF Queued
<1>4. \A t : Of(t)' = Of(t) /\ Untaken(t)' = Untaken(t)
  BY <1>1 DEF Of, IssuedIn, Untaken
<1>5. \A s, t : Holds(s, t)' = Holds(s, t)
  BY <1>1, <1>4 DEF Holds
<1>6. \A s \in Sock : \A t :
        Touches(s, t)' => Touches(s, t) \/ (s = c /\ call.kind = "exec" /\ t \in {u, NoTx})
  <2>. SUFFICES ASSUME NEW s \in Sock, NEW t, Touches(s, t)'
                PROVE  Touches(s, t) \/ (s = c /\ call.kind = "exec" /\ t \in {u, NoTx})
    OBVIOUS
  <2>1. CASE s # c
    BY <1>1, <1>3, <1>4, <2>1 DEF Touches
  <2>2. CASE stream[s].pending \cap Of(t) # {}
    BY <2>2 DEF Touches
  <2>3. CASE s = c /\ \E m \in Queued(s)' : m.kind = "exec" /\ m.stmt \in Of(t)
    <3>1. call.kind = "exec" /\ call.stmt \in Of(t)
      BY <1>3, <2>3 DEF Sent
    <3>. QED BY <1>2, <2>3, <3>1 DEF Of
  <2>. QED BY <1>1, <1>4, <2>1, <2>2, <2>3 DEF Touches
<1>7. \A s \in Sock : \A t :
        /\ OnlyOn(s, t) /\ t # NoTx
        /\ t = u => s = c \/ call.kind # "exec"
        => OnlyOn(s, t)'
  BY <1>6 DEF OnlyOn
<1>8. NumbersInv'
  <2>1. Beginning' = Beginning /\ (call.kind = "commit" => ~Beginning)
    BY <1>1 DEF Beginning
  <2>2. u <= txs /\ (call.kind = "commit" => u \notin rolledBack)
    BY <1>1, <1>2, NumberTypes DEF StoreInv, TxInv
  <2>3. asked' \cap rolledBack' = {}
    BY <1>1, <2>2 DEF StoreInv, NumbersInv
  <2>4. \A t \in asked' \cup rolledBack' : t <= txs' /\ (Beginning' => t < txs')
    BY <1>1, <2>1, <2>2 DEF StoreInv, NumbersInv
  <2>5. /\ \A s \in DOMAIN stmtTx' : stmtTx'[s] <= txs' /\ (Beginning' => stmtTx'[s] < txs')
        /\ \A s \in Sock : stream'[s].pending \subseteq DOMAIN stmtTx'
    BY <1>1, <2>1 DEF StoreInv, NumbersInv
  <2>6. acked' \cup durable' \cup doubtful' \cup alone' \subseteq DOMAIN stmtTx'
    BY <1>1, <1>2 DEF StoreInv, NumbersInv
  <2>. QED BY <2>3, <2>4, <2>5, <2>6 DEF NumbersInv
<1>9. u # NoTx =>
        /\ stream[c].inTx => Holds(c, u)
        /\ call.kind = "exec" =>
             IF call.stmt \in alone THEN ~stream[c].inTx
             ELSE stream[c].inTx \/ stream[c].state = "gone"
  BY <1>1 DEF StoreInv, TxInv, AloneInv
<1>10. u # NoTx => OnlyOn(c, u)' /\ Untaken(u)' /\ u \notin rolledBack
  <2>1. u # NoTx => OnlyOn(c, u) /\ Untaken(u) /\ u \notin rolledBack
    BY <1>1, <1>2 DEF StoreInv, TxInv
  <2>. QED BY <1>2, <1>4, <1>7, <2>1
<1>11. \A s \in Sock : StreamInv(s)'
  <2>. SUFFICES ASSUME NEW s \in Sock PROVE StreamInv(s)'
    OBVIOUS
  <2>1. CASE s # c
    <3>1. StreamInv(s) /\ Queued(s)' = Queued(s) /\ stream'[s] = stream[s]
      BY <1>1, <1>3, <2>1 DEF StoreInv
    <3>2. \A t \in asked \ rolledBack :
            OnlyOn(s, t) => OnlyOn(s, t)' /\ t \in asked' \ rolledBack'
      BY <1>1, <1>2, <1>7, NumberTypes
    <3>. QED BY <1>4, <1>5, <3>1, <3>2 DEF StreamInv
  <2>2. CASE s = c
    <3>1. \A m \in Queued(s)' : m.kind = "exec" /\ m.stmt \notin Of(NoTx)'
            => stream'[s].inTx \/ stream'[s].state = "gone"
      <4>1. call.kind = "exec" /\ call.stmt \notin Of(NoTx) =>
              u # NoTx /\ call.stmt \notin alone
        BY <1>2, NumberTypes DEF Of, IssuedIn
      <4>2. \A m \in Queued(s)' : m.kind = call.kind /\ m.stmt = call.stmt
        BY <1>3, <2>2 DEF Sent
      <4>. QED BY <1>1, <1>4, <1>9, <2>2, <4>1, <4>2
    <3>2. stream'[s].inTx /\ (\E m \in Queued(s)' : m.kind = "commit")
            => \E t \in asked' \ rolledBack' :
                 Holds(s, t)' /\ OnlyOn(s, t)' /\ Untaken(t)'
      <4>. SUFFICES ASSUME stream[s].inTx, \E m \in Queued(s)' : m.kind = "commit"
                    PROVE  \E t \in asked' \ rolledBack' :
                             Holds(s, t)' /\ OnlyOn(s, t)' /\ Untaken(t)'
        BY <1>1
      <4>1. call.kind = "commit"
        BY <1>3, <2>2 DEF Sent
      <4>2. Holds(s, u)' /\ OnlyOn(s, u)' /\ Untaken(u)' /\ u \in asked' \ rolledBack'
        <5>1. stream[s].state = "open"
          BY DEF LinkInv, SockInv
        <5>2. Holds(s, u)'
          BY <1>2, <1>5, <1>9, <2>2, <4>1, <5>1
        <5>3. OnlyOn(s, u)' /\ Untaken(u)' /\ u \in asked' \ rolledBack'
          BY <1>1, <1>2, <1>10, <2>2, <4>1
        <5>. QED BY <5>2, <5>3
      <4>. QED BY <4>2
    <3>. QED BY <3>1, <3>2 DEF StreamInv
  <2>. QED BY <2>1, <2>2
<1>12. TxInv'
  <2>1. /\ conn' = c /\ tx' = u /\ pc' = "resp" /\ call' = call
        /\ u # NoTx => /\ u \notin rolledBack' /\ (u \in asked' <=> call.kind = "commit")
                       /\ OnlyOn(c, u)' /\ Untaken(u)'
                       /\ stream'[c].inTx => Holds(c, u)'
    BY <1>1, <1>2, <1>5, <1>9, <1>10
  <2>. QED BY <2>1 DEF TxInv, OnlyOn, Untaken, Holds
<1>13. AloneInv' /\ LeftoverInv'
  BY <1>1 DEF StoreInv, AloneInv, LeftoverInv
<1>14. AnswerInv'
  BY <1>1, <1>2 DEF AnswerInv, Quiet
<1>. QED BY <1>8, <1>11, <1>12, <1>13, <1>14 DEF StoreInv

(* The program hears an answer.                                             *)
LEMMA ResponseKeepsStore ==
  ASSUME LinkInv, StoreInv, ReadsResponse
  PROVE  StoreInv'
<1>0. PICK c \in Sock, ok \in BOOLEAN :
        /\ c = conn /\ c \in open /\ toServer[c] = <<>>
        /\ toClient[c] = <<[of |-> Request, ok |-> ok]>>
  BY ResponseFacts
<1>1. /\ conn = c /\ conn' = c /\ pc = "resp" /\ pc' = "idle"
      /\ Head(toClient[c]).ok = ok /\ toClient[c] # <<>>
      /\ UNCHANGED <<open, toServer, stream, durable, txs, stmtTx>>
      /\ UNCHANGED <<asked, refused, doubtful, alone>>
      /\ tx' = IF call.kind \in {"commit", "rollback"} THEN NoTx
               ELSE IF call.kind = "begin" /\ ok THEN txs ELSE tx
      /\ acked' = IF ok /\ call.kind = "exec" THEN acked \cup {call.stmt} ELSE acked
      /\ rolledBack' = IF ok /\ call.kind = "rollback" THEN rolledBack \cup {tx}
                       ELSE rolledBack
  BY <1>0 DEF ReadsResponse, Reads, Tells, Succeeded, marked
<1>2. Truth(ok) /\ call.kind \in {"exec", "begin", "commit", "rollback"}
  <2>1. Truth(ok)
    BY <1>1 DEF StoreInv, AnswerInv
  <2>. QED BY <1>1, <2>1 DEF LinkInv, CallInv
<1>3. /\ tx # NoTx /\ call.kind # "commit" => tx \notin asked
      /\ call.kind = "exec" =>
           call.stmt \in DOMAIN stmtTx /\ call.stmt \in Of(tx) \cup Of(NoTx)
      /\ call.kind = "begin" => tx = NoTx /\ Beginning
      /\ call.kind \in {"commit", "rollback"} => tx # NoTx
  <2>1. tx # NoTx /\ call.kind # "commit" => tx \notin asked
    BY <1>1 DEF StoreInv, TxInv
  <2>2. call.kind = "exec" => call.stmt \in DOMAIN stmtTx /\ stmtTx[call.stmt] = tx
    BY <1>1, NumberTypes, LinkTypes DEF LinkInv, CallInv
  <2>. QED BY <1>1, <2>1, <2>2, NumberTypes DEF LinkInv, CallInv, Beginning, Of, IssuedIn
<1>4. /\ \A t : Of(t)' = Of(t) /\ Untaken(t)' = Untaken(t)
      /\ \A s \in Sock : Queued(s)' = Queued(s)
      /\ \A s, t : OnlyOn(s, t)' = OnlyOn(s, t)
  <2>1. /\ \A t : Of(t)' = Of(t) /\ Untaken(t)' = Untaken(t)
        /\ \A s : Queued(s)' = Queued(s)
    BY <1>1 DEF Of, IssuedIn, Untaken, Queued
  <2>2. \A s, t : Touches(s, t)' = Touches(s, t)
    BY <1>1, <2>1 DEF Touches
  <2>. QED BY <2>1, <2>2 DEF OnlyOn
<1>5. \A s, t : Holds(s, t) /\ t # NoTx /\ (t = tx => call.kind # "exec" \/ ~ok)
                => Holds(s, t)'
  <2>1. \A t : t \notin {tx, NoTx} /\ call.kind = "exec" => call.stmt \notin Of(t)
    BY <1>3 DEF Of
  <2>. QED BY <1>1, <1>4, <2>1 DEF Holds
<1>6. NumbersInv'
  <2>1. ~Beginning'
    BY <1>1 DEF Beginning
  <2>2. tx <= txs /\ (call.kind = "rollback" => tx \notin asked)
    BY <1>3, NumberTypes
  <2>. QED BY <1>1, <1>3, <2>1, <2>2 DEF StoreInv, NumbersInv
<1>7. \A s \in Sock : StreamInv(s)'
  <2>1. \A t \in asked \ rolledBack :
          /\ t \in asked' \ rolledBack'
          /\ t # NoTx /\ (t = tx => call.kind # "exec")
    BY <1>1, <1>3, NumberTypes
  <2>2. \A s \in Sock : \A t \in asked \ rolledBack : Holds(s, t) => Holds(s, t)'
    BY <1>5, <2>1
  <2>. QED BY <1>1, <1>4, <2>1, <2>2 DEF StoreInv, StreamInv
<1>8. TxInv'
  <2>1. CASE call.kind = "exec"
    <3>. SUFFICES ASSUME tx # NoTx PROVE TxInv'
      BY <1>1, <2>1 DEF TxInv
    <3>1. PICK u : u = tx /\ u = tx'
      BY <1>1, <2>1
    <3>2. /\ u # NoTx /\ u \notin rolledBack' /\ u \notin asked'
          /\ OnlyOn(c, u)' /\ Untaken(u)'
      BY <1>1, <1>3, <1>4, <2>1, <3>1 DEF StoreInv, TxInv
    <3>3. stream[c].inTx => Holds(c, u) /\ stream[c].state = "open"
      BY <1>0, <1>1, <2>1, <3>1 DEF StoreInv, TxInv, LinkInv, SockInv
    <3>4. ok /\ call.stmt \notin Of(NoTx) =>
            stream[c].state = "gone" \/ call.stmt \in stream[c].pending
      BY <1>1, <1>2, <2>1 DEF Truth
    <3>5. call.stmt \in Of(NoTx) => call.stmt \notin Of(u)
      BY <3>2 DEF Of
    <3>6. stream[c].inTx => Holds(c, u)'
      BY <1>1, <1>4, <2>1, <3>3, <3>4, <3>5 DEF Holds
    <3>. QED BY <1>1, <3>1, <3>2, <3>6 DEF TxInv, OnlyOn, Untaken, Holds
  <2>2. CASE call.kind = "begin"
    <3>. SUFFICES ASSUME ok PROVE TxInv'
      BY <1>1, <1>3, <2>2 DEF TxInv
    <3>1. PICK u : u = txs /\ u = tx' /\ u \in Nat /\ u # NoTx
      BY <1>1, <2>2, NumberTypes DEF LinkInv, CallInv
    <3>2. u \notin asked \cup rolledBack /\ Of(u) = {}
      BY <1>3, <2>2, <3>1, NumberTypes DEF StoreInv, NumbersInv, Of, IssuedIn
    <3>3. stream[c].inTx => stream[c].pending = {}
      BY <1>1, <1>2, <2>2 DEF Truth, LinkInv, SockInv
    <3>4. /\ u \notin rolledBack' /\ u \notin asked' /\ OnlyOn(c, u)' /\ Untaken(u)'
          /\ stream'[c].inTx => Holds(c, u)'
      BY <1>1, <1>4, <2>2, <3>2, <3>3 DEF OnlyOn, Touches, Untaken, Holds
    <3>. QED BY <1>1, <3>1, <3>4 DEF TxInv, OnlyOn, Untaken, Holds
  <2>3. CASE call.kind \in {"commit", "rollback"}
    BY <1>1, <2>3 DEF TxInv
  <2>. QED BY <1>2, <2>1, <2>2, <2>3
<1>9. LeftoverInv'
  <2>. SUFFICES ASSUME tx' = NoTx, stream[c].inTx PROVE c \in refused
    BY <1>1 DEF LeftoverInv
  <2>1. CASE call.kind = "exec"
    BY <1>0, <1>1, <2>1 DEF StoreInv, LeftoverInv
  <2>2. CASE call.kind = "begin"
    <3>1. ok => txs # NoTx
      BY <1>1, <2>2 DEF LinkInv, CallInv, NoTx
    <3>. QED BY <1>1, <1>2, <2>2, <3>1 DEF Truth
  <2>3. CASE call.kind \in {"commit", "rollback"}
    BY <1>1, <1>2, <2>3 DEF Truth
  <2>. QED BY <1>2, <2>1, <2>2, <2>3
<1>10. AloneInv' /\ AnswerInv'
  BY <1>1 DEF AloneInv, AnswerInv
<1>. QED BY <1>6, <1>7, <1>8, <1>9, <1>10 DEF StoreInv

-----------------------------------------------------------------------------
(* The server takes a message off the queue of one socket.                  *)
LEMMA ServedFacts ==
  ASSUME LinkInv, NEW s \in Sock, NEW st, NEW ok \in BOOLEAN, Served(s, st, ok)
  PROVE  /\ UNCHANGED <<open, conn, pc, call, tx, txs, stmtTx>>
         /\ UNCHANGED <<asked, committed, rolledBack, acked, doubtful, alone>>
         /\ toServer[s] # <<>> /\ Head(toServer[s]) \in Queued(s)
         /\ Queued(s)' \subseteq Queued(s)
         /\ Head(toServer[s]).kind \notin Greeting =>
              toServer'[s] = <<>> /\ Queued(s)' = {} /\ Queued(s) = {Head(toServer[s])}
         /\ stream'[s] = st
         /\ \A r \in Sock \ {s} : /\ toServer'[r] = toServer[r]
                                  /\ toClient'[r] = toClient[r]
                                  /\ stream'[r] = stream[r]
                                  /\ Queued(r)' = Queued(r)
         /\ \A t : Of(t)' = Of(t)
         /\ toClient[s] = <<>> /\ toClient'[s] # <<>> => Head(toClient'[s]).ok = ok
<1>1. /\ UNCHANGED <<open, conn, pc, call, tx, txs, stmtTx>>
      /\ UNCHANGED <<asked, committed, rolledBack, acked, doubtful, alone>>
      /\ toServer[s] # <<>> /\ stream' = [stream EXCEPT ![s] = st]
  BY DEF Served, program, told
<1>2. WsType
  BY LinkTypes
<1>3. /\ \A r \in Sock \ {s} : toServer'[r] = toServer[r] /\ toClient'[r] = toClient[r]
      /\ Head(toServer[s]) \in Queued(s) /\ Queued(s)' \subseteq Queued(s)
      /\ Len(toServer[s]) = 1 => toServer'[s] = <<>>
      /\ toClient[s] = <<>> =>
           toClient'[s] \in {<<>>, <<[of |-> Head(toServer[s]), ok |-> ok]>>}
  BY <1>2, ServedTakes
<1>4. stream'[s] = st /\ \A r \in Sock \ {s} : stream'[r] = stream[r]
  BY <1>1, <1>2 DEF WsType
<1>5. Head(toServer[s]).kind \notin Greeting =>
        toServer'[s] = <<>> /\ Queued(s)' = {} /\ Queued(s) = {Head(toServer[s])}
  <2>. SUFFICES ASSUME Head(toServer[s]).kind \notin Greeting
                PROVE  toServer'[s] = <<>> /\ Queued(s)' = {} /\ Queued(s) = {Head(toServer[s])}
    OBVIOUS
  <2>1. Len(toServer[s]) = 1
    BY <1>3 DEF LinkInv, SockInv
  <2>2. toServer[s] \in Seq(Message)
    BY <1>2 DEF WsType
  <2>3. Queued(s) = {Head(toServer[s])}
    BY <2>1, <2>2 DEF Queued
  <2>. QED BY <1>3, <2>1, <2>3 DEF Queued
<1>6. \A r \in Sock \ {s} : Queued(r)' = Queued(r)
  BY <1>3 DEF Queued
<1>7. toClient[s] = <<>> /\ toClient'[s] # <<>> => Head(toClient'[s]).ok = ok
  BY <1>3
<1>. QED BY <1>1, <1>3, <1>4, <1>5, <1>6, <1>7 DEF Of, IssuedIn

(* A request is served: it is the one of the call, if its socket is that of *)
(* the connection.                                                          *)
LEMMA ServedOnConn ==
  ASSUME LinkInv, NEW s \in Sock, NEW st, NEW ok \in BOOLEAN, Served(s, st, ok),
         s = conn
  PROVE  /\ conn \in open /\ pc = "resp" =>
              /\ toServer[s] = <<Request>> /\ Head(toServer[s]) = Request
              /\ toClient[s] = <<>>
         /\ conn \in open => pc = "resp"
         /\ pc = "resp" => conn \in open
         /\ conn \notin open => Head(toServer[s]).kind = "exec"
<1>1. toServer[s] # <<>> /\ Head(toServer[s]) \in Queued(s)
  BY ServedFacts
<1>. QED BY <1>1 DEF LinkInv, ConnInv, Quiet, Request

(* What happens on another socket leaves the connection's transaction alone. *)
LEMMA ElsewhereKeepsTx ==
  ASSUME LinkInv, StoreInv,
         UNCHANGED <<open, conn, pc, call, tx, stmtTx>>,
         UNCHANGED <<asked, rolledBack, acked, doubtful, alone>>,
         conn \in Sock => /\ toServer'[conn] = toServer[conn]
                          /\ toClient'[conn] = toClient[conn]
                          /\ stream'[conn] = stream[conn],
         \A r \in Sock : \A t : Touches(r, t)' => Touches(r, t),
         tx # NoTx /\ Of(tx) \cap durable = {} => Of(tx) \cap durable' = {},
         durable \subseteq durable', refused \subseteq refused',
         conn \in refused' => conn \in refused
  PROVE  TxInv' /\ AloneInv' /\ LeftoverInv' /\ AnswerInv'
<1>1. PICK c, u : c = conn /\ c = conn' /\ u = tx /\ u = tx'
  OBVIOUS
<1>2. c \in Sock \/ (c \notin open /\ pc # "resp" /\ u = NoTx)
  BY <1>1, LinkTypes DEF LinkInv, ConnInv, WsType
<1>3. \A t : Of(t)' = Of(t)
  BY DEF Of, IssuedIn
<1>4. TxInv'
  <2>1. u # NoTx =>
          /\ c \in Sock /\ u \notin rolledBack'
          /\ u \in asked' <=> pc' = "resp" /\ call'.kind = "commit"
          /\ OnlyOn(c, u)'
          /\ u \notin asked' \/ toServer'[c] # <<>> => Untaken(u)'
          /\ c \in open' /\ stream'[c].inTx => Holds(c, u)'
    <3>. SUFFICES ASSUME u # NoTx
                  PROVE  /\ c \in Sock /\ u \notin rolledBack'
                         /\ u \in asked' <=> pc' = "resp" /\ call'.kind = "commit"
                         /\ OnlyOn(c, u)'
                         /\ u \notin asked' \/ toServer'[c] # <<>> => Untaken(u)'
                         /\ c \in open' /\ stream'[c].inTx => Holds(c, u)'
      OBVIOUS
    <3>1. /\ u \notin rolledBack
          /\ u \in asked <=> pc = "resp" /\ call.kind = "commit"
          /\ OnlyOn(c, u)
          /\ u \notin asked \/ toServer[c] # <<>> => Untaken(u)
          /\ c \in open /\ stream[c].inTx => Holds(c, u)
      BY <1>1 DEF StoreInv, TxInv
    <3>2. OnlyOn(c, u)'
      BY <3>1 DEF OnlyOn
    <3>3. Untaken(u) => Untaken(u)'
      BY <1>1, <1>3 DEF Untaken
    <3>4. c \in Sock /\ (Holds(c, u) => Holds(c, u)')
      BY <1>1, <1>2, <1>3 DEF Holds
    <3>. QED BY <1>1, <3>1, <3>2, <3>3, <3>4
  <2>. QED BY <1>1, <2>1 DEF TxInv, OnlyOn, Untaken, Holds
<1>5. AloneInv' /\ LeftoverInv'
  BY <1>1, <1>2 DEF StoreInv, AloneInv, LeftoverInv
<1>6. AnswerInv'
  <2>. SUFFICES ASSUME pc = "resp", toClient[c] # <<>>
                PROVE  Truth(Head(toClient[c]).ok)'
    BY <1>1, <1>2 DEF AnswerInv
  <2>1. Truth(Head(toClient[c]).ok)
    BY <1>1 DEF StoreInv, AnswerInv
  <2>2. Of(tx)' = Of(tx) /\ Of(NoTx)' = Of(NoTx) /\ c \in Sock
    BY <1>2 DEF Of, IssuedIn, NoTx
  <2>. QED BY <1>1, <2>1, <2>2 DEF Truth
<1>. QED BY <1>4, <1>5, <1>6

(* The greetings.                                                           *)
LEMMA GreetedKeepsStore ==
  ASSUME LinkInv, StoreInv, NEW s \in Sock, ServesHello(s) \/ ServesOpenStream(s)
  PROVE  /\ StoreInv'
         /\ UNCHANGED <<stmtTx, alone, durable, acked, asked, committed, rolledBack, doubtful>>
<1>1. /\ \E ok \in BOOLEAN, st \in [state: {"new", "greeted", "open", "gone"},
                                    inTx: BOOLEAN, pending: SUBSET Stmt] :
           Served(s, st, ok) /\ st.inTx = stream[s].inTx /\ st.pending = stream[s].pending
      /\ UNCHANGED <<durable, refused>>
      /\ Head(toServer[s]).kind \in Greeting
      /\ stream[s].state \in {"new", "greeted"}
  <2>1. stream[s] \in [state: {"new", "greeted", "open", "gone"},
                       inTx: BOOLEAN, pending: SUBSET Stmt]
    BY LinkTypes DEF WsType
  <2>2. \A v \in {"new", "greeted", "open", "gone"} :
          LET st == [stream[s] EXCEPT !.state = v]
          IN  /\ st \in [state: {"new", "greeted", "open", "gone"},
                         inTx: BOOLEAN, pending: SUBSET Stmt]
              /\ st.inTx = stream[s].inTx /\ st.pending = stream[s].pending
    BY <2>1
  <2>. QED BY <2>1, <2>2 DEF ServesHello, ServesOpenStream, Asks, Greeting
<1>2. PICK ok \in BOOLEAN, st \in [state: {"new", "greeted", "open", "gone"},
                                   inTx: BOOLEAN, pending: SUBSET Stmt] :
        Served(s, st, ok) /\ st.inTx = stream[s].inTx /\ st.pending = stream[s].pending
  BY <1>1
<1>3. /\ UNCHANGED <<open, conn, pc, call, tx, txs, stmtTx>>
      /\ UNCHANGED <<asked, committed, rolledBack, acked, doubtful, alone, durable, refused>>
      /\ \A r \in Sock : /\ Queued(r)' \subseteq Queued(r)
                         /\ stream'[r].inTx = stream[r].inTx
                         /\ stream'[r].pending = stream[r].pending
      /\ \A r \in Sock \ {s} : /\ toServer'[r] = toServer[r]
                               /\ toClient'[r] = toClient[r]
                               /\ stream'[r] = stream[r]
  BY <1>1, <1>2, ServedFacts
<1>4. /\ ~stream[s].inTx /\ stream[s].state # "gone" /\ s # conn
  <2>1. ~stream[s].inTx /\ stream[s].state # "gone"
    BY <1>1 DEF LinkInv, SockInv
  <2>2. s # conn
    BY <1>1, <1>2, ServedOnConn, NumberTypes DEF Request, Greeting, LinkInv, CallInv
  <2>. QED BY <2>1, <2>2
<1>5. /\ \A t : Of(t)' = Of(t) /\ Untaken(t)' = Untaken(t)
      /\ \A r \in Sock : \A t : Holds(r, t)' = Holds(r, t) /\ (Touches(r, t)' => Touches(r, t))
  <2>1. \A t : Of(t)' = Of(t)
    BY <1>3 DEF Of, IssuedIn
  <2>2. \A t : Untaken(t)' = Untaken(t)
    BY <1>3, <2>1 DEF Untaken
  <2>. QED BY <1>3, <2>1, <2>2 DEF Holds, Touches
<1>6. \A r, t : OnlyOn(r, t) => OnlyOn(r, t)'
  BY <1>5 DEF OnlyOn
<1>7. NumbersInv'
  BY <1>3 DEF StoreInv, NumbersInv, Beginning
<1>8. \A r \in Sock : StreamInv(r)'
  <2>. SUFFICES ASSUME NEW r \in Sock PROVE StreamInv(r)'
    OBVIOUS
  <2>1. StreamInv(r)
    BY DEF StoreInv
  <2>2. CASE r = s
    BY <1>3, <1>4, <1>5, <2>1, <2>2 DEF StreamInv
  <2>3. CASE r # s
    BY <1>3, <1>5, <1>6, <2>1, <2>3 DEF StreamInv
  <2>. QED BY <2>2, <2>3
<1>9. TxInv' /\ AloneInv' /\ LeftoverInv' /\ AnswerInv'
  BY <1>3, <1>4, <1>5, ElsewhereKeepsTx
<1>. QED BY <1>3, <1>7, <1>8, <1>9 DEF StoreInv

(* A request fails. *)
LEMMA FailureKeepsStore ==
  ASSUME LinkInv, StoreInv, NEW s \in Sock, FailsToExecute(s)
  PROVE  /\ StoreInv'
         /\ UNCHANGED <<stmtTx, alone, durable, acked, asked, committed, rolledBack, doubtful>>
<1>1. /\ Served(s, stream[s], FALSE) /\ stream[s].state = "open"
      /\ Head(toServer[s]).kind = "rollback" => ~stream[s].inTx
      /\ refused' = IF Head(toServer[s]).kind = "commit" /\ stream[s].inTx
                    THEN refused \cup {s} ELSE refused
      /\ UNCHANGED <<durable, ran>>
  BY DEF FailsToExecute, Asks
<1>2. /\ UNCHANGED <<open, conn, pc, call, tx, txs, stmtTx>>
      /\ UNCHANGED <<asked, committed, rolledBack, acked, doubtful, alone>>
      /\ toServer[s] # <<>>
      /\ \A r \in Sock : Queued(r)' \subseteq Queued(r) /\ stream'[r] = stream[r]
      /\ \A r \in Sock \ {s} : toServer'[r] = toServer[r] /\ toClient'[r] = toClient[r]
      /\ \A t : Of(t)' = Of(t)
      /\ Head(toServer[s]).kind \notin Greeting => toServer'[s] = <<>>
      /\ toClient[s] = <<>> /\ toClient'[s] # <<>> => Head(toClient'[s]).ok = FALSE
  BY <1>1, ServedFacts
<1>3. /\ \A t : Untaken(t)' = Untaken(t)
      /\ \A r \in Sock : \A t : Holds(r, t)' = Holds(r, t) /\ (Touches(r, t)' => Touches(r, t))
  BY <1>1, <1>2 DEF Untaken, Holds, Touches
<1>4. \A r, t : OnlyOn(r, t) => OnlyOn(r, t)'
  BY <1>3 DEF OnlyOn
<1>5. NumbersInv'
  BY <1>1, <1>2 DEF StoreInv, NumbersInv, Beginning
<1>6. \A r \in Sock : StreamInv(r)'
  <2>. SUFFICES ASSUME NEW r \in Sock PROVE StreamInv(r)'
    OBVIOUS
  <2>1. StreamInv(r)
    BY DEF StoreInv
  <2>. QED BY <1>2, <1>3, <1>4, <2>1 DEF StreamInv
<1>7. CASE s # conn
  <2>1. conn \in refused' => conn \in refused
    BY <1>1, <1>7
  <2>2. refused \subseteq refused' /\ durable \subseteq durable' /\ durable' = durable
    BY <1>1
  <2>. QED BY <1>1, <1>2, <1>3, <1>5, <1>6, <1>7, <2>1, <2>2, ElsewhereKeepsTx DEF StoreInv
<1>8. CASE s = conn
  <2>1. PICK u : u = tx /\ u = tx'
    BY <1>2
  <2>2. /\ conn' = s /\ refused \subseteq refused'
        /\ s \in open => /\ pc = "resp" /\ Head(toServer[s]) = Request /\ toClient[s] = <<>>
                         /\ Head(toServer[s]).kind = call.kind
                         /\ call.kind \in {"exec", "begin", "commit", "rollback"}
                         /\ toServer'[s] = <<>>
        /\ pc = "resp" => s \in open
    <3>1. s \in open => Head(toServer[s]) = Request /\ pc = "resp" /\ toClient[s] = <<>>
      BY <1>1, <1>8, ServedOnConn
    <3>2. s \in open => call.kind \in {"exec", "begin", "commit", "rollback"}
      BY <3>1 DEF LinkInv, CallInv
    <3>3. s \in open => Head(toServer[s]).kind = call.kind
      BY <3>1 DEF Request
    <3>4. s \in open => toServer'[s] = <<>>
      BY <1>2, <3>2, <3>3 DEF Greeting
    <3>5. conn' = s /\ refused \subseteq refused' /\ (pc = "resp" => s \in open)
      BY <1>1, <1>2, <1>8, ServedOnConn
    <3>. QED BY <3>1, <3>2, <3>3, <3>4, <3>5
  <2>3. TxInv'
    <3>1. u # NoTx =>
            /\ u \notin rolledBack'
            /\ u \in asked' <=> pc' = "resp" /\ call'.kind = "commit"
            /\ OnlyOn(s, u)'
            /\ u \notin asked' \/ toServer'[s] # <<>> => Untaken(u)'
            /\ s \in open' /\ stream'[s].inTx => Holds(s, u)'
      BY <1>2, <1>3, <1>4, <1>8, <2>1 DEF StoreInv, TxInv
    <3>. QED BY <2>1, <2>2, <3>1 DEF TxInv, OnlyOn, Untaken, Holds
  <2>4. tx = NoTx /\ s \in open /\ stream[s].inTx => s \in refused
    BY <1>2, <1>8 DEF StoreInv, LeftoverInv
  <2>5. LeftoverInv'
    BY <1>1, <1>2, <1>8, <2>2, <2>4 DEF StoreInv, LeftoverInv
  <2>6. AloneInv'
    BY <1>2, <1>8, <2>2 DEF StoreInv, AloneInv
  <2>7. AnswerInv'
    <3>. SUFFICES ASSUME pc = "resp", toClient'[s] # <<>> PROVE Truth(FALSE)'
      BY <1>2, <2>2 DEF AnswerInv
    <3>1. call.kind = "begin" => tx = NoTx
      BY DEF LinkInv, CallInv
    <3>2. call.kind = "commit" => (stream[s].inTx => s \in refused')
      BY <1>1, <2>2
    <3>. QED BY <1>1, <1>2, <2>2, <2>4, <3>1, <3>2 DEF Truth
  <2>. QED BY <1>1, <1>2, <1>5, <1>6, <2>3, <2>5, <2>6, <2>7 DEF StoreInv
<1>. QED BY <1>1, <1>2, <1>7, <1>8

(* A request fails, and takes the transaction with it.                      *)
LEMMA RollsBackKeepsStore ==
  ASSUME LinkInv, StoreInv, NEW s \in Sock, FailsAndRollsBack(s)
  PROVE  /\ StoreInv'
         /\ UNCHANGED <<stmtTx, alone, durable, acked, asked, committed, rolledBack, doubtful>>
<1>1. /\ Served(s, [stream[s] EXCEPT !.inTx = FALSE, !.pending = {}], FALSE)
      /\ Head(toServer[s]).kind \in {"exec", "commit"}
      /\ stream[s].inTx /\ UNCHANGED <<durable, refused>>
  BY DEF FailsAndRollsBack, Asks
<1>2. /\ UNCHANGED <<open, conn, pc, call, tx, txs, stmtTx>>
      /\ UNCHANGED <<asked, committed, rolledBack, acked, doubtful, alone>>
      /\ toServer'[s] = <<>> /\ Queued(s)' = {}
      /\ stream'[s] = [stream[s] EXCEPT !.inTx = FALSE, !.pending = {}]
      /\ \A r \in Sock \ {s} : /\ toServer'[r] = toServer[r] /\ toClient'[r] = toClient[r]
                               /\ stream'[r] = stream[r] /\ Queued(r)' = Queued(r)
      /\ \A t : Of(t)' = Of(t)
      /\ toClient[s] = <<>> /\ toClient'[s] # <<>> => Head(toClient'[s]).ok = FALSE
  <2>1. Head(toServer[s]).kind \notin Greeting
    BY <1>1 DEF Greeting
  <2>. QED BY <1>1, <2>1, ServedFacts
<1>3. stream'[s].inTx = FALSE /\ stream'[s].pending = {}
  BY <1>2, LinkTypes DEF WsType
<1>4. /\ \A t : Untaken(t)' = Untaken(t)
      /\ \A r \in Sock : \A t : Touches(r, t)' => Touches(r, t)
      /\ \A r \in Sock \ {s} : \A t : Holds(r, t)' = Holds(r, t)
  BY <1>1, <1>2, <1>3 DEF Untaken, Holds, Touches
<1>5. \A r, t : OnlyOn(r, t) => OnlyOn(r, t)'
  BY <1>4 DEF OnlyOn
<1>6. NumbersInv'
  <2>1. \A r \in Sock : stream'[r].pending \subseteq stream[r].pending
    BY <1>2, <1>3
  <2>. QED BY <1>1, <1>2, <2>1 DEF StoreInv, NumbersInv, Beginning
<1>7. \A r \in Sock : StreamInv(r)'
  <2>. SUFFICES ASSUME NEW r \in Sock PROVE StreamInv(r)'
    OBVIOUS
  <2>1. CASE r = s
    BY <1>2, <2>1 DEF StreamInv
  <2>2. CASE r # s
    <3>1. StreamInv(r)
      BY DEF StoreInv
    <3>. QED BY <1>2, <1>4, <1>5, <2>2, <3>1 DEF StreamInv
  <2>. QED BY <2>1, <2>2
<1>8. CASE s # conn
  BY <1>1, <1>2, <1>4, <1>6, <1>7, <1>8, ElsewhereKeepsTx DEF StoreInv
<1>9. CASE s = conn
  <2>1. PICK u : u = tx /\ u = tx'
    BY <1>2
  <2>2. /\ conn' = s /\ (pc = "resp" => toClient[s] = <<>>)
        /\ s \in open => pc = "resp" /\ call.kind \in {"exec", "commit"}
    <3>1. /\ s \in open => pc = "resp" /\ Head(toServer[s]) = Request /\ toClient[s] = <<>>
          /\ pc = "resp" => s \in open
      BY <1>1, <1>9, ServedOnConn
    <3>. QED BY <1>1, <1>2, <1>9, <3>1 DEF Request
  <2>3. TxInv'
    <3>1. u # NoTx =>
            /\ u \notin rolledBack'
            /\ u \in asked' <=> pc' = "resp" /\ call'.kind = "commit"
            /\ OnlyOn(s, u)'
            /\ u \notin asked' => Untaken(u)'
      BY <1>2, <1>4, <1>5, <1>9, <2>1 DEF StoreInv, TxInv
    <3>. QED BY <1>2, <1>3, <2>1, <2>2, <3>1 DEF TxInv, OnlyOn, Untaken
  <2>4. AloneInv' /\ LeftoverInv'
    BY <1>1, <1>2, <1>3, <1>9, <2>2 DEF StoreInv, AloneInv, LeftoverInv
  <2>5. AnswerInv'
    <3>. SUFFICES ASSUME pc = "resp", toClient'[s] # <<>> PROVE Truth(FALSE)'
      BY <1>2, <2>2 DEF AnswerInv
    <3>. QED BY <1>2, <1>3, <2>2 DEF Truth
  <2>. QED BY <1>1, <1>2, <1>6, <1>7, <2>3, <2>4, <2>5 DEF StoreInv
<1>. QED BY <1>1, <1>2, <1>8, <1>9

(* The server's end of a socket ends, and with it its transaction.          *)
LEMMA EndsKeepsStore ==
  ASSUME LinkInv, StoreInv, NEW s \in Sock, Ends(s)
  PROVE  /\ StoreInv'
         /\ UNCHANGED <<stmtTx, alone, durable, acked, asked, committed, rolledBack, doubtful>>
<1>1. /\ toServer' = [toServer EXCEPT ![s] = <<>>]
      /\ stream' = [stream EXCEPT ![s] = [state |-> "gone", inTx |-> FALSE, pending |-> {}]]
      /\ UNCHANGED <<open, toClient, durable, conn, pc, call>>
      /\ UNCHANGED <<tx, txs, stmtTx, asked, committed, rolledBack, acked, refused, doubtful, alone>>
  BY DEF Ends, program, ghosts, marked, told
<1>2. /\ toServer'[s] = <<>> /\ Queued(s)' = {}
      /\ stream'[s] = [state |-> "gone", inTx |-> FALSE, pending |-> {}]
      /\ \A r \in Sock \ {s} : /\ toServer'[r] = toServer[r] /\ stream'[r] = stream[r]
                               /\ Queued(r)' = Queued(r)
      /\ \A t : Of(t)' = Of(t) /\ Untaken(t)' = Untaken(t)
  <2>1. /\ toServer'[s] = <<>>
        /\ stream'[s] = [state |-> "gone", inTx |-> FALSE, pending |-> {}]
        /\ \A r \in Sock \ {s} : toServer'[r] = toServer[r] /\ stream'[r] = stream[r]
    BY <1>1, LinkTypes DEF WsType
  <2>. QED BY <1>1, <2>1 DEF Queued, Of, IssuedIn, Untaken
<1>3. \A r \in Sock : \A t : Touches(r, t)' => Touches(r, t)
  BY <1>2 DEF Touches
<1>4. \A r, t : OnlyOn(r, t) => OnlyOn(r, t)'
  BY <1>3 DEF OnlyOn
<1>5. \A r \in Sock \ {s} : \A t : Holds(r, t)' = Holds(r, t)
  BY <1>1, <1>2 DEF Holds
<1>6. NumbersInv'
  <2>1. \A r \in Sock : stream'[r].pending \subseteq stream[r].pending
    BY <1>2
  <2>. QED BY <1>1, <2>1 DEF StoreInv, NumbersInv, Beginning
<1>7. \A r \in Sock : StreamInv(r)'
  <2>. SUFFICES ASSUME NEW r \in Sock PROVE StreamInv(r)'
    OBVIOUS
  <2>1. CASE r = s
    BY <1>2, <2>1 DEF StreamInv
  <2>2. CASE r # s
    <3>1. StreamInv(r)
      BY DEF StoreInv
    <3>. QED BY <1>1, <1>2, <1>4, <1>5, <2>2, <3>1 DEF StreamInv
  <2>. QED BY <2>1, <2>2
<1>8. CASE s # conn
  BY <1>1, <1>2, <1>3, <1>6, <1>7, <1>8, ElsewhereKeepsTx DEF StoreInv
<1>9. CASE s = conn
  <2>1. PICK u : u = tx /\ u = tx'
    BY <1>1
  <2>2. TxInv'
    <3>1. u # NoTx =>
            /\ u \notin rolledBack'
            /\ u \in asked' <=> pc' = "resp" /\ call'.kind = "commit"
            /\ OnlyOn(s, u)'
            /\ u \notin asked' => Untaken(u)'
      BY <1>1, <1>2, <1>4, <1>9, <2>1 DEF StoreInv, TxInv
    <3>. QED BY <1>1, <1>2, <1>9, <2>1, <3>1 DEF TxInv, OnlyOn, Untaken
  <2>3. AloneInv' /\ LeftoverInv'
    BY <1>1, <1>2, <1>9 DEF StoreInv, AloneInv, LeftoverInv
  <2>4. AnswerInv'
    <3>. SUFFICES ASSUME pc = "resp", toClient[s] # <<>>
                  PROVE  Truth(Head(toClient[s]).ok)'
      BY <1>1, <1>9 DEF AnswerInv
    <3>1. Truth(Head(toClient[s]).ok)
      BY <1>9 DEF StoreInv, AnswerInv
    <3>2. Of(tx)' = Of(tx) /\ Of(NoTx)' = Of(NoTx) /\ conn' = s
      BY <1>1, <1>9 DEF Of, IssuedIn, NoTx
    <3>. QED BY <1>1, <1>2, <1>9, <3>1, <3>2 DEF Truth
  <2>. QED BY <1>1, <1>6, <1>7, <2>2, <2>3, <2>4 DEF StoreInv
<1>. QED BY <1>8, <1>9

(* A request is executed. What becomes durable is a statement outside any   *)
(* transaction, or a whole transaction whose COMMIT was asked for.          *)
TakesWhole(t) ==
  \E S \in SUBSET Of(t) : Of(t) \cap acked \subseteq S /\ durable' = durable \cup S

LEMMA ExecutesKeepsStore ==
  ASSUME LinkInv, StoreInv, NEW s \in Sock, Executes(s)
  PROVE  /\ StoreInv'
         /\ UNCHANGED <<stmtTx, alone, acked, asked, committed, rolledBack, doubtful>>
         /\ \/ durable' = durable
            \/ \E S \in SUBSET Of(NoTx) : durable' = durable \cup S
            \/ \E t \in asked \ rolledBack : Untaken(t) /\ TakesWhole(t)
<1>. DEFINE h == Head(toServer[s])
            exec == h.kind = "exec"
<1>1. /\ \E st : Served(s, st, TRUE)
      /\ stream[s].state = "open" /\ stream'[s].state = "open" /\ refused' = refused
      /\ \/ /\ exec /\ stream[s].inTx /\ stream'[s].inTx
            /\ stream'[s].pending = stream[s].pending \cup {h.stmt} /\ durable' = durable
         \/ /\ exec /\ ~stream[s].inTx /\ ~stream'[s].inTx /\ stream'[s].pending = {}
            /\ durable' = durable \cup {h.stmt}
         \/ /\ h.kind = "begin" /\ ~stream[s].inTx /\ stream'[s].inTx
            /\ stream'[s].pending = {} /\ durable' = durable
         \/ /\ h.kind = "commit" /\ stream[s].inTx /\ ~stream'[s].inTx
            /\ stream'[s].pending = {} /\ durable' = durable \cup stream[s].pending
         \/ /\ h.kind = "rollback" /\ stream[s].inTx /\ ~stream'[s].inTx
            /\ stream'[s].pending = {} /\ durable' = durable
  <2>1. /\ stream[s] \in [state: {"new", "greeted", "open", "gone"},
                          inTx: BOOLEAN, pending: SUBSET Stmt]
        /\ ~stream[s].inTx => stream[s].pending = {}
    BY LinkTypes DEF WsType, LinkInv, SockInv
  <2>2. \A st : Served(s, st, TRUE) => stream'[s] = st
    BY ServedFacts
  <2>3. CASE exec /\ stream[s].inTx
    BY <2>1, <2>2, <2>3 DEF Executes
  <2>4. CASE exec /\ ~stream[s].inTx
    BY <2>1, <2>2, <2>4 DEF Executes
  <2>5. CASE h.kind = "begin"
    BY <2>1, <2>2, <2>5 DEF Executes
  <2>6. CASE h.kind = "commit"
    BY <2>1, <2>2, <2>6 DEF Executes
  <2>7. CASE h.kind = "rollback"
    BY <2>1, <2>2, <2>7 DEF Executes
  <2>. QED BY <2>3, <2>4, <2>5, <2>6, <2>7 DEF Executes
<1>2. /\ UNCHANGED <<open, conn, pc, call, tx, txs, stmtTx>>
      /\ UNCHANGED <<asked, committed, rolledBack, acked, doubtful, alone>>
      /\ toServer[s] # <<>> /\ toServer'[s] = <<>> /\ Queued(s) = {h} /\ Queued(s)' = {}
      /\ \A r \in Sock \ {s} : /\ toServer'[r] = toServer[r]
                               /\ toClient'[r] = toClient[r]
                               /\ stream'[r] = stream[r]
                               /\ Queued(r)' = Queued(r)
      /\ \A t : Of(t)' = Of(t)
      /\ toClient[s] = <<>> /\ toClient'[s] # <<>> => Head(toClient'[s]).ok = TRUE
  <2>1. PICK st : Served(s, st, TRUE)
    BY <1>1
  <2>2. h.kind \notin Greeting
    BY <1>1 DEF Greeting
  <2>. QED BY <2>1, <2>2, ServedFacts
<1>3. /\ exec => h.stmt \in DOMAIN stmtTx /\ (~stream[s].inTx => h.stmt \in Of(NoTx))
      /\ h.kind = "commit" =>
           \E t \in asked \ rolledBack : Holds(s, t) /\ OnlyOn(s, t) /\ Untaken(t)
      /\ stream[s].pending \subseteq DOMAIN stmtTx
  <2>1. StreamInv(s) /\ h \in Queued(s) /\ stream[s].pending \subseteq DOMAIN stmtTx
    BY <1>2 DEF StoreInv, NumbersInv
  <2>2. exec => h.stmt \in DOMAIN stmtTx
    BY <2>1, NumberTypes DEF LinkInv, SockInv
  <2>3. exec /\ ~stream[s].inTx => h.stmt \in Of(NoTx)
    BY <1>1, <2>1 DEF StreamInv
  <2>4. h.kind = "commit" =>
          \E t \in asked \ rolledBack : Holds(s, t) /\ OnlyOn(s, t) /\ Untaken(t)
    BY <1>1, <2>1 DEF StreamInv
  <2>. QED BY <2>1, <2>2, <2>3, <2>4
<1>. HIDE DEF h
<1>4. \A r \in Sock : \A t : Touches(r, t)' => Touches(r, t)
  <2>. SUFFICES ASSUME NEW r \in Sock, NEW t, Touches(r, t)' PROVE Touches(r, t)
    OBVIOUS
  <2>1. CASE r # s
    BY <1>2, <2>1 DEF Touches
  <2>2. CASE r = s
    <3>1. stream'[s].pending \cap Of(t) # {}
      BY <1>2, <2>2 DEF Touches
    <3>2. stream'[s].pending \subseteq stream[s].pending \cup (IF exec THEN {h.stmt} ELSE {})
      BY <1>1
    <3>3. stream[s].pending \cap Of(t) # {} \/ (exec /\ h.stmt \in Of(t))
      BY <3>1, <3>2
    <3>. QED BY <1>2, <2>2, <3>3 DEF Touches
  <2>. QED BY <2>1, <2>2
<1>5. \A r, t : OnlyOn(r, t) => OnlyOn(r, t)'
  BY <1>4 DEF OnlyOn
<1>6. \A r, t : t # NoTx /\ Untaken(t) /\ ((OnlyOn(r, t) /\ r # s) \/ h.kind # "commit")
                => Untaken(t)'
  <2>. SUFFICES ASSUME NEW r, NEW t, t # NoTx, Untaken(t),
                       (OnlyOn(r, t) /\ r # s) \/ h.kind # "commit"
                PROVE  Untaken(t)'
    OBVIOUS
  <2>1. h.kind = "commit" => stream[s].pending \cap Of(t) = {}
    BY DEF OnlyOn, Touches
  <2>2. exec /\ ~stream[s].inTx => h.stmt \notin Of(t)
    BY <1>3 DEF Of
  <2>3. Of(t) \cap durable' = {}
    BY <1>1, <2>1, <2>2 DEF Untaken
  <2>. QED BY <1>2, <2>3 DEF Untaken
<1>7. \A r \in Sock \ {s} : \A t : Holds(r, t)' = Holds(r, t)
  BY <1>2 DEF Holds
<1>8. durable \subseteq durable' /\ refused' = refused
  BY <1>1
<1>9. NumbersInv'
  <2>1. \A r \in Sock : stream'[r].pending \subseteq DOMAIN stmtTx
    <3>1. stream'[s].pending \subseteq DOMAIN stmtTx
      BY <1>1, <1>3
    <3>. QED BY <1>2, <3>1 DEF StoreInv, NumbersInv
  <2>2. durable' \subseteq DOMAIN stmtTx
    BY <1>1, <1>3 DEF StoreInv, NumbersInv
  <2>. QED BY <1>2, <2>1, <2>2 DEF StoreInv, NumbersInv, Beginning
<1>10. \A r \in Sock : StreamInv(r)'
  <2>. SUFFICES ASSUME NEW r \in Sock PROVE StreamInv(r)'
    OBVIOUS
  <2>1. CASE r = s
    BY <1>2, <2>1 DEF StreamInv
  <2>2. CASE r # s
    <3>1. StreamInv(r)
      BY DEF StoreInv
    <3>2. \A t \in asked \ rolledBack :
            Holds(r, t) /\ OnlyOn(r, t) /\ Untaken(t)
              => Holds(r, t)' /\ OnlyOn(r, t)' /\ Untaken(t)'
      BY <1>5, <1>6, <1>7, <2>2, NumberTypes
    <3>. QED BY <1>2, <2>2, <3>1, <3>2 DEF StreamInv
  <2>. QED BY <2>1, <2>2
<1>11. ASSUME s # conn
       PROVE  StoreInv'
  <2>1. tx # NoTx /\ Of(tx) \cap durable = {} => Of(tx) \cap durable' = {}
    <3>1. PICK c, u : c = conn /\ u = tx
      OBVIOUS
    <3>2. u # NoTx => OnlyOn(c, u)
      BY <3>1 DEF StoreInv, TxInv
    <3>3. u # NoTx /\ Untaken(u) => Untaken(u)'
      BY <1>6, <1>11, <3>1, <3>2
    <3>. QED BY <1>2, <3>1, <3>3 DEF Untaken
  <2>. QED BY <1>2, <1>4, <1>8, <1>9, <1>10, <1>11, <2>1, ElsewhereKeepsTx DEF StoreInv
<1>12. ASSUME s = conn
       PROVE  StoreInv'
  <2>1. PICK u : u = tx /\ u = tx'
    BY <1>2
  <2>2. /\ conn' = s
        /\ s \in open => /\ pc = "resp" /\ h = Request /\ h.kind = call.kind
                         /\ h.stmt = call.stmt /\ toClient[s] = <<>>
        /\ pc = "resp" => s \in open
        /\ s \notin open => exec
    <3>1. PICK st : Served(s, st, TRUE)
      BY <1>1
    <3>2. /\ s \in open => pc = "resp" /\ h = Request /\ toClient[s] = <<>>
          /\ pc = "resp" => s \in open
          /\ s \notin open => exec
      BY <1>12, <3>1, ServedOnConn DEF h
    <3>. QED BY <1>2, <1>12, <3>2 DEF Request
  <2>3. s \in open =>
          /\ call.kind = "begin" => u = NoTx
          /\ call.kind \in {"commit", "rollback"} => u # NoTx
          /\ exec => h.stmt \in Of(u) \cup Of(NoTx)
          /\ exec /\ u # NoTx /\ h.stmt \in Of(NoTx) => h.stmt \in alone
    <3>1. s \in open =>
            /\ call.kind = "begin" => u = NoTx
            /\ call.kind \in {"commit", "rollback"} => u # NoTx
            /\ call.kind = "exec" => stmtTx[call.stmt] = u
      BY <2>1, <2>2 DEF LinkInv, CallInv
    <3>. QED BY <1>3, <2>2, <3>1, NumberTypes DEF Of, IssuedIn
  <2>4. u # NoTx =>
          /\ u \notin rolledBack /\ OnlyOn(s, u) /\ Untaken(u)
          /\ u \in asked <=> pc = "resp" /\ call.kind = "commit"
          /\ s \in open /\ stream[s].inTx => Holds(s, u)
    BY <1>1, <1>2, <1>12, <2>1 DEF StoreInv, TxInv
  <2>5. u = NoTx /\ s \in open /\ stream[s].inTx => s \in refused
    BY <1>2, <1>12, <2>1 DEF StoreInv, LeftoverInv
  <2>6. TxInv'
    <3>1. u # NoTx /\ u \notin asked => Untaken(u)'
      <4>1. u # NoTx /\ u \notin asked => h.kind # "commit"
        BY <2>2, <2>4
      <4>. QED BY <1>6, <2>4, <4>1
    <3>2. u # NoTx /\ s \in open /\ stream'[s].inTx => Holds(s, u)'
      <4>. SUFFICES ASSUME u # NoTx, s \in open, stream'[s].inTx
                    PROVE  Holds(s, u)'
        OBVIOUS
      <4>1. exec /\ stream[s].inTx
        BY <1>1, <2>2, <2>3
      <4>2. h.stmt \in Of(u)
        <5>1. call.kind = "exec" /\ h.stmt = call.stmt /\ pc = "resp" /\ tx # NoTx
          BY <2>1, <2>2, <4>1
        <5>2. call.stmt \notin alone
          BY <1>12, <4>1, <5>1 DEF StoreInv, AloneInv
        <5>. QED BY <2>3, <4>1, <5>1, <5>2
      <4>3. stream'[s].pending = stream[s].pending \cup {h.stmt}
        BY <1>1, <4>1
      <4>. QED BY <1>2, <2>4, <4>1, <4>2, <4>3 DEF Holds
    <3>3. u # NoTx => OnlyOn(s, u)'
      BY <1>5, <2>4
    <3>. QED BY <1>2, <2>1, <2>2, <2>4, <3>1, <3>2, <3>3 DEF TxInv, OnlyOn, Untaken, Holds
  <2>7. LeftoverInv'
    <3>1. u = NoTx /\ s \in open /\ stream'[s].inTx =>
            s \in refused \/ (pc = "resp" /\ call.kind = "begin")
      BY <1>1, <2>2, <2>5
    <3>2. s \in open /\ toClient'[s] # <<>> => Head(toClient'[s]).ok
      BY <1>2, <2>2
    <3>. QED BY <1>2, <1>8, <1>12, <2>1, <2>2, <3>1, <3>2 DEF StoreInv, LeftoverInv
  <2>8. AloneInv'
    <3>1. u # NoTx /\ s \in open /\ exec /\ h.stmt \in alone => ~stream[s].inTx /\ ~stream'[s].inTx
      <4>1. u # NoTx /\ s \in open /\ exec /\ h.stmt \in alone => ~stream[s].inTx
        BY <1>12, <2>1, <2>2 DEF StoreInv, AloneInv
      <4>. QED BY <1>1, <4>1
    <3>. QED BY <1>2, <1>12, <2>1, <2>2, <3>1 DEF AloneInv
  <2>9. AnswerInv'
    <3>. SUFFICES ASSUME pc = "resp" PROVE Truth(TRUE)'
      BY <1>2, <2>2 DEF AnswerInv
    <3>0. s \in open /\ h.kind = call.kind /\ h.stmt = call.stmt
      BY <2>2
    <3>1. call.kind = "begin" => stream'[s].inTx /\ stream'[s].pending = {}
      BY <1>1, <3>0
    <3>2. call.kind = "exec" => IF call.stmt \in Of(NoTx)
                                THEN call.stmt \in durable' \cup doubtful
                                ELSE call.stmt \in stream'[s].pending
      <4>0. call.kind = "exec" /\ u = NoTx => call.stmt \in Of(NoTx)
        BY <2>3, <3>0
      <4>1. CASE u = NoTx /\ stream[s].inTx
        BY <1>12, <2>1, <2>5, <3>0, <4>0, <4>1 DEF StoreInv, LeftoverInv
      <4>2. CASE ~stream[s].inTx
        BY <1>1, <1>3, <3>0, <4>2
      <4>3. CASE u # NoTx /\ stream[s].inTx
        <5>1. call.kind = "exec" => call.stmt \notin alone
          BY <1>12, <2>1, <3>0, <4>3, <2>2 DEF StoreInv, AloneInv
        <5>. QED BY <1>1, <2>3, <3>0, <4>3, <5>1
      <4>. QED BY <4>1, <4>2, <4>3
    <3>3. call.kind = "commit" => ~stream'[s].inTx /\ Of(u) \cap acked \subseteq durable'
      BY <1>1, <2>3, <2>4, <3>0 DEF Holds
    <3>4. call.kind = "rollback" => ~stream'[s].inTx
      BY <1>1, <3>0
    <3>5. /\ UNCHANGED <<call, acked, doubtful>> /\ conn' = s /\ tx' = u
          /\ Of(tx)' = Of(u) /\ Of(NoTx)' = Of(NoTx)
      BY <1>2, <2>1, <2>2 DEF Of, IssuedIn, NoTx
    <3>. QED BY <3>1, <3>2, <3>3, <3>4, <3>5 DEF Truth
  <2>. QED BY <1>9, <1>10, <2>6, <2>7, <2>8, <2>9 DEF StoreInv
<1>13. \/ durable' = durable
       \/ \E S \in SUBSET Of(NoTx) : durable' = durable \cup S
       \/ \E t \in asked \ rolledBack : Untaken(t) /\ TakesWhole(t)
  <2>1. CASE exec /\ ~stream[s].inTx
    <3>1. durable' = durable \cup {h.stmt} /\ {h.stmt} \in SUBSET Of(NoTx)
      BY <1>1, <1>3, <2>1
    <3>. QED BY <3>1
  <2>2. CASE h.kind = "commit"
    <3>1. PICK t \in asked \ rolledBack : Holds(s, t) /\ Untaken(t)
      BY <1>3, <2>2
    <3>2. durable' = durable \cup stream[s].pending
      BY <1>1, <2>2
    <3>. QED BY <3>1, <3>2 DEF Holds, TakesWhole
  <2>. QED BY <1>1, <2>1, <2>2
<1>. QED BY <1>2, <1>11, <1>12, <1>13

-----------------------------------------------------------------------------
LEMMA NextStore == LinkInv /\ StoreInv /\ [Next]_vars => StoreInv'
<1>. SUFFICES ASSUME LinkInv, StoreInv, [Next]_vars PROVE StoreInv'
  OBVIOUS
<1>1. CASE ExecContext \/ BeginTx \/ Commit \/ Rollback
  BY <1>1, CallsKeepStore
<1>2. CASE \/ Cancel \/ Close \/ Dials \/ DialFails
           \/ ReadsHello \/ ReadsOpenStream \/ HandshakeFails
           \/ WriteFails \/ ReadFails
           \/ \E s \in Sock : Breaks(s)
           \/ UNCHANGED vars
  BY <1>2, SilentSteps
<1>3. CASE SendsHello \/ SendsOpenStream
  BY <1>3, GreetsKeepsStore
<1>4. CASE Writes
  BY <1>4, WritesKeepsStore
<1>5. CASE ReadsResponse
  BY <1>5, ResponseKeepsStore
<1>6. ASSUME NEW s \in Sock, ServesHello(s) \/ ServesOpenStream(s)
      PROVE  StoreInv'
  BY <1>6, GreetedKeepsStore
<1>7. ASSUME NEW s \in Sock, Executes(s)
      PROVE  StoreInv'
  BY <1>7, ExecutesKeepsStore
<1>8. ASSUME NEW s \in Sock, FailsToExecute(s)
      PROVE  StoreInv'
  BY <1>8, FailureKeepsStore
<1>9. ASSUME NEW s \in Sock, FailsAndRollsBack(s)
      PROVE  StoreInv'
  BY <1>9, RollsBackKeepsStore
<1>10. ASSUME NEW s \in Sock, Ends(s)
       PROVE  StoreInv'
  BY <1>10, EndsKeepsStore
<1>. QED BY <1>1, <1>2, <1>3, <1>4, <1>5, <1>6, <1>7, <1>8, <1>9, <1>10
         DEF Next, Rests

LEMMA StoreInvariance == Spec => [](LinkInv /\ StoreInv)
<1>1. Init => LinkInv /\ StoreInv
  BY LinkInit, InitStore
<1>2. LinkInv /\ StoreInv /\ [Next]_vars => (LinkInv /\ StoreInv)'
  BY LinkNext, NextStore
<1>. QED BY <1>1, <1>2, PTL DEF Spec

-----------------------------------------------------------------------------
(* Steps of the store.                                                      *)
Issued == [s \in Stmt |-> IF s \in DOMAIN stmtTx THEN IssuedIn(s) ELSE NotIssued]

LEMMA StoreIn ==
  ASSUME LinkInv, NEW t \in 0..MaxTx
  PROVE  Store!In(t) = Of(t)
<1>1. NotIssued # t
  BY NumberTypes DEF NotIssued
<1>. QED BY <1>1, NumberTypes DEF Store!In, Of

LEMMA StoreStutters ==
  ASSUME UNCHANGED <<stmtTx, alone, durable, acked, asked, committed, rolledBack, doubtful>>
  PROVE  UNCHANGED Store!storeVars
  BY DEF Store!storeVars, Store!told, IssuedIn, NotIssued

(* A statement is issued.                                                   *)
LEMMA CallsIsStoreStep ==
  ASSUME LinkInv, StoreInv, ExecContext \/ BeginTx \/ Commit \/ Rollback
  PROVE  [Store!Next]_(Store!storeVars)
<1>1. UNCHANGED <<durable, acked, asked, committed, rolledBack, doubtful>>
  BY DEF ExecContext, BeginTx, Commit, Rollback, Calls, network, ghosts, marked, told
<1>2. CASE BeginTx \/ Commit \/ Rollback
  BY <1>1, <1>2, StoreStutters DEF BeginTx, Commit, Rollback
<1>3. CASE ExecContext
  <2>1. /\ Len(stmtTx) < MaxStmts /\ stmtTx' = Append(stmtTx, tx)
        /\ stmtTx \in Seq(0..MaxTx) /\ Len(stmtTx) \in Nat /\ tx \in 0..MaxTx
        /\ MaxStmts \in Nat /\ Stmt = 1..MaxStmts
        /\ alone \subseteq DOMAIN stmtTx
        /\ alone' \in {alone, alone \cup {Len(stmtTx) + 1}}
    BY <1>3, LinkTypes, NumberTypes DEF ExecContext, Calls, NoCall, StoreInv, NumbersInv
  <2>0. PICK n \in Nat : n = Len(stmtTx) + 1
    BY <2>1
  <2>2. /\ n \in Stmt /\ n \notin DOMAIN stmtTx
        /\ DOMAIN stmtTx' = DOMAIN stmtTx \cup {n}
        /\ stmtTx'[n] = tx /\ \A s \in DOMAIN stmtTx : stmtTx'[s] = stmtTx[s]
        /\ alone' \in {alone, alone \cup {n}}
    BY <2>0, <2>1
  <2>3. PICK u \in {tx, NoTx} : Issued' = [s \in Stmt |-> IF s \in {n} THEN u ELSE Issued[s]]
    <3>1. NotIssued' = NotIssued
      BY DEF NotIssued
    <3>2. IssuedIn(n)' \in {tx, NoTx} /\ \A s \in DOMAIN stmtTx : IssuedIn(s)' = IssuedIn(s)
      BY <2>1, <2>2 DEF IssuedIn, NoTx
    <3>. QED BY <2>2, <3>1, <3>2 DEF Issued
  <2>4. {n} \in SUBSET Store!In(NotIssued) /\ u \in (1..MaxTx) \cup {NoTx}
    BY <2>1, <2>2, NumberTypes DEF Store!In
  <2>5. doubtful' = doubtful \cup {}
    BY <1>1
  <2>6. Store!Issues
    BY <1>1, <2>3, <2>4, <2>5 DEF Store!Issues, Store!told, Issued
  <2>. QED BY <2>6 DEF Store!Next
<1>. QED BY <1>2, <1>3

(* A COMMIT is sent, or a statement that may go astray.                     *)
LEMMA WritesIsStoreStep ==
  ASSUME LinkInv, StoreInv, Writes
  PROVE  [Store!Next]_(Store!storeVars)
<1>1. /\ pc = "exec" /\ UNCHANGED <<durable, stmtTx, alone, committed, rolledBack, acked>>
      /\ asked' = IF call.kind = "commit" THEN asked \cup {tx} ELSE asked
      /\ doubtful' = IF call.kind = "exec" /\ tx = NoTx /\ conn \in refused
                     THEN doubtful \cup {call.stmt} ELSE doubtful
  BY DEF Writes, program
<1>2. CASE call.kind = "commit"
  <2>1. tx \in 1..MaxTx
    BY <1>1, <1>2, NumberTypes DEF LinkInv, CallInv
  <2>2. Store!AsksForCommit
    BY <1>1, <1>2, <2>1 DEF Store!AsksForCommit, IssuedIn, NotIssued
  <2>. QED BY <2>2 DEF Store!Next
<1>3. CASE call.kind = "exec" /\ tx = NoTx /\ conn \in refused
  <2>1. call.stmt \in Of(NoTx) /\ call.stmt \notin acked
    BY <1>1, <1>3, LinkTypes, NumberTypes DEF LinkInv, CallInv, Of, IssuedIn
  <2>2. /\ Issued' = Issued
        /\ Issued' = [s \in Stmt |-> IF s \in {} THEN NoTx ELSE Issued[s]]
    BY <1>1 DEF Issued, IssuedIn, NotIssued
  <2>3. Store!In(NoTx)' = Store!In(NoTx) /\ Store!In(NoTx) = Of(NoTx)
    <3>1. NoTx \in 0..MaxTx
      BY NumberTypes
    <3>. QED BY <1>1, <3>1, StoreIn DEF Store!In, IssuedIn, NotIssued, NoTx
  <2>4. {call.stmt} \in SUBSET (Store!In(NoTx)' \ acked) /\ doubtful' = doubtful \cup {call.stmt}
    BY <1>1, <1>3, <2>1, <2>3
  <2>5. {} \in SUBSET Store!In(NotIssued) /\ NoTx \in (1..MaxTx) \cup {NoTx}
    OBVIOUS
  <2>6. asked' = asked
    BY <1>1, <1>3
  <2>7. Store!Issues
    BY <1>1, <2>2, <2>4, <2>5, <2>6 DEF Store!Issues, Store!told, Issued
  <2>. QED BY <2>7 DEF Store!Next
<1>4. CASE call.kind # "commit" /\ ~(call.kind = "exec" /\ tx = NoTx /\ conn \in refused)
  BY <1>1, <1>4, StoreStutters
<1>. QED BY <1>2, <1>3, <1>4

(* The program is told the truth.                                           *)
LEMMA ResponseIsStoreStep ==
  ASSUME LinkInv, StoreInv, ReadsResponse
  PROVE  [Store!Next]_(Store!storeVars)
<1>1. PICK ok \in BOOLEAN : /\ Head(toClient[conn]).ok = ok /\ toClient[conn] # <<>>
                            /\ Tells(call.kind, ok)
                            /\ pc = "resp" /\ conn \in open /\ toServer[conn] = <<>>
  BY ResponseFacts DEF ReadsResponse, Reads, Succeeded
<1>2. /\ UNCHANGED <<stmtTx, alone, durable, asked, doubtful>>
      /\ Truth(ok) /\ call.kind \in {"exec", "begin", "commit", "rollback"}
  <2>1. Truth(ok)
    BY <1>1 DEF StoreInv, AnswerInv
  <2>2. call.kind \in {"exec", "begin", "commit", "rollback"}
    BY <1>1 DEF LinkInv, CallInv
  <2>. QED BY <2>1, <2>2, ResponseFacts
<1>3. tx \in 0..MaxTx /\ Store!In(tx) = Of(tx)
  BY NumberTypes, StoreIn
<1>4. CASE ~ok \/ call.kind = "begin"
  BY <1>1, <1>2, <1>4, StoreStutters DEF Tells
<1>5. CASE ok /\ call.kind = "exec"
  <2>1. /\ acked' = acked \cup {call.stmt} /\ UNCHANGED <<committed, rolledBack>>
        /\ call.stmt \in Stmt /\ call.stmt \in Of(tx) \cup Of(NoTx)
    BY <1>1, <1>5, LinkTypes, NumberTypes DEF Tells, LinkInv, CallInv, Of, IssuedIn
  <2>2. CASE call.stmt \in Of(NoTx)
    <3>1. call.stmt \in durable \cup doubtful
      BY <1>2, <1>5, <2>2 DEF Truth
    <3>2. Store!Acknowledges
      BY <1>2, <2>1, <3>1 DEF Store!Acknowledges, IssuedIn, NotIssued
    <3>. QED BY <3>2 DEF Store!Next
  <2>3. CASE call.stmt \notin Of(NoTx)
    <3>1. tx \in (1..MaxTx) \ committed /\ Untaken(tx)
      BY <1>1, <1>5, <2>1, <2>3, NumberTypes DEF StoreInv, TxInv
    <3>2. Issued[call.stmt] = tx /\ ~Store!HasTakenEffect(tx)
      BY <1>3, <2>1, <2>3, <3>1 DEF Issued, Of, Untaken, Store!HasTakenEffect
    <3>3. Store!Acknowledges
      BY <1>2, <2>1, <3>1, <3>2 DEF Store!Acknowledges, Issued, IssuedIn, NotIssued
    <3>. QED BY <3>3 DEF Store!Next
  <2>. QED BY <2>2, <2>3
<1>6. CASE ok /\ call.kind = "commit"
  <2>1. tx \in 1..MaxTx
    BY <1>1, <1>6, NumberTypes DEF LinkInv, CallInv
  <2>2. Of(tx) \cap acked \subseteq durable
    BY <1>2, <1>6 DEF Truth
  <2>3. Store!TellsCommitted(tx)
    BY <1>1, <1>2, <1>3, <1>6, <2>2 DEF Store!TellsCommitted, Tells, IssuedIn, NotIssued
  <2>. QED BY <2>1, <2>3 DEF Store!Next
<1>7. CASE ok /\ call.kind = "rollback"
  <2>1. tx \in 1..MaxTx
    BY <1>1, <1>7, NumberTypes DEF LinkInv, CallInv
  <2>2. Untaken(tx)
    BY <1>1, <1>7, <2>1, NumberTypes DEF StoreInv, TxInv
  <2>3. Store!TellsRolledBack(tx)
    BY <1>1, <1>2, <1>3, <1>7, <2>2
    DEF Store!TellsRolledBack, Store!HasTakenEffect, Untaken, Tells, IssuedIn, NotIssued
  <2>. QED BY <2>1, <2>3 DEF Store!Next
<1>. QED BY <1>2, <1>4, <1>5, <1>6, <1>7

(* A statement takes effect by itself, or a transaction as a whole.         *)
LEMMA ExecutesIsStoreStep ==
  ASSUME LinkInv, StoreInv, NEW s \in Sock, Executes(s)
  PROVE  [Store!Next]_(Store!storeVars)
<1>1. /\ UNCHANGED <<stmtTx, alone, acked, asked, committed, rolledBack, doubtful>>
      /\ \/ durable' = durable
         \/ \E S \in SUBSET Of(NoTx) : durable' = durable \cup S
         \/ \E t \in asked \ rolledBack : Untaken(t) /\ TakesWhole(t)
  BY ExecutesKeepsStore
<1>2. UNCHANGED <<Issued, acked, asked, committed, rolledBack, doubtful>>
  BY <1>1 DEF Issued, IssuedIn, NotIssued
<1>3. CASE durable' = durable
  BY <1>1, <1>3, StoreStutters
<1>4. CASE \E S \in SUBSET Of(NoTx) : durable' = durable \cup S
  <2>1. Store!In(NoTx) = Of(NoTx)
    <3>1. NoTx \in 0..MaxTx
      BY NumberTypes
    <3>. QED BY <3>1, StoreIn
  <2>2. Store!TakesEffectAlone
    BY <1>2, <1>4, <2>1 DEF Store!TakesEffectAlone, Store!told, Issued
  <2>. QED BY <2>2 DEF Store!Next
<1>5. CASE \E t \in asked \ rolledBack : Untaken(t) /\ TakesWhole(t)
  <2>1. PICK t \in asked \ rolledBack : Untaken(t) /\ TakesWhole(t)
    BY <1>5
  <2>2. t \in 1..MaxTx /\ Store!In(t) = Of(t)
    <3>1. t \in 1..MaxTx /\ t \in 0..MaxTx
      BY NumberTypes
    <3>. QED BY <3>1, StoreIn
  <2>3. Store!TakesEffect(t)
    BY <1>2, <2>1, <2>2
    DEF Store!TakesEffect, Store!HasTakenEffect, Store!told, Untaken, TakesWhole, Issued
  <2>. QED BY <2>2, <2>3 DEF Store!Next
<1>. QED BY <1>1, <1>3, <1>4, <1>5

LEMMA StoreStep ==
  LinkInv /\ StoreInv /\ [Next]_vars => [Store!Next]_(Store!storeVars)
<1>. SUFFICES ASSUME LinkInv, StoreInv, [Next]_vars
              PROVE  [Store!Next]_(Store!storeVars)
  OBVIOUS
<1>1. CASE ExecContext \/ BeginTx \/ Commit \/ Rollback
  BY <1>1, CallsIsStoreStep
<1>2. CASE \/ Cancel \/ Close \/ Dials \/ DialFails
           \/ ReadsHello \/ ReadsOpenStream \/ HandshakeFails
           \/ WriteFails \/ ReadFails
           \/ \E s \in Sock : Breaks(s)
           \/ UNCHANGED vars
  BY <1>2, SilentSteps, StoreStutters
<1>3. CASE SendsHello \/ SendsOpenStream
  BY <1>3, GreetsKeepsStore, StoreStutters
<1>4. CASE Writes
  BY <1>4, WritesIsStoreStep
<1>5. CASE ReadsResponse
  BY <1>5, ResponseIsStoreStep
<1>6. ASSUME NEW s \in Sock, ServesHello(s) \/ ServesOpenStream(s)
      PROVE  [Store!Next]_(Store!storeVars)
  BY <1>6, GreetedKeepsStore, StoreStutters
<1>7. ASSUME NEW s \in Sock, Executes(s)
      PROVE  [Store!Next]_(Store!storeVars)
  BY <1>7, ExecutesIsStoreStep
<1>8. ASSUME NEW s \in Sock, FailsToExecute(s)
      PROVE  [Store!Next]_(Store!storeVars)
  BY <1>8, FailureKeepsStore, StoreStutters
<1>9. ASSUME NEW s \in Sock, FailsAndRollsBack(s)
      PROVE  [Store!Next]_(Store!storeVars)
  BY <1>9, RollsBackKeepsStore, StoreStutters
<1>10. ASSUME NEW s \in Sock, Ends(s)
       PROVE  [Store!Next]_(Store!storeVars)
  BY <1>10, EndsKeepsStore, StoreStutters
<1>. QED BY <1>1, <1>2, <1>3, <1>4, <1>5, <1>6, <1>7, <1>8, <1>9, <1>10
         DEF Next, Rests

LEMMA StoreStart == Init => Store!Init
  BY DEF Init, Store!Init

(* However many sockets break and calls are tried again, and whether or not *)
(* a statement that fails takes its transaction along, a transaction on a   *)
(* websocket happens as a whole or not at all, a statement outside one by   *)
(* itself, and what the program is told of them is true.  A statement       *)
(* outside one is also what the program executes in a sql.Tx after the      *)
(* server has given the transaction up, which exec does not notice.         *)
THEOREM StoreRefinement == Spec => ImplementsTxStore
<1>1. Spec => [](LinkInv /\ StoreInv)
  BY StoreInvariance
<1>2. LinkInv /\ StoreInv /\ [Next]_vars => [Store!Next]_(Store!storeVars)
  BY StoreStep
<1>. QED BY <1>1, <1>2, StoreStart, PTL DEF Spec, ImplementsTxStore, Store!Spec

-----------------------------------------------------------------------------
(* Statements sent again.  The executions of a statement that have been, or *)
(* may yet be: those that ran, those a socket carries, and the one asked    *)
(* for by the call in progress.                                             *)
Carried(s) == {<<m.stmt, m.attempt>> : m \in {q \in Queued(s) : q.kind = "exec"}}
Asking ==
  IF /\ call.kind = "exec" /\ pc \notin {"idle", "panic"}
     /\ pc = "connect" => ~call.done
  THEN {<<call.stmt, call.attempt>>} ELSE {}
Tries == ran \cup Asking \cup UNION {Carried(s) : s \in Sock}
Again == {e \in Tries : e[2] # 1}

(* The sockets that broke, and those of them that nobody holds any more.    *)
Broken == {s \in 1..socks : s \notin up}
Held == IF pc \in Handshaking THEN Dialling ELSE conn
LeftBroken == Broken \ {Held}

(* The socket of a handshake, and outside a Tx the one held, is one the     *)
(* client has open; in a Tx nothing is tried again.                         *)
BackInv ==
  /\ pc \in Handshaking => Dialling \in open
  /\ conn # NoSock /\ tx = NoTx => conn \in open
  /\ pc \notin {"idle", "panic"} /\ tx # NoTx => call.attempt = 1

(* Tries are of statements issued, one of each that is in a Tx.             *)
TriesInv ==
  \A e \in Tries : e[1] \in 1..Len(stmtTx) /\ (stmtTx[e[1]] # NoTx => e[2] = 1)

(* For each further try a broken socket was left, for each of these a fault.*)
PaidInv ==
  /\ Cardinality(Again) <= Cardinality(LeftBroken)
  /\ Cardinality(Broken) <= faults

RetryInv == BackInv /\ TriesInv /\ PaidInv

(* A finite set and what is left of it; and with one element more.          *)
LEMMA Fewer ==
  ASSUME NEW A, NEW B, IsFiniteSet(A), B \subseteq A
  PROVE  /\ IsFiniteSet(B) /\ Cardinality(A) \in Nat /\ Cardinality(B) \in Nat
         /\ Cardinality(B) <= Cardinality(A)
  BY FS_Subset, FS_CardinalityType

LEMMA OneMore ==
  ASSUME NEW A, NEW B, NEW x, IsFiniteSet(A), B \subseteq A \cup {x}
  PROVE  /\ IsFiniteSet(B) /\ Cardinality(A) \in Nat /\ Cardinality(B) \in Nat
         /\ Cardinality(B) <= Cardinality(A) + 1
<1>1. /\ IsFiniteSet(A \cup {x}) /\ Cardinality(A) \in Nat
      /\ Cardinality(A \cup {x}) \in {Cardinality(A), Cardinality(A) + 1}
  BY FS_AddElement, FS_CardinalityType
<1>2. IsFiniteSet(B) /\ Cardinality(B) <= Cardinality(A \cup {x})
  BY <1>1, FS_Subset
<1>. QED BY <1>1, <1>2, FS_CardinalityType

LEMMA OneMoreAtLeast ==
  ASSUME NEW A, NEW B, NEW x, IsFiniteSet(B), x \notin A, A \cup {x} \subseteq B
  PROVE  /\ IsFiniteSet(A) /\ Cardinality(A) \in Nat /\ Cardinality(B) \in Nat
         /\ Cardinality(A) + 1 <= Cardinality(B)
<1>1. IsFiniteSet(A) /\ Cardinality(A) \in Nat
  BY Fewer
<1>2. Cardinality(A \cup {x}) = Cardinality(A) + 1
  BY <1>1, FS_AddElement
<1>. QED BY <1>1, <1>2, Fewer

(* The sets counted are finite.                                             *)
LEMMA TriesTypes ==
  ASSUME LinkInv
  PROVE  /\ Tries \subseteq Stmt \X (1..Attempts) /\ IsFiniteSet(Tries)
         /\ IsFiniteSet(Again) /\ IsFiniteSet(Broken) /\ IsFiniteSet(LeftBroken)
         /\ faults \in Nat /\ socks \in Nat
<1>1. /\ ran \subseteq Stmt \X (1..Attempts) /\ faults \in Nat /\ socks \in Nat
      /\ call \in [kind: Kind, stmt: Nat, attempt: 1..Attempts, done: BOOLEAN]
  BY LinkTypes, WsAssumption DEF WsType
<1>2. 1..Len(stmtTx) \subseteq Stmt
  BY NumberTypes
<1>3. ASSUME NEW s \in Sock PROVE Carried(s) \subseteq Stmt \X (1..Attempts)
  <2>1. \A m \in Queued(s) : m.kind = "exec" => m.stmt \in Stmt /\ m.attempt \in 1..Attempts
    BY <1>2 DEF LinkInv, SockInv
  <2>. QED BY <2>1 DEF Carried
<1>4. Asking \subseteq Stmt \X (1..Attempts)
  <2>1. call.kind = "exec" /\ pc \notin {"idle", "panic"} => call.stmt \in 1..Len(stmtTx)
    <3>1. call.kind = "exec" /\ pc \notin {"idle", "panic"} =>
            call.stmt = Len(stmtTx) /\ call.stmt # 0
      BY DEF LinkInv, CallInv
    <3>2. Len(stmtTx) \in Nat
      BY LinkTypes
    <3>. QED BY <3>1, <3>2
  <2>2. call.attempt \in 1..Attempts
    BY <1>1
  <2>. QED BY <1>2, <2>1, <2>2 DEF Asking
<1>5. Tries \subseteq Stmt \X (1..Attempts)
  <2>. SUFFICES ASSUME NEW e \in Tries PROVE e \in Stmt \X (1..Attempts)
    OBVIOUS
  <2>1. e \in ran \/ e \in Asking \/ \E s \in Sock : e \in Carried(s)
    BY DEF Tries
  <2>. QED BY <1>1, <1>3, <1>4, <2>1
<1>6. IsFiniteSet(Stmt \X (1..Attempts))
  <2>1. IsFiniteSet(Stmt) /\ IsFiniteSet(1..Attempts)
    <3>1. MaxStmts \in Int /\ Stmt = 1..MaxStmts /\ Attempts \in Int
      BY NumberTypes DEF Attempts
    <3>. QED BY <3>1, FS_Interval
  <2>. QED BY <2>1, FS_Product
<1>7. IsFiniteSet(Tries) /\ IsFiniteSet(Again)
  <2>1. Again \subseteq Tries
    BY DEF Again
  <2>. QED BY <1>5, <1>6, <2>1, FS_Subset
<1>8. IsFiniteSet(Broken) /\ IsFiniteSet(LeftBroken)
  <2>1. socks \in Int
    BY <1>1
  <2>2. IsFiniteSet(1..socks)
    BY <2>1, FS_Interval
  <2>3. Broken \subseteq 1..socks /\ LeftBroken \subseteq Broken
    BY DEF Broken, LeftBroken
  <2>. QED BY <2>2, <2>3, FS_Subset
<1>. QED BY <1>1, <1>5, <1>7, <1>8

(* How a step may change what is counted.                                   *)
LEMMA PaidKeeps ==
  ASSUME LinkInv, LinkInv', PaidInv,
         \/ Again' \subseteq Again /\ LeftBroken \subseteq LeftBroken'
         \/ \E x, y : /\ Again' \subseteq Again \cup {x}
                      /\ y \notin LeftBroken /\ LeftBroken \cup {y} \subseteq LeftBroken',
         \/ Broken' \subseteq Broken /\ faults <= faults'
         \/ \E x : Broken' \subseteq Broken \cup {x} /\ faults' = faults + 1
  PROVE  PaidInv'
<1>1. /\ IsFiniteSet(Again) /\ IsFiniteSet(Broken) /\ IsFiniteSet(LeftBroken)
      /\ faults \in Nat
  BY TriesTypes
<1>2. IsFiniteSet(LeftBroken') /\ faults' \in Nat
  <2>1. socks' \in Int /\ faults' \in Nat
    BY WsAssumption DEF LinkInv, WsType
  <2>2. IsFiniteSet(1..socks')
    BY <2>1, FS_Interval
  <2>3. LeftBroken' \subseteq 1..socks'
    BY DEF Broken, LeftBroken
  <2>. QED BY <2>1, <2>2, <2>3, FS_Subset
<1>3. Cardinality(Again) <= Cardinality(LeftBroken) /\ Cardinality(Broken) <= faults
  BY DEF PaidInv
<1>4. Cardinality(Again') <= Cardinality(LeftBroken')
  <2>1. CASE Again' \subseteq Again /\ LeftBroken \subseteq LeftBroken'
    <3>1. /\ Cardinality(Again) \in Nat /\ Cardinality(Again') \in Nat
          /\ Cardinality(Again') <= Cardinality(Again)
      BY <1>1, <2>1, Fewer
    <3>2. /\ Cardinality(LeftBroken) \in Nat /\ Cardinality(LeftBroken') \in Nat
          /\ Cardinality(LeftBroken) <= Cardinality(LeftBroken')
      BY <1>2, <2>1, Fewer
    <3>. QED BY <1>3, <3>1, <3>2
  <2>2. ASSUME NEW x, NEW y, Again' \subseteq Again \cup {x},
               y \notin LeftBroken, LeftBroken \cup {y} \subseteq LeftBroken'
        PROVE  Cardinality(Again') <= Cardinality(LeftBroken')
    <3>1. /\ Cardinality(Again) \in Nat /\ Cardinality(Again') \in Nat
          /\ Cardinality(Again') <= Cardinality(Again) + 1
      BY <1>1, <2>2, OneMore
    <3>2. /\ Cardinality(LeftBroken) \in Nat /\ Cardinality(LeftBroken') \in Nat
          /\ Cardinality(LeftBroken) + 1 <= Cardinality(LeftBroken')
      BY <1>2, <2>2, OneMoreAtLeast
    <3>. QED BY <1>3, <3>1, <3>2
  <2>. QED BY <2>1, <2>2
<1>5. Cardinality(Broken') <= faults'
  <2>1. CASE Broken' \subseteq Broken /\ faults <= faults'
    <3>1. /\ Cardinality(Broken) \in Nat /\ Cardinality(Broken') \in Nat
          /\ Cardinality(Broken') <= Cardinality(Broken)
      BY <1>1, <2>1, Fewer
    <3>. QED BY <1>1, <1>2, <1>3, <2>1, <3>1
  <2>2. ASSUME NEW x, Broken' \subseteq Broken \cup {x}, faults' = faults + 1
        PROVE  Cardinality(Broken') <= faults'
    <3>1. /\ Cardinality(Broken) \in Nat /\ Cardinality(Broken') \in Nat
          /\ Cardinality(Broken') <= Cardinality(Broken) + 1
      BY <1>1, <2>2, OneMore
    <3>. QED BY <1>1, <1>3, <2>2, <3>1
  <2>. QED BY <2>1, <2>2
<1>. QED BY <1>4, <1>5 DEF PaidInv

(* What a step adds to the tries.                                           *)
LEMMA TriesIn ==
  ASSUME NEW X, ran' \subseteq X, \A s \in Sock : Carried(s)' \subseteq X,
         Asking' \subseteq X
  PROVE  Tries' \subseteq X
<1>. SUFFICES ASSUME NEW e \in Tries' PROVE e \in X
  OBVIOUS
<1>1. e \in ran' \/ e \in Asking' \/ \E s \in Sock : e \in Carried(s)'
  BY DEF Tries
<1>. QED BY <1>1

LEMMA InTries ==
  /\ ran \subseteq Tries /\ Asking \subseteq Tries
  /\ \A s \in Sock : Carried(s) \subseteq Tries
<1>1. ran \subseteq Tries /\ Asking \subseteq Tries
  BY DEF Tries
<1>2. ASSUME NEW s \in Sock PROVE Carried(s) \subseteq Tries
  <2>. SUFFICES ASSUME NEW e \in Carried(s) PROVE e \in Tries
    OBVIOUS
  <2>. QED BY DEF Tries
<1>. QED BY <1>1, <1>2

(* A step that adds at most a first try, of a statement just issued.        *)
LEMMA IssuingKeepsTries ==
  ASSUME LinkInv, TriesInv, stmtTx' = Append(stmtTx, tx),
         Tries' \subseteq Tries \cup {<<Len(stmtTx) + 1, 1>>}
  PROVE  TriesInv' /\ Again' \subseteq Again
<1>1. stmtTx \in Seq(0..MaxTx) /\ tx \in 0..MaxTx /\ Len(stmtTx) \in Nat
  BY LinkTypes, NumberTypes
<1>2. /\ Len(stmtTx') = Len(stmtTx) + 1
      /\ \A s \in 1..Len(stmtTx) : stmtTx'[s] = stmtTx[s]
  BY <1>1
<1>3. ASSUME NEW e \in Tries'
      PROVE  e[1] \in 1..Len(stmtTx') /\ (stmtTx'[e[1]] # NoTx => e[2] = 1)
  <2>1. CASE e \in Tries
    <3>1. e[1] \in 1..Len(stmtTx) /\ (stmtTx[e[1]] # NoTx => e[2] = 1)
      BY <2>1 DEF TriesInv
    <3>2. e[1] \in 1..Len(stmtTx')
      BY <1>1, <1>2, <3>1
    <3>. QED BY <1>2, <3>1, <3>2
  <2>2. CASE e = <<Len(stmtTx) + 1, 1>>
    <3>1. e[1] = Len(stmtTx) + 1 /\ e[2] = 1
      BY <2>2
    <3>. QED BY <1>1, <1>2, <3>1
  <2>. QED BY <2>1, <2>2
<1>4. TriesInv'
  BY <1>3 DEF TriesInv
<1>5. Again' \subseteq Again
  BY DEF Again
<1>. QED BY <1>4, <1>5

(* A step that adds none.                                                   *)
LEMMA RetryKeeps ==
  ASSUME LinkInv, LinkInv', RetryInv, BackInv', UNCHANGED stmtTx,
         Tries' \subseteq Tries, LeftBroken \subseteq LeftBroken',
         \/ Broken' \subseteq Broken /\ faults <= faults'
         \/ \E x : Broken' \subseteq Broken \cup {x} /\ faults' = faults + 1
  PROVE  RetryInv'
<1>1. TriesInv'
  BY DEF RetryInv, TriesInv
<1>2. Again' \subseteq Again
  BY DEF Again
<1>3. PaidInv'
  BY <1>2, PaidKeeps DEF RetryInv
<1>. QED BY <1>1, <1>3 DEF RetryInv

(* The sockets, when none is dialled and none breaks.                       *)
LEMMA BrokenStays ==
  ASSUME UNCHANGED <<up, socks>>
  PROVE  /\ Broken' = Broken
         /\ Held' \in {Held, NoSock} /\ socks \in Nat => LeftBroken \subseteq LeftBroken'
<1>1. Broken' = Broken
  BY DEF Broken
<1>2. ASSUME Held' \in {Held, NoSock}, socks \in Nat
      PROVE  LeftBroken \subseteq LeftBroken'
  <2>1. NoSock \notin Broken
    BY DEF NoSock, Broken
  <2>. QED BY <1>1, <1>2, <2>1 DEF LeftBroken
<1>. QED BY <1>1, <1>2

(* A step of the client on which nothing is sent and nothing new asked for. *)
LEMMA NothingAsked ==
  ASSUME UNCHANGED <<toServer, ran>>, Asking' \subseteq Asking
  PROVE  Tries' \subseteq Tries
<1>1. \A s \in Sock : Carried(s)' \subseteq Tries
  <2>1. \A s \in Sock : Carried(s)' = Carried(s)
    BY DEF Carried, Queued
  <2>. QED BY <2>1, InTries
<1>. QED BY <1>1, InTries, TriesIn

-----------------------------------------------------------------------------
(* RetryInv, step by step.                                                  *)
LEMMA RetryInit == Init => RetryInv
<1>. SUFFICES ASSUME Init PROVE RetryInv
  OBVIOUS
<1>1. /\ ran = {} /\ pc = "idle" /\ conn = NoSock /\ socks = 0 /\ faults = 0
      /\ toServer = [s \in Sock |-> <<>>]
  BY DEF Init
<1>2. Asking = {} /\ \A s \in Sock : Carried(s) = {}
  <2>1. \A s \in Sock : Queued(s) = {}
    BY <1>1 DEF Queued
  <2>. QED BY <1>1, <2>1 DEF Asking, Carried
<1>3. Tries = {} /\ Again = {}
  <2>1. Tries = {}
    BY <1>1, <1>2 DEF Tries
  <2>. QED BY <2>1 DEF Again
<1>4. Broken = {} /\ LeftBroken = {}
  <2>1. 1..0 = {}
    OBVIOUS
  <2>2. Broken = {}
    BY <1>1, <2>1 DEF Broken
  <2>. QED BY <2>2 DEF LeftBroken
<1>5. BackInv /\ TriesInv
  BY <1>1, <1>3 DEF BackInv, TriesInv, Handshaking
<1>6. PaidInv
  BY <1>1, <1>3, <1>4, FS_EmptySet DEF PaidInv
<1>. QED BY <1>5, <1>6 DEF RetryInv

(* A call begins.                                                           *)
LEMMA CallsKeepRetries ==
  ASSUME LinkInv, LinkInv', RetryInv, ExecContext \/ BeginTx \/ Commit \/ Rollback
  PROVE  RetryInv'
<1>1. /\ pc = "idle" /\ pc' \in {"connect", "exec"}
      /\ UNCHANGED <<open, up, toServer, socks, faults, conn, tx, ran>>
  BY DEF ExecContext, BeginTx, Commit, Rollback, Calls, network, ghosts, marked
<1>2. /\ call'.attempt = 1
      /\ \/ call'.kind # "exec" /\ UNCHANGED stmtTx
         \/ call'.stmt = Len(stmtTx) + 1 /\ stmtTx' = Append(stmtTx, tx)
  BY DEF ExecContext, BeginTx, Commit, Rollback, Calls, NoCall
<1>3. BackInv'
  BY <1>1, <1>2 DEF RetryInv, BackInv, Handshaking
<1>4. Broken' = Broken /\ LeftBroken \subseteq LeftBroken' /\ faults <= faults'
  <2>1. Held' = Held
    BY <1>1 DEF Held, Handshaking
  <2>2. Broken' = Broken
    BY <1>1, BrokenStays
  <2>. QED BY <1>1, <2>1, <2>2, TriesTypes DEF LeftBroken
<1>5. CASE call'.kind # "exec" /\ UNCHANGED stmtTx
  <2>1. Asking' \subseteq Asking
    BY <1>5 DEF Asking
  <2>2. Tries' \subseteq Tries
    BY <1>1, <2>1, NothingAsked
  <2>. QED BY <1>3, <1>4, <1>5, <2>2, RetryKeeps
<1>6. CASE call'.stmt = Len(stmtTx) + 1 /\ stmtTx' = Append(stmtTx, tx)
  <2>. DEFINE X == Tries \cup {<<Len(stmtTx) + 1, 1>>}
  <2>1. Asking' \subseteq X
    BY <1>2, <1>6 DEF Asking
  <2>2. ran' \subseteq X /\ \A s \in Sock : Carried(s)' \subseteq X
    <3>1. \A s \in Sock : Carried(s)' = Carried(s)
      BY <1>1 DEF Carried, Queued
    <3>. QED BY <1>1, <3>1, InTries
  <2>3. Tries' \subseteq X
    BY <2>1, <2>2, TriesIn
  <2>4. TriesInv' /\ Again' \subseteq Again
    BY <1>6, <2>3, IssuingKeepsTries DEF RetryInv
  <2>5. PaidInv'
    BY <1>4, <2>4, PaidKeeps DEF RetryInv
  <2>. QED BY <1>3, <2>4, <2>5 DEF RetryInv
<1>. QED BY <1>2, <1>5, <1>6

(* A step of the client that sends nothing and dials nothing; it may let go *)
(* of the socket it holds.                                                  *)
LEMMA QuietKeepsRetries ==
  ASSUME LinkInv, LinkInv', RetryInv, BackInv',
         UNCHANGED <<up, toServer, socks, ran, stmtTx>>,
         faults <= faults',
         Asking' \subseteq Asking, Held' \in {Held, NoSock}
  PROVE  RetryInv'
<1>1. socks \in Nat
  BY TriesTypes
<1>2. Tries' \subseteq Tries
  BY NothingAsked
<1>3. Broken' = Broken /\ LeftBroken \subseteq LeftBroken'
  BY <1>1, BrokenStays
<1>. QED BY <1>2, <1>3, RetryKeeps

LEMMA CancelKeepsRetries ==
  ASSUME LinkInv, LinkInv', RetryInv, Cancel
  PROVE  RetryInv'
<1>1. /\ UNCHANGED <<open, up, toServer, socks, ran, stmtTx, conn, tx, pc>>
      /\ faults' = faults + 1 /\ call' = [call EXCEPT !.done = TRUE]
  BY DEF Cancel, network, program, ghosts, marked
<1>2. call'.kind = call.kind /\ call'.stmt = call.stmt /\ call'.attempt = call.attempt
  BY <1>1, LinkTypes DEF WsType
<1>3. call'.done = TRUE
  BY <1>1, LinkTypes DEF WsType
<1>4. BackInv'
  BY <1>1, <1>2 DEF RetryInv, BackInv, Handshaking, Dialling
<1>5. Asking' \subseteq Asking
  BY <1>1, <1>2, <1>3 DEF Asking
<1>6. Held' = Held /\ faults <= faults'
  BY <1>1, TriesTypes DEF Held, Dialling
<1>. QED BY <1>1, <1>4, <1>5, <1>6, QuietKeepsRetries

LEMMA CloseKeepsRetries ==
  ASSUME LinkInv, LinkInv', RetryInv, Close
  PROVE  RetryInv'
<1>1. /\ UNCHANGED <<up, toServer, socks, faults, ran, stmtTx, tx, pc, call>>
      /\ pc = "idle" /\ conn' = NoSock
  BY DEF Close, network, program, ghosts, marked
<1>2. BackInv'
  BY <1>1 DEF BackInv, Handshaking
<1>3. Asking' \subseteq Asking
  BY <1>1 DEF Asking
<1>4. Held' = NoSock /\ faults <= faults'
  BY <1>1, TriesTypes DEF Held, Handshaking
<1>. QED BY <1>1, <1>2, <1>3, <1>4, QuietKeepsRetries

(* A call that comes back asks for nothing more.                            *)
LEMMA ReturnedAsksNothing ==
  ASSUME pc' \in {"idle", "panic"}
  PROVE  Asking' \subseteq Asking
  BY DEF Asking

LEMMA DialFailsKeepsRetries ==
  ASSUME LinkInv, LinkInv', RetryInv, DialFails
  PROVE  RetryInv'
<1>1. /\ UNCHANGED <<open, up, toServer, socks, ran, stmtTx, conn>>
      /\ faults' \in {faults, faults + 1} /\ pc = "connect" /\ pc' = "idle"
  BY DEF DialFails, Returns, network, ghosts, marked
<1>2. conn = NoSock
  BY <1>1 DEF LinkInv, ConnInv
<1>3. BackInv'
  BY <1>1, <1>2 DEF BackInv, Handshaking
<1>4. Held' = Held /\ faults <= faults'
  BY <1>1, TriesTypes DEF Held, Handshaking
<1>. QED BY <1>1, <1>3, <1>4, ReturnedAsksNothing, QuietKeepsRetries

LEMMA ReadsHelloKeepsRetries ==
  ASSUME LinkInv, LinkInv', RetryInv, ReadsHello
  PROVE  RetryInv'
<1>1. /\ UNCHANGED <<up, toServer, socks, faults, ran, stmtTx, conn>>
      /\ pc = "helloResp"
      /\ \/ pc' = "openStreamResp" /\ UNCHANGED <<tx, call>>
         \/ pc' = "idle"
  BY DEF ReadsHello, AfterHello, GoesOn, Reads, Returns, program, ghosts, marked
<1>2. conn = NoSock /\ tx = NoTx
  BY <1>1 DEF LinkInv, HandshakeInv, ConnInv, Handshaking
<1>3. BackInv'
  <2>1. Dialling \in open /\ Dialling' = Dialling
    BY <1>1 DEF RetryInv, BackInv, Handshaking, Dialling
  <2>2. pc' = "openStreamResp" => Dialling' \in open'
    <3>1. pc' = "openStreamResp" => open' = open
      BY <1>1 DEF ReadsHello, Returns
    <3>. QED BY <2>1, <3>1
  <2>. QED BY <1>1, <1>2, <2>2 DEF BackInv, Handshaking
<1>4. Asking' \subseteq Asking
  BY <1>1 DEF Asking
<1>5. Held' \in {Held, NoSock} /\ faults <= faults'
  BY <1>1, <1>2, TriesTypes DEF Held, Handshaking, Dialling
<1>. QED BY <1>1, <1>3, <1>4, <1>5, QuietKeepsRetries

LEMMA ReadsOpenStreamKeepsRetries ==
  ASSUME LinkInv, LinkInv', RetryInv, ReadsOpenStream
  PROVE  RetryInv'
<1>1. /\ UNCHANGED <<open, up, toServer, socks, faults, ran, stmtTx, call, tx>>
      /\ pc = "openStreamResp"
      /\ \/ pc' = "exec" /\ conn' = Dialling
         \/ pc' = "panic" /\ conn' = conn
  BY DEF ReadsOpenStream, GoesOn, Reads, program, ghosts, marked
<1>2. conn = NoSock /\ tx = NoTx /\ Dialling' = Dialling
  BY <1>1 DEF LinkInv, HandshakeInv, ConnInv, Handshaking, Dialling
<1>3. BackInv'
  <2>1. Dialling \in open /\ call.attempt = call'.attempt
    BY <1>1 DEF RetryInv, BackInv, Handshaking
  <2>. QED BY <1>1, <1>2, <2>1 DEF BackInv, Handshaking
<1>4. Asking' \subseteq Asking
  BY <1>1 DEF Asking
<1>5. Held' \in {Held, NoSock} /\ faults <= faults'
  BY <1>1, <1>2, TriesTypes DEF Held, Handshaking, Dialling
<1>. QED BY <1>1, <1>3, <1>4, <1>5, QuietKeepsRetries

LEMMA HandshakeFailsKeepsRetries ==
  ASSUME LinkInv, LinkInv', RetryInv, HandshakeFails
  PROVE  RetryInv'
<1>1. /\ UNCHANGED <<up, toServer, socks, faults, ran, stmtTx, conn>>
      /\ pc \in Handshaking /\ pc' = "idle"
  BY DEF HandshakeFails, Returns, network, ghosts, marked, Handshaking
<1>2. conn = NoSock
  BY <1>1 DEF LinkInv, HandshakeInv
<1>3. BackInv'
  BY <1>1, <1>2 DEF BackInv, Handshaking
<1>4. Held' \in {Held, NoSock} /\ faults <= faults'
  BY <1>1, <1>2, TriesTypes DEF Held, Handshaking
<1>. QED BY <1>1, <1>3, <1>4, ReturnedAsksNothing, QuietKeepsRetries

LEMMA ResponseKeepsRetries ==
  ASSUME LinkInv, LinkInv', RetryInv, ReadsResponse
  PROVE  RetryInv'
<1>1. /\ UNCHANGED <<open, up, toServer, socks, faults, ran, stmtTx, conn>>
      /\ pc = "resp" /\ pc' = "idle"
  BY DEF ReadsResponse, Reads
<1>2. conn \in open
  BY <1>1 DEF LinkInv, ConnInv
<1>3. BackInv'
  BY <1>1, <1>2 DEF BackInv, Handshaking
<1>4. Held' = Held /\ faults <= faults'
  BY <1>1, TriesTypes DEF Held, Handshaking
<1>. QED BY <1>1, <1>3, <1>4, ReturnedAsksNothing, QuietKeepsRetries

(* A socket is dialled: the handshake holds it.                             *)
LEMMA DialsKeepsRetries ==
  ASSUME LinkInv, LinkInv', RetryInv, Dials
  PROVE  RetryInv'
<1>1. /\ UNCHANGED <<toServer, faults, conn, call, tx, stmtTx, ran>>
      /\ pc = "connect" /\ ~call.done /\ pc' = "hello"
      /\ socks' = socks + 1 /\ socks' \in open' /\ up' = up \cup {socks'}
  BY DEF Dials, program, ghosts, marked
<1>2. socks \in Nat /\ faults \in Nat /\ socks' \in Nat
  BY <1>1, TriesTypes
<1>3. BackInv'
  <2>1. conn = NoSock /\ tx = NoTx
    BY <1>1 DEF LinkInv, ConnInv
  <2>. QED BY <1>1, <2>1 DEF BackInv, Handshaking, Dialling
<1>4. Asking' \subseteq Asking
  BY <1>1 DEF Asking
<1>5. Tries' \subseteq Tries
  BY <1>1, <1>4, NothingAsked
<1>6. Broken' = Broken
  <2>1. up \subseteq 1..socks
    <3>1. up \subseteq Sock /\ \A s \in up : s <= socks
      BY LinkTypes DEF LinkInv, SockInv
    <3>2. Sock = 1..MaxSocks /\ MaxSocks \in Nat
      BY LinkTypes
    <3>. QED BY <1>2, <3>1, <3>2
  <2>2. 1..socks' = (1..socks) \cup {socks'} /\ socks' \notin 1..socks
    BY <1>1, <1>2
  <2>. QED BY <1>1, <2>2 DEF Broken
<1>7. LeftBroken \subseteq LeftBroken'
  <2>1. Held' = socks'
    BY <1>1 DEF Held, Handshaking, Dialling
  <2>2. socks' \notin Broken
    BY <1>1, <1>2 DEF Broken
  <2>. QED BY <1>6, <2>1, <2>2 DEF LeftBroken
<1>. QED BY <1>1, <1>2, <1>3, <1>5, <1>6, <1>7, RetryKeeps

(* What is sent in a handshake is no statement.                             *)
LEMMA GreetsKeepsRetries ==
  ASSUME LinkInv, LinkInv', RetryInv, SendsHello \/ SendsOpenStream
  PROVE  RetryInv'
<1>1. /\ UNCHANGED <<open, up, socks, faults, conn, call, tx, stmtTx, ran>>
      /\ pc \in Handshaking /\ pc' \in Handshaking
  BY DEF SendsHello, SendsOpenStream, program, ghosts, marked, Handshaking
<1>2. PICK kind \in Greeting : Sends(Dialling, kind)
  BY DEF SendsHello, SendsOpenStream, Greeting
<1>3. WsType /\ Dialling \in Sock /\ kind \in Kind
  BY <1>1 DEF LinkInv, HandshakeInv, Greeting, Kind
<1>4. BackInv'
  BY <1>1 DEF RetryInv, BackInv, Handshaking, Dialling
<1>5. \A s \in Sock : Carried(s)' \subseteq Carried(s)
  <2>. SUFFICES ASSUME NEW s \in Sock PROVE Carried(s)' \subseteq Carried(s)
    OBVIOUS
  <2>1. CASE s = Dialling
    <3>1. \A m \in Queued(s)' : m \in Queued(s) \/ m = Sent(kind)
      BY <1>2, <1>3, <2>1, SendsAppends
    <3>2. Sent(kind).kind # "exec"
      BY DEF Sent, Greeting
    <3>. QED BY <3>1, <3>2 DEF Carried
  <2>2. CASE s # Dialling
    <3>1. toServer'[s] = toServer[s]
      BY <1>2, <1>3, <2>2, SendsAppends
    <3>. QED BY <3>1 DEF Carried, Queued
  <2>. QED BY <2>1, <2>2
<1>6. Tries' \subseteq Tries
  <2>1. Asking' = Asking
    BY <1>1 DEF Asking, Handshaking
  <2>2. \A s \in Sock : Carried(s)' \subseteq Tries
    BY <1>5, InTries
  <2>. QED BY <1>1, <2>1, <2>2, InTries, TriesIn
<1>7. Broken' = Broken /\ LeftBroken \subseteq LeftBroken' /\ faults <= faults'
  <2>1. Held' = Held
    BY <1>1 DEF Held, Dialling
  <2>. QED BY <1>1, <2>1, TriesTypes, BrokenStays
<1>. QED BY <1>1, <1>4, <1>6, <1>7, RetryKeeps

(* A request is the try the call asks for.                                  *)
LEMMA WritesKeepsRetries ==
  ASSUME LinkInv, LinkInv', RetryInv, Writes
  PROVE  RetryInv'
<1>1. /\ UNCHANGED <<open, up, socks, faults, conn, call, tx, stmtTx, ran>>
      /\ pc = "exec" /\ pc' = "resp" /\ conn \in open
      /\ Sends(conn, call.kind)
  BY DEF Writes, program
<1>2. WsType /\ conn \in Sock /\ call.kind \in Kind
  BY <1>1, LinkTypes, NumberTypes
<1>3. BackInv'
  BY <1>1 DEF RetryInv, BackInv, Handshaking
<1>4. \A s \in Sock : Carried(s)' \subseteq Tries
  <2>. SUFFICES ASSUME NEW s \in Sock PROVE Carried(s)' \subseteq Tries
    OBVIOUS
  <2>1. CASE s = conn
    <3>1. \A m \in Queued(s)' : m \in Queued(s) \/ m = Sent(call.kind)
      BY <1>1, <1>2, <2>1, SendsAppends
    <3>2. /\ Sent(call.kind).kind = call.kind /\ Sent(call.kind).stmt = call.stmt
          /\ Sent(call.kind).attempt = call.attempt
      BY DEF Sent
    <3>3. call.kind = "exec" => <<call.stmt, call.attempt>> \in Asking
      BY <1>1 DEF Asking
    <3>4. Carried(s)' \subseteq Carried(s) \cup Asking
      BY <3>1, <3>2, <3>3 DEF Carried
    <3>. QED BY <3>4, InTries
  <2>2. CASE s # conn
    <3>1. toServer'[s] = toServer[s]
      BY <1>1, <1>2, <2>2, SendsAppends
    <3>2. Carried(s)' = Carried(s)
      BY <3>1 DEF Carried, Queued
    <3>. QED BY <3>2, InTries
  <2>. QED BY <2>1, <2>2
<1>5. Tries' \subseteq Tries
  <2>1. Asking' = Asking
    BY <1>1 DEF Asking
  <2>. QED BY <1>1, <1>4, <2>1, InTries, TriesIn
<1>6. Broken' = Broken /\ LeftBroken \subseteq LeftBroken' /\ faults <= faults'
  <2>1. Held' = Held
    BY <1>1 DEF Held, Handshaking
  <2>. QED BY <1>1, <2>1, TriesTypes, BrokenStays
<1>. QED BY <1>1, <1>3, <1>5, <1>6, RetryKeeps

(* A connection that fails: a call tried again leaves its socket behind,    *)
(* and it is one that broke, or else the call's context is done.            *)
LEMMA FailuresKeepRetries ==
  ASSUME LinkInv, LinkInv', RetryInv, WriteFails \/ ReadFails
  PROVE  RetryInv'
<1>1. /\ UNCHANGED <<up, toServer, socks, faults, ran>>
      /\ pc \in {"exec", "resp"} /\ BadConn /\ acked' = acked
      /\ pc = "exec" => ~Usable(conn) \/ call.done
      /\ pc = "resp" => conn \notin up \/ call.done
  BY DEF WriteFails, ReadFails, network, ghosts, marked, told
<1>2. /\ stmtTx' = stmtTx /\ pc' \in {"idle", "connect"}
      /\ \/ conn' = NoSock /\ tx' = NoTx
         \/ conn' = conn /\ tx' = tx /\ tx # NoTx /\ pc' = "idle"
  BY <1>1, BadConnFacts
<1>3. BackInv'
  BY <1>2 DEF BackInv, Handshaking
<1>4. Held' \in {Held, NoSock} /\ Held = conn /\ faults <= faults'
  BY <1>1, <1>2, TriesTypes DEF Held, Handshaking
<1>5. CASE pc' = "idle"
  BY <1>1, <1>2, <1>3, <1>4, <1>5, ReturnedAsksNothing, QuietKeepsRetries
<1>6. CASE pc' = "connect"
  <2>1. /\ call' = [call EXCEPT !.attempt = @ + 1] /\ tx = NoTx /\ conn' = NoSock
        /\ call.attempt \in 1..Attempts
    <3>1. Retries
      BY <1>1, <1>6 DEF BadConn, Returns
    <3>. QED BY <1>1, <1>2, <3>1, LinkTypes DEF BadConn, Retries, WsType
  <2>2. /\ call'.kind = call.kind /\ call'.stmt = call.stmt /\ call'.done = call.done
        /\ call'.attempt = call.attempt + 1
    BY <2>1, LinkTypes DEF WsType
  <2>3. CASE call.done \/ call.kind # "exec"
    <3>1. Asking' \subseteq Asking
      BY <1>6, <2>2, <2>3 DEF Asking
    <3>. QED BY <1>1, <1>2, <1>3, <1>4, <3>1, QuietKeepsRetries
  <2>4. CASE ~call.done /\ call.kind = "exec"
    <3>. DEFINE x == <<call.stmt, call.attempt + 1>>
    <3>1. conn \in open /\ conn \notin up
      <4>1. conn # NoSock
        BY <1>1, LinkTypes DEF LinkInv, ConnInv
      <4>2. conn \in open
        BY <2>1, <4>1 DEF RetryInv, BackInv
      <4>. QED BY <1>1, <2>4, <4>2 DEF Usable
    <3>2. conn \in Broken
      <4>1. conn \in Sock /\ conn <= socks /\ socks \in Nat
        BY <3>1, LinkTypes, TriesTypes DEF LinkInv, SockInv
      <4>2. Sock = 1..MaxSocks /\ MaxSocks \in Nat
        BY LinkTypes
      <4>3. conn \in 1..socks
        BY <4>1, <4>2
      <4>. QED BY <3>1, <4>3 DEF Broken
    <3>3. conn \notin LeftBroken /\ LeftBroken \cup {conn} \subseteq LeftBroken'
      <4>1. Broken' = Broken /\ NoSock \notin Broken
        BY <1>1 DEF Broken, NoSock
      <4>2. Held' = NoSock
        BY <1>6, <2>1 DEF Held, Handshaking
      <4>. QED BY <1>4, <3>2, <4>1, <4>2 DEF LeftBroken
    <3>4. Tries' \subseteq Tries \cup {x}
      <4>1. \A s \in Sock : Carried(s)' = Carried(s)
        BY <1>1 DEF Carried, Queued
      <4>2. Asking' \subseteq {x}
        BY <2>2 DEF Asking
      <4>3. /\ ran' \subseteq Tries \cup {x} /\ Asking' \subseteq Tries \cup {x}
            /\ \A s \in Sock : Carried(s)' \subseteq Tries \cup {x}
        BY <1>1, <4>1, <4>2, InTries
      <4>. QED BY <4>3, TriesIn
    <3>5. TriesInv'
      <4>1. call.stmt \in 1..Len(stmtTx) /\ stmtTx[call.stmt] = NoTx
        <5>1. call.stmt = Len(stmtTx) /\ call.stmt # 0 /\ stmtTx[call.stmt] = tx
          BY <1>1, <2>4 DEF LinkInv, CallInv
        <5>2. Len(stmtTx) \in Nat
          BY LinkTypes
        <5>. QED BY <2>1, <5>1, <5>2
      <4>2. x[1] = call.stmt
        OBVIOUS
      <4>. QED BY <1>2, <3>4, <4>1, <4>2 DEF RetryInv, TriesInv
    <3>6. PaidInv'
      <4>1. Again' \subseteq Again \cup {x}
        BY <3>4 DEF Again
      <4>2. \E p, q : /\ Again' \subseteq Again \cup {p}
                      /\ q \notin LeftBroken /\ LeftBroken \cup {q} \subseteq LeftBroken'
        BY <3>3, <4>1
      <4>3. Broken' \subseteq Broken
        BY <1>1 DEF Broken
      <4>4. PaidInv
        BY DEF RetryInv
      <4>. QED BY <1>4, <4>2, <4>3, <4>4, PaidKeeps
    <3>. QED BY <1>3, <3>5, <3>6 DEF RetryInv
  <2>. QED BY <2>3, <2>4
<1>. QED BY <1>2, <1>5, <1>6

(* What the server takes from a socket was on its way.                      *)
LEMMA ServerKeepsRetries ==
  ASSUME LinkInv, LinkInv', RetryInv, NEW s \in Sock,
         \/ ServesHello(s) \/ ServesOpenStream(s) \/ Executes(s)
         \/ FailsToExecute(s) \/ FailsAndRollsBack(s)
  PROVE  RetryInv'
<1>. DEFINE Taken == /\ UNCHANGED <<open, up, socks, faults, conn, pc, call, tx, stmtTx>>
                     /\ Head(toServer[s]) \in Queued(s) /\ Queued(s)' \subseteq Queued(s)
                     /\ \A r \in Sock \ {s} : Queued(r)' = Queued(r)
<1>1. ASSUME NEW st, NEW ok \in BOOLEAN, Served(s, st, ok) PROVE Taken
  <2>1. UNCHANGED <<open, up, socks, faults, conn, pc, call, tx, stmtTx>>
    BY <1>1 DEF Served, program
  <2>. QED BY <1>1, <2>1, ServedFacts
<1>2. Taken
  <2>1. ASSUME NEW st, Served(s, st, TRUE) \/ Served(s, st, FALSE) PROVE Taken
    <3>1. ASSUME Served(s, st, TRUE) PROVE Taken
      <4>. DEFINE ok == TRUE
      <4>1. ok \in BOOLEAN /\ Served(s, st, ok)
        BY <3>1
      <4>. HIDE DEF ok, Taken
      <4>. QED BY <4>1, <1>1
    <3>2. ASSUME Served(s, st, FALSE) PROVE Taken
      <4>. DEFINE ok == FALSE
      <4>1. ok \in BOOLEAN /\ Served(s, st, ok)
        BY <3>2
      <4>. HIDE DEF ok, Taken
      <4>. QED BY <4>1, <1>1
    <3>. QED BY <2>1, <3>1, <3>2
  <2>. DEFINE greeted == [stream[s] EXCEPT !.state = "greeted"]
              gone == [stream[s] EXCEPT !.state = "gone"]
              opened == [stream[s] EXCEPT !.state = "open"]
              written == [stream[s] EXCEPT !.pending = @ \cup {Head(toServer[s]).stmt}]
              begun == [stream[s] EXCEPT !.inTx = TRUE]
              cleared == [stream[s] EXCEPT !.inTx = FALSE, !.pending = {}]
  <2>2. \/ Served(s, greeted, TRUE) \/ Served(s, gone, FALSE) \/ Served(s, opened, TRUE)
        \/ Served(s, stream[s], TRUE) \/ Served(s, stream[s], FALSE)
        \/ Served(s, written, TRUE) \/ Served(s, begun, TRUE) \/ Served(s, cleared, TRUE)
        \/ Served(s, cleared, FALSE)
    BY DEF ServesHello, ServesOpenStream, Executes, FailsToExecute, FailsAndRollsBack
  <2>. HIDE DEF greeted, gone, opened, written, begun, cleared, Taken
  <2>. QED BY <2>1, <2>2
<1>3. /\ UNCHANGED <<open, up, socks, faults, conn, pc, call, tx, stmtTx>>
      /\ Head(toServer[s]) \in Queued(s) /\ Queued(s)' \subseteq Queued(s)
      /\ \A r \in Sock \ {s} : Queued(r)' = Queued(r)
  BY <1>2
<1>. HIDE DEF Taken
<1>4. \A r \in Sock : Carried(r)' \subseteq Carried(r)
  BY <1>3 DEF Carried
<1>5. ran' \subseteq ran \cup Carried(s)
  <2>1. \/ ran' = ran
        \/ /\ Head(toServer[s]).kind = "exec"
           /\ ran' = ran \cup {<<Head(toServer[s]).stmt, Head(toServer[s]).attempt>>}
    BY DEF ServesHello, ServesOpenStream, Executes, FailsToExecute, FailsAndRollsBack, Ran
  <2>. QED BY <1>3, <2>1 DEF Carried
<1>6. Tries' \subseteq Tries
  <2>1. Asking' = Asking
    BY <1>3 DEF Asking
  <2>. QED BY <1>4, <1>5, <2>1, InTries, TriesIn
<1>7. Broken' = Broken /\ LeftBroken \subseteq LeftBroken' /\ faults <= faults'
  <2>1. Held' = Held
    BY <1>3 DEF Held, Dialling
  <2>. QED BY <1>3, <2>1, TriesTypes, BrokenStays
<1>8. BackInv'
  BY <1>3 DEF RetryInv, BackInv, Dialling
<1>. QED BY <1>3, <1>6, <1>7, <1>8, RetryKeeps

LEMMA EndsKeepsRetries ==
  ASSUME LinkInv, LinkInv', RetryInv, NEW s \in Sock, Ends(s)
  PROVE  RetryInv'
<1>1. /\ UNCHANGED <<open, up, socks, faults, conn, pc, call, tx, stmtTx, ran>>
      /\ toServer' = [toServer EXCEPT ![s] = <<>>]
  BY DEF Ends, program, ghosts, marked
<1>2. \A r \in Sock : Carried(r)' \subseteq Carried(r)
  <2>. SUFFICES ASSUME NEW r \in Sock PROVE Carried(r)' \subseteq Carried(r)
    OBVIOUS
  <2>1. toServer'[r] = toServer[r] \/ toServer'[r] = <<>>
    BY <1>1, LinkTypes DEF WsType
  <2>2. Queued(r)' \subseteq Queued(r)
    BY <2>1 DEF Queued
  <2>. QED BY <2>2 DEF Carried
<1>3. Tries' \subseteq Tries
  <2>1. Asking' = Asking
    BY <1>1 DEF Asking
  <2>. QED BY <1>1, <1>2, <2>1, InTries, TriesIn
<1>4. Broken' = Broken /\ LeftBroken \subseteq LeftBroken' /\ faults <= faults'
  <2>1. Held' = Held
    BY <1>1 DEF Held, Dialling
  <2>. QED BY <1>1, <2>1, TriesTypes, BrokenStays
<1>5. BackInv'
  BY <1>1 DEF RetryInv, BackInv, Dialling
<1>. QED BY <1>1, <1>3, <1>4, <1>5, RetryKeeps

(* One more socket broken, one more fault.                                  *)
LEMMA BreaksKeepsRetries ==
  ASSUME LinkInv, LinkInv', RetryInv, NEW s \in Sock, Breaks(s)
  PROVE  RetryInv'
<1>1. /\ UNCHANGED <<open, toServer, socks, conn, pc, call, tx, stmtTx, ran>>
      /\ up' = up \ {s} /\ faults' = faults + 1
  BY DEF Breaks, program, ghosts, marked
<1>2. Tries' \subseteq Tries
  <2>1. Asking' \subseteq Asking
    BY <1>1 DEF Asking
  <2>. QED BY <1>1, <2>1, NothingAsked
<1>3. Broken' \subseteq Broken \cup {s} /\ Broken \subseteq Broken'
  BY <1>1 DEF Broken
<1>4. LeftBroken \subseteq LeftBroken'
  <2>1. Held' = Held
    BY <1>1 DEF Held, Dialling
  <2>. QED BY <1>3, <2>1 DEF LeftBroken
<1>5. BackInv'
  BY <1>1 DEF RetryInv, BackInv, Dialling
<1>6. \E x : Broken' \subseteq Broken \cup {x} /\ faults' = faults + 1
  BY <1>1, <1>3
<1>. QED BY <1>1, <1>2, <1>4, <1>5, <1>6, RetryKeeps

LEMMA RestsKeepsRetries ==
  ASSUME LinkInv, LinkInv', RetryInv, UNCHANGED vars
  PROVE  RetryInv'
<1>1. /\ UNCHANGED <<open, up, toServer, socks, faults, conn, pc, call, tx, stmtTx, ran>>
  BY DEF vars, network, program, ghosts, marked
<1>2. BackInv'
  BY <1>1 DEF RetryInv, BackInv, Dialling
<1>3. Asking' \subseteq Asking
  BY <1>1 DEF Asking
<1>4. Held' = Held /\ faults <= faults'
  BY <1>1, TriesTypes DEF Held, Dialling
<1>. QED BY <1>1, <1>2, <1>3, <1>4, QuietKeepsRetries

LEMMA RetryNext == LinkInv /\ LinkInv' /\ RetryInv /\ [Next]_vars => RetryInv'
<1>. SUFFICES ASSUME LinkInv, LinkInv', RetryInv, [Next]_vars PROVE RetryInv'
  OBVIOUS
<1>1. CASE ExecContext \/ BeginTx \/ Commit \/ Rollback
  BY <1>1, CallsKeepRetries
<1>2. CASE Cancel
  BY <1>2, CancelKeepsRetries
<1>3. CASE Close
  BY <1>3, CloseKeepsRetries
<1>4. CASE Dials
  BY <1>4, DialsKeepsRetries
<1>5. CASE DialFails
  BY <1>5, DialFailsKeepsRetries
<1>6. CASE SendsHello \/ SendsOpenStream
  BY <1>6, GreetsKeepsRetries
<1>7. CASE ReadsHello
  BY <1>7, ReadsHelloKeepsRetries
<1>8. CASE ReadsOpenStream
  BY <1>8, ReadsOpenStreamKeepsRetries
<1>9. CASE HandshakeFails
  BY <1>9, HandshakeFailsKeepsRetries
<1>10. CASE Writes
  BY <1>10, WritesKeepsRetries
<1>11. CASE WriteFails \/ ReadFails
  BY <1>11, FailuresKeepRetries
<1>12. CASE ReadsResponse
  BY <1>12, ResponseKeepsRetries
<1>13. ASSUME NEW s \in Sock,
              \/ ServesHello(s) \/ ServesOpenStream(s) \/ Executes(s)
              \/ FailsToExecute(s) \/ FailsAndRollsBack(s)
       PROVE  RetryInv'
  BY <1>13, ServerKeepsRetries
<1>14. ASSUME NEW s \in Sock, Ends(s)
       PROVE  RetryInv'
  BY <1>14, EndsKeepsRetries
<1>15. ASSUME NEW s \in Sock, Breaks(s)
       PROVE  RetryInv'
  BY <1>15, BreaksKeepsRetries
<1>16. CASE UNCHANGED vars
  BY <1>16, RestsKeepsRetries
<1>. QED BY <1>1, <1>2, <1>3, <1>4, <1>5, <1>6, <1>7, <1>8, <1>9, <1>10, <1>11,
            <1>12, <1>13, <1>14, <1>15, <1>16 DEF Next, Rests

LEMMA RetryInvariance == Spec => [](LinkInv /\ RetryInv)
<1>1. Init => LinkInv /\ RetryInv
  BY LinkInit, RetryInit
<1>2. (LinkInv /\ RetryInv) /\ [Next]_vars => (LinkInv /\ RetryInv)'
  BY LinkNext, RetryNext
<1>. QED BY <1>1, <1>2, PTL DEF Spec

-----------------------------------------------------------------------------
(* A set of pairs has no more elements than it has first components, but    *)
(* for those whose second is not 1.                                         *)
LEMMA OnePerFirst ==
  ASSUME NEW S, NEW N, NEW R, R \subseteq S \X N, IsFiniteSet(R)
  PROVE  Cardinality(R) - Cardinality({e[1] : e \in R})
           <= Cardinality({e \in R : e[2] # 1})
<1>. DEFINE firsts == {e[1] : e \in R}
            once == {e \in R : e[2] = 1}
            rest == {e \in R : e[2] # 1}
<1>1. /\ IsFiniteSet(once) /\ IsFiniteSet(rest)
      /\ Cardinality(once) \in Nat /\ Cardinality(rest) \in Nat /\ Cardinality(R) \in Nat
  <2>1. once \subseteq R /\ rest \subseteq R
    OBVIOUS
  <2>. QED BY <2>1, FS_Subset, FS_CardinalityType
<1>2. Cardinality(R) = Cardinality(once) + Cardinality(rest)
  <2>1. R = once \cup rest /\ once \cap rest = {}
    OBVIOUS
  <2>2. Cardinality({}) = 0
    BY FS_EmptySet
  <2>3. Cardinality(once \cup rest)
          = Cardinality(once) + Cardinality(rest) - Cardinality(once \cap rest)
    BY <1>1, FS_Union
  <2>. HIDE DEF once, rest
  <2>4. Cardinality(R) = Cardinality(once \cup rest) /\ Cardinality(once \cap rest) = 0
    BY ONLY <2>1, <2>2
  <2>. QED BY ONLY <1>1, <2>3, <2>4
<1>3. IsFiniteSet(firsts) /\ Cardinality(firsts) \in Nat
  <2>. DEFINE f == [e \in R |-> e[1]]
  <2>1. f \in Surjection(R, firsts)
    BY DEF Surjection
  <2>2. IsFiniteSet(firsts)
    BY <2>1, FS_Surjection
  <2>. QED BY <2>2, FS_CardinalityType
<1>4. Cardinality(once) <= Cardinality(firsts)
  <2>. DEFINE f == [e \in once |-> e[1]]
  <2>1. f \in Injection(once, firsts)
    <3>1. f \in [once -> firsts]
      OBVIOUS
    <3>2. ASSUME NEW a \in once, NEW b \in once, f[a] = f[b] PROVE a = b
      <4>1. a \in S \X N /\ b \in S \X N /\ a[2] = b[2]
        OBVIOUS
      <4>2. a[1] = b[1]
        BY <3>2
      <4>. QED BY <4>1, <4>2
    <3>. QED BY <3>1, <3>2 DEF Injection, IsInjective
  <2>. HIDE DEF f
  <2>. QED BY <1>1, <1>3, <2>1, FS_Injection
<1>. HIDE DEF once, rest, firsts
<1>5. Cardinality(R) - Cardinality(firsts) <= Cardinality(rest)
  BY <1>1, <1>2, <1>3, <1>4
<1>. QED BY <1>5 DEF rest, firsts

(* database/sql tries a statement again when its connection fails: in a     *)
(* sql.Tx one that ran is never run again, and outside one each further     *)
(* execution is the work of a socket that broke.                            *)
THEOREM RetriesByFaults == Spec => []RepeatedByFaultsOnly
<1>1. LinkInv /\ RetryInv => RepeatedByFaultsOnly
  <2>. SUFFICES ASSUME LinkInv, RetryInv PROVE RepeatedByFaultsOnly
    OBVIOUS
  <2>1. ran \subseteq Stmt \X (1..Attempts) /\ IsFiniteSet(ran) /\ ran \subseteq Tries
    BY TriesTypes, InTries, FS_Subset DEF LinkInv, WsType
  <2>2. ASSUME NEW s \in {e[1] : e \in ran}, stmtTx[s] # NoTx
        PROVE  Cardinality({e \in ran : e[1] = s}) = 1
    <3>1. PICK p \in ran : p[1] = s
      OBVIOUS
    <3>2. \A e \in ran : e[1] = s => e = p
      <4>. SUFFICES ASSUME NEW e \in ran, e[1] = s PROVE e = p
        OBVIOUS
      <4>1. e[2] = 1 /\ p[2] = 1
        BY <2>1, <2>2, <3>1 DEF RetryInv, TriesInv
      <4>2. e \in Stmt \X (1..Attempts) /\ p \in Stmt \X (1..Attempts)
        BY <2>1
      <4>. QED BY <3>1, <4>1, <4>2
    <3>3. {e \in ran : e[1] = s} = {p}
      BY <3>1, <3>2
    <3>. QED BY <3>3, FS_Singleton
  <2>3. Cardinality(ran) - Cardinality({e[1] : e \in ran}) <= faults
    <3>. DEFINE more == {e \in ran : e[2] # 1}
                firsts == {e[1] : e \in ran}
    <3>1. Cardinality(ran) - Cardinality(firsts) <= Cardinality(more)
      BY <2>1, OnePerFirst
    <3>2. /\ Cardinality(more) \in Nat /\ Cardinality(Again) \in Nat
          /\ Cardinality(more) <= Cardinality(Again)
      <4>1. more \subseteq Again
        BY <2>1 DEF Again
      <4>. HIDE DEF more
      <4>. QED BY <4>1, TriesTypes, Fewer
    <3>3. /\ Cardinality(LeftBroken) \in Nat /\ Cardinality(Broken) \in Nat
          /\ Cardinality(LeftBroken) <= Cardinality(Broken)
      <4>1. LeftBroken \subseteq Broken
        BY DEF LeftBroken
      <4>. QED BY <4>1, TriesTypes, Fewer
    <3>4. Cardinality(Again) <= Cardinality(LeftBroken) /\ Cardinality(Broken) <= faults
      BY DEF RetryInv, PaidInv
    <3>5. /\ Cardinality(ran) \in Nat /\ faults \in Nat /\ Cardinality(firsts) \in Nat
      <4>. DEFINE f == [e \in ran |-> e[1]]
      <4>1. f \in Surjection(ran, firsts)
        BY DEF Surjection
      <4>2. IsFiniteSet(firsts)
        BY <2>1, <4>1, FS_Surjection
      <4>. QED BY <2>1, <4>2, TriesTypes, FS_CardinalityType
    <3>. HIDE DEF more, firsts
    <3>6. Cardinality(ran) - Cardinality(firsts) <= faults
      BY <3>1, <3>2, <3>3, <3>4, <3>5
    <3>. QED BY <3>6 DEF firsts
  <2>. QED BY <2>2, <2>3 DEF RepeatedByFaultsOnly
<1>. QED BY <1>1, RetryInvariance, PTL
=============================================================================
