-------------------------------- MODULE WsConn --------------------------------
(***************************************************************************)
(* The connections of the websocket driver (libsql/internal/ws): connect's  *)
(* handshake, exec, and what database/sql makes of ErrBadConn, for a        *)
(* program that executes statements on the DB and in a sql.Tx, one at a     *)
(* time.  A socket carries messages in order and may break at any moment;   *)
(* what was sent before may still be served.                                *)
(***************************************************************************)
EXTENDS Naturals, Sequences, FiniteSets

CONSTANTS
  MaxSocks,   \* bound: sockets dialled
  MaxStmts,   \* bound: statements executed
  MaxTx,      \* bound: transactions begun
  MaxFaults,  \* bound: sockets that break, calls cancelled, dials that fail
  FailureRollsBack  \* {FALSE}: a statement that fails leaves its transaction
              \* open; BOOLEAN: it may take the transaction with it

ASSUME WsAssumption ==
  /\ MaxSocks \in Nat /\ MaxStmts \in Nat /\ MaxTx \in Nat /\ MaxFaults \in Nat
  /\ FailureRollsBack \subseteq BOOLEAN

Sock == 1..MaxSocks
Stmt == 1..MaxStmts
NoSock == 0
NoTx == 0
Attempts == 3       \* database/sql: maxBadConnRetries + 1
Kind == {"hello", "open_stream", "exec", "begin", "commit", "rollback"}

VARIABLES
  open, up,     \* sockets the client has open, and those that are not broken
  toServer, toClient,     \* the messages under way on each socket
  stream,       \* the server's end of each: its state, whether it is in a
                \* transaction, and the statements uncommitted in it
  durable,      \* statements committed
  socks, faults,          \* sockets dialled and faults so far
  conn,         \* the socket of the driver.Conn the pool or the Tx holds
  pc,           \* where the call in progress stands
  call,         \* that call: its kind, statement and attempt, whether its
                \* context is done, and the request it has sent
  tx,           \* the sql.Tx the program has
  txs, stmtTx,  \* transactions begun; the one each statement was issued in
  asked, committed, rolledBack,   \* ghost: COMMITs sent, COMMITs and
                \* ROLLBACKs that succeeded
  acked, ran,   \* ghost: statements that succeeded; the executions of each,
                \* by its number and the attempt
  refused,      \* ghost: sockets whose server refused to COMMIT a transaction
  doubtful,     \* ghost: statements sent outside a transaction on one of them
  alone         \* ghost: statements issued in a sql.Tx whose connection had no
                \* transaction any more

network == <<up, toServer, toClient, stream, durable>>
program == <<tx, txs, stmtTx>>
told == <<asked, committed, rolledBack, acked>>
marked == <<refused, doubtful, alone>>
ghosts == <<told, ran, marked>>
vars == <<open, network, socks, faults, conn, pc, call, program, ghosts>>

Message == [kind: Kind, stmt: Nat, attempt: Nat]
Response == [of: Message, ok: BOOLEAN]

TypeOK ==
  /\ open \in SUBSET Sock /\ up \in SUBSET Sock
  /\ \A s \in Sock : toServer[s] \in Seq(Message) /\ toClient[s] \in Seq(Response)
  /\ \A s \in Sock :
       Len(toServer[s]) + Len(toClient[s]) <= IF s = conn THEN 1 ELSE 2
  /\ stream \in [Sock -> [state: {"new", "greeted", "open", "gone"},
                          inTx: BOOLEAN, pending: SUBSET Stmt]]
  /\ durable \in SUBSET Stmt
  /\ socks \in 0..MaxSocks /\ faults \in 0..MaxFaults
  /\ conn \in Sock \cup {NoSock}
  /\ pc \in {"idle", "connect", "hello", "open_stream", "helloResp",
             "openStreamResp", "exec", "resp", "panic"}
  /\ call \in [kind: Kind, stmt: Nat, attempt: 1..Attempts, done: BOOLEAN]
  /\ tx \in 0..MaxTx /\ txs \in 0..MaxTx
  /\ stmtTx \in Seq(0..MaxTx) /\ Len(stmtTx) <= MaxStmts
  /\ asked \subseteq 1..MaxTx /\ committed \subseteq asked
  /\ rolledBack \subseteq 1..MaxTx
  /\ acked \subseteq Stmt /\ doubtful \subseteq Stmt /\ alone \subseteq Stmt
  /\ ran \subseteq Stmt \X (1..Attempts)
  /\ refused \subseteq Sock

NoCall == [kind |-> "exec", stmt |-> 0, attempt |-> 1, done |-> FALSE]

Init ==
  /\ open = {} /\ up = {}
  /\ toServer = [s \in Sock |-> <<>>] /\ toClient = [s \in Sock |-> <<>>]
  /\ stream = [s \in Sock |-> [state |-> "new", inTx |-> FALSE, pending |-> {}]]
  /\ durable = {}
  /\ socks = 0 /\ faults = 0
  /\ conn = NoSock /\ pc = "idle" /\ call = NoCall
  /\ tx = NoTx /\ txs = 0 /\ stmtTx = <<>>
  /\ asked = {} /\ committed = {} /\ rolledBack = {}
  /\ acked = {} /\ ran = {} /\ refused = {} /\ doubtful = {} /\ alone = {}

-----------------------------------------------------------------------------
(* The program: DB.ExecContext or Tx.ExecContext, DB.BeginTx, and the Tx's  *)
(* Commit and Rollback.  A Tx keeps its connection; any other call takes    *)
(* the pool's, or a new one.                                                *)
Calls(kind, stmt) ==
  /\ pc = "idle"
  /\ call' = [NoCall EXCEPT !.kind = kind, !.stmt = stmt]
  /\ pc' = IF conn = NoSock THEN "connect" ELSE "exec"
  /\ UNCHANGED <<open, network, socks, faults, conn, tx, told, ran, refused, doubtful>>

(* The server lives, and has the transaction of the Tx no more.             *)
StandsAlone == tx # NoTx /\ stream[conn].state # "gone" /\ ~stream[conn].inTx

ExecContext ==
  /\ Len(stmtTx) < MaxStmts
  /\ Calls("exec", Len(stmtTx) + 1)
  /\ stmtTx' = Append(stmtTx, tx)
  /\ alone' = IF StandsAlone THEN alone \cup {call'.stmt} ELSE alone
  /\ UNCHANGED txs

BeginTx ==
  /\ tx = NoTx /\ txs < MaxTx
  /\ Calls("begin", 0)
  /\ txs' = txs + 1
  /\ UNCHANGED <<stmtTx, alone>>

Commit ==
  /\ tx # NoTx
  /\ Calls("commit", 0)
  /\ UNCHANGED <<txs, stmtTx, alone>>

Rollback ==
  /\ tx # NoTx
  /\ Calls("rollback", 0)
  /\ UNCHANGED <<txs, stmtTx, alone>>

(* The call's context is cancelled or times out. *)
Cancel ==
  /\ pc \in {"connect", "exec", "resp"} /\ ~call.done /\ faults < MaxFaults
  /\ call.kind \notin {"commit", "rollback"}    \* context.Background()
  /\ call' = [call EXCEPT !.done = TRUE]
  /\ faults' = faults + 1
  /\ UNCHANGED <<open, network, socks, conn, pc, program, ghosts>>

(* conn.Close: DB.Close, or a pool that has no use for it.                  *)
Close ==
  /\ pc = "idle" /\ tx = NoTx /\ conn # NoSock
  /\ open' = open \ {conn}
  /\ conn' = NoSock
  /\ UNCHANGED <<network, socks, faults, pc, call, program, ghosts>>

-----------------------------------------------------------------------------
(* connect.  It does not look at the context of the call.                   *)
Dialling == socks    \* the socket of the handshake, the last one dialled

Dials ==
  /\ pc = "connect" /\ ~call.done /\ socks < MaxSocks
  /\ socks' = socks + 1
  /\ open' = open \cup {socks'} /\ up' = up \cup {socks'}
  /\ pc' = "hello"
  /\ UNCHANGED <<toServer, toClient, stream, durable, faults, conn, call,
                 program, ghosts>>

(* A call that returns.  A Tx is over when its Commit or Rollback has been  *)
(* called, whatever came of it.                                             *)
Returns ==
  /\ pc' = "idle"
  /\ call' = NoCall
  /\ tx' = IF call.kind \in {"commit", "rollback"} THEN NoTx ELSE tx
  /\ UNCHANGED <<txs, stmtTx>>

(* DB.conn without a connection, its context done or the dial failed.       *)
DialFails ==
  /\ pc = "connect"
  /\ \/ call.done /\ UNCHANGED faults
     \/ ~call.done /\ faults < MaxFaults /\ faults' = faults + 1
  /\ Returns
  /\ UNCHANGED <<open, network, socks, conn, ghosts>>

Sends(s, kind) ==
  toServer' = [toServer EXCEPT ![s] =
    IF s \in up THEN Append(@, [kind |-> kind, stmt |-> call.stmt,
                                attempt |-> call.attempt])
    ELSE @]

SendsHello ==
  /\ pc = "hello"
  /\ Sends(Dialling, "hello")
  /\ pc' = "open_stream"
  /\ UNCHANGED <<open, up, toClient, stream, durable, socks, faults, conn,
                 call, program, ghosts>>

SendsOpenStream ==
  /\ pc = "open_stream"
  /\ Sends(Dialling, "open_stream")
  /\ pc' = "helloResp"
  /\ UNCHANGED <<open, up, toClient, stream, durable, socks, faults, conn,
                 call, program, ghosts>>

Reads(s) ==
  /\ toClient[s] # <<>>
  /\ toClient' = [toClient EXCEPT ![s] = Tail(@)]
  /\ UNCHANGED <<up, toServer, stream, durable>>

LeavesOpen == open                    \* mutant: a refused socket stays open
ClosesSocket == open \ {Dialling}

GoesOn(to) ==
  /\ pc' = to
  /\ conn' = IF to = "exec" THEN Dialling ELSE conn
AfterHelloExec == GoesOn("exec")      \* mutant: one answer is not read
AfterHello == GoesOn("openStreamResp")

ReadsHello ==
  /\ pc = "helloResp"
  /\ Reads(Dialling)
  /\ IF Head(toClient[Dialling]).ok
     THEN AfterHello /\ UNCHANGED <<open, call, program>>
     ELSE open' = ClosesSocket /\ Returns /\ UNCHANGED conn
  /\ UNCHANGED <<socks, faults, ghosts>>

(* The text of the error is taken from the answer to hello, which has none: *)
(* errorMsg panics on it.                                                   *)
ReadsOpenStream ==
  /\ pc = "openStreamResp"
  /\ Reads(Dialling)
  /\ IF Head(toClient[Dialling]).ok
     THEN GoesOn("exec")
     ELSE pc' = "panic" /\ UNCHANGED conn
  /\ UNCHANGED <<open, socks, faults, call, program, ghosts>>

(* A Write or Read of the handshake that fails. *)
HandshakeFails ==
  /\ pc \in {"hello", "open_stream", "helloResp", "openStreamResp"}
  /\ Dialling \notin up
  /\ open' = open \ {Dialling}
  /\ Returns
  /\ UNCHANGED <<network, socks, faults, conn, ghosts>>

-----------------------------------------------------------------------------
(* exec.                                                                    *)
Usable(s) == s \in open \cap up

Writes ==
  /\ pc = "exec" /\ conn \in open
  /\ Sends(conn, call.kind)
  /\ asked' = IF call.kind = "commit" THEN asked \cup {tx} ELSE asked
  /\ doubtful' = IF call.kind = "exec" /\ tx = NoTx /\ conn \in refused
                 THEN doubtful \cup {call.stmt} ELSE doubtful
  /\ pc' = "resp"
  /\ UNCHANGED <<open, up, toClient, stream, durable, socks, faults, conn,
                 call, program, committed, rolledBack, acked, ran, refused, alone>>

(* ErrBadConn, to database/sql: a Tx keeps its connection until it is over; *)
(* elsewhere the connection is closed, and the call tried again.            *)
RetriesInTxToo ==     \* mutant: the call is tried again inside a Tx too
  call.kind \in {"exec", "begin"} /\ call.attempt < Attempts
Retries ==
  call.kind \in {"exec", "begin"} /\ tx = NoTx /\ call.attempt < Attempts

BadConn ==
  /\ IF tx # NoTx /\ call.kind = "exec"
     THEN UNCHANGED conn
     ELSE conn' = NoSock
  /\ IF Retries
     THEN /\ pc' = "connect"
          /\ call' = [call EXCEPT !.attempt = @ + 1]
          /\ UNCHANGED program
     ELSE Returns

(* A request that cannot be written, or whose answer cannot be read.  The   *)
(* websocket library closes a socket on which a Read fails, and one on which *)
(* a Write is cut short.                                                    *)
WriteFails ==
  /\ pc = "exec" /\ (~Usable(conn) \/ call.done)
  /\ BadConn
  /\ open' \in {open \ {conn}, IF conn' = conn THEN open ELSE open \ {conn}}
  /\ UNCHANGED <<network, socks, faults, ghosts>>

ReadFails ==
  /\ pc = "resp" /\ (conn \notin up \/ call.done)
  /\ BadConn
  /\ open' = open \ {conn}
  /\ UNCHANGED <<network, socks, faults, ghosts>>

SucceededAlways(resp) == TRUE   \* mutant: an error response is not noticed
Succeeded(resp) == resp.ok

(* What the program learns. *)
Tells(kind, ok) ==
  /\ acked' = IF ok /\ kind = "exec" THEN acked \cup {call.stmt} ELSE acked
  /\ committed' = IF ok /\ kind = "commit" THEN committed \cup {tx} ELSE committed
  /\ rolledBack' = IF ok /\ kind = "rollback" THEN rolledBack \cup {tx} ELSE rolledBack

(* The next message is taken for the answer. *)
ReadsResponse ==
  /\ pc = "resp"
  /\ Reads(conn)
  /\ pc' = "idle"
  /\ call' = NoCall
  /\ LET ok == Succeeded(Head(toClient[conn]))
     IN  /\ tx' = IF call.kind \in {"commit", "rollback"} THEN NoTx
                  ELSE IF call.kind = "begin" /\ ok THEN txs ELSE tx
         /\ Tells(call.kind, ok)
  /\ UNCHANGED <<open, socks, faults, conn, txs, stmtTx, asked, ran, marked>>

-----------------------------------------------------------------------------
(* The server and the network.                                              *)
Served(s, st, ok) ==
  /\ toServer[s] # <<>>
  /\ toServer' = [toServer EXCEPT ![s] = Tail(@)]
  /\ toClient' = [toClient EXCEPT ![s] =
       IF s \in up THEN Append(@, [of |-> Head(toServer[s]), ok |-> ok]) ELSE @]
  /\ stream' = [stream EXCEPT ![s] = st]
  /\ UNCHANGED <<open, up, socks, faults, conn, pc, call, program, told, doubtful, alone>>

Asks(s, kind) == toServer[s] # <<>> /\ Head(toServer[s]).kind = kind

ServesHello(s) ==
  /\ stream[s].state = "new" /\ Asks(s, "hello")
  /\ \/ Served(s, [stream[s] EXCEPT !.state = "greeted"], TRUE)
     \/ Served(s, [stream[s] EXCEPT !.state = "gone"], FALSE)
  /\ UNCHANGED <<durable, ran, refused>>

ServesOpenStream(s) ==
  /\ stream[s].state = "greeted" /\ Asks(s, "open_stream")
  /\ \/ Served(s, [stream[s] EXCEPT !.state = "open"], TRUE)
     \/ Served(s, stream[s], FALSE)
  /\ UNCHANGED <<durable, ran, refused>>

Ran(m) == ran' = ran \cup {<<m.stmt, m.attempt>>}

Executes(s) ==
  LET m == Head(toServer[s])
      st == stream[s]
      cleared == [st EXCEPT !.inTx = FALSE, !.pending = {}]
  IN  /\ st.state = "open" /\ toServer[s] # <<>>
      /\ \/ /\ m.kind = "exec" /\ st.inTx
            /\ Served(s, [st EXCEPT !.pending = @ \cup {m.stmt}], TRUE)
            /\ Ran(m) /\ UNCHANGED <<durable, refused>>
         \/ /\ m.kind = "exec" /\ ~st.inTx
            /\ Served(s, st, TRUE)
            /\ durable' = durable \cup {m.stmt}
            /\ Ran(m) /\ UNCHANGED refused
         \/ /\ m.kind = "begin" /\ ~st.inTx
            /\ Served(s, [st EXCEPT !.inTx = TRUE], TRUE)
            /\ UNCHANGED <<durable, ran, refused>>
         \/ /\ m.kind = "commit" /\ st.inTx
            /\ Served(s, cleared, TRUE)
            /\ durable' = durable \cup st.pending /\ UNCHANGED <<ran, refused>>
         \/ /\ m.kind = "rollback" /\ st.inTx
            /\ Served(s, cleared, TRUE)
            /\ UNCHANGED <<durable, ran, refused>>

(* A statement that fails leaves the transaction as it was; so does COMMIT  *)
(* (of a database that is busy, or violates a deferred constraint).         *)
FailsToExecute(s) ==
  /\ stream[s].state = "open" /\ toServer[s] # <<>>
  /\ Asks(s, "rollback") => ~stream[s].inTx
  /\ Served(s, stream[s], FALSE)
  /\ refused' = IF Asks(s, "commit") /\ stream[s].inTx THEN refused \cup {s} ELSE refused
  /\ UNCHANGED <<durable, ran>>

(* Or it takes the transaction with it, as SQLite does on some errors.  The *)
(* driver goes on with the stream, where each statement now stands alone.   *)
FailsAndRollsBack(s) ==
  /\ TRUE \in FailureRollsBack
  /\ stream[s].state = "open" /\ stream[s].inTx
  /\ Asks(s, "exec") \/ Asks(s, "commit")
  /\ Served(s, [stream[s] EXCEPT !.inTx = FALSE, !.pending = {}], FALSE)
  /\ UNCHANGED <<durable, ran, refused>>

(* The server sees that a socket is closed or broken, or has refused it.    *)
Ends(s) ==
  /\ s \notin open \cap up \/ stream[s].state = "gone"
  /\ toServer[s] # <<>> \/ stream[s].inTx
  /\ toServer' = [toServer EXCEPT ![s] = <<>>]
  /\ stream' = [stream EXCEPT ![s] = [state |-> "gone", inTx |-> FALSE, pending |-> {}]]
  /\ UNCHANGED <<open, up, toClient, durable, socks, faults, conn, pc, call,
                 program, ghosts>>

Breaks(s) ==
  /\ s \in up /\ s \in open /\ faults < MaxFaults
  /\ up' = up \ {s}
  /\ faults' = faults + 1
  /\ toClient' \in {toClient, [toClient EXCEPT ![s] = <<>>]}
  /\ UNCHANGED <<open, toServer, stream, durable, socks, conn, pc, call,
                 program, ghosts>>

(* Nothing is left to call, or the program has crashed. *)
Rests == pc \in {"idle", "panic", "connect"} /\ UNCHANGED vars

Next ==
  \/ ExecContext \/ BeginTx \/ Commit \/ Rollback \/ Cancel \/ Close
  \/ Dials \/ DialFails \/ SendsHello \/ SendsOpenStream
  \/ ReadsHello \/ ReadsOpenStream \/ HandshakeFails
  \/ Writes \/ WriteFails \/ ReadFails \/ ReadsResponse
  \/ \E s \in Sock : \/ ServesHello(s) \/ ServesOpenStream(s)
                     \/ Executes(s) \/ FailsToExecute(s) \/ FailsAndRollsBack(s)
                     \/ Ends(s) \/ Breaks(s)
  \/ Rests

Spec == Init /\ [][Next]_vars

-----------------------------------------------------------------------------
(* What exec takes for its answer is the answer to its own request: neither *)
(* the handshake nor a call that gave up leaves one behind.                 *)
AnswersAreOwn ==
  pc = "resp" /\ conn \in open /\ toClient[conn] # <<>> =>
    Head(toClient[conn]).of =
      [kind |-> call.kind, stmt |-> call.stmt, attempt |-> call.attempt]

(* No socket stays open that nobody holds: a connect that fails closes its  *)
(* own.                                                                     *)
NoSocketLeftOpen ==
  pc \notin {"hello", "open_stream", "helloResp", "openStreamResp", "panic"}
    => open \subseteq {conn}

(* A statement of a sql.Tx is executed once at most; outside one, each      *)
(* further execution is the work of a socket that broke or a call that gave *)
(* up.                                                                      *)
RepeatedByFaultsOnly ==
  LET stmts == {e[1] : e \in ran}
  IN  /\ \A s \in stmts : stmtTx[s] # NoTx => Cardinality({e \in ran : e[1] = s}) = 1
      /\ Cardinality(ran) - Cardinality(stmts) <= faults

(* A Tx said to be committed has taken effect with all that was             *)
(* acknowledged in it, one said to be rolled back has not, and one without  *)
(* an error does as a whole or not at all.  A statement of a Tx stands      *)
(* alone, without a COMMIT, only after the program was told that an earlier *)
(* one had failed: exec goes on after a failure, whatever it left on the    *)
(* server.                                                                  *)
In(t) == {s \in DOMAIN stmtTx : stmtTx[s] = t}
TxTellsTheTruth ==
  \A t \in 1..MaxTx :
    /\ t \in committed => In(t) \cap acked \subseteq durable
    /\ t \in rolledBack => In(t) \cap durable = {}
    /\ In(t) \subseteq acked => In(t) \cap durable \in {{}, In(t)}
    /\ \A s \in In(t) \cap durable :
         t \in asked \/ \E r \in In(t) : r < s /\ r \notin acked

(* The connections with the pool and the server are a store whose           *)
(* transactions happen as a whole or not at all, and which tells the truth  *)
(* about them.  A failure that takes a transaction with it ends it for the  *)
(* store: what the program goes on to execute in its sql.Tx is issued       *)
(* outside any.                                                             *)
NotIssued == MaxTx + 1
IssuedIn(s) == IF s \in alone THEN NoTx ELSE stmtTx[s]
Store == INSTANCE TxStore WITH
           Tx <- 1..MaxTx, durable <- durable,
           issued <- [s \in Stmt |-> IF s \in DOMAIN stmtTx THEN IssuedIn(s)
                                                            ELSE NotIssued]
ImplementsTxStore == Store!Spec

(* connect returns an error when the server refuses to open a stream.       *)
OpenStreamFailureIsReported == pc # "panic"
=============================================================================
