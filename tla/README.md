# A TLA+ model of libsql-client-go

The repository is a `database/sql` driver for libSQL/Turso. A program opens a
`sql.DB` on a URL; for `http(s):`/`libsql:` URLs the driver speaks the Hrana
protocol over stateless HTTP requests, for `ws(s):` URLs over a websocket.
This directory holds TLA+ modules that model the driver, the TLC runs that
check them on small instances, and theorems about them that TLAPS checks.

Paths below are relative to `libsql/` unless they say otherwise; `hranaV2.go` is
`internal/http/hranaV2/hranaV2.go` and `websockets.go` is
`internal/ws/websockets.go`.

## The system

| component | state | operations | talks to |
|---|---|---|---|
| `hranaV2Conn` (hranaV2.go) | url, baton, streamClosed, replicationIndex | Connect, ExecContext, QueryContext, BeginTx, Commit, Rollback, Ping, ResetSession, IsValid, Close | the server, by one HTTP request per call (several for a text above 20 MB); database/sql, which calls it |
| Hrana server (outside the repository) | streams: baton, node, open transaction | execute, batch, close; expiry | the connection |
| `database/sql` pool (outside) | free and open connections, waiting goroutines | DB.conn, DB.retry, putConn, the opener | IsValid, ResetSession, Close and ErrBadConn of the driver |
| `keepaliveConnector` (keepalive.go) | lastActivity, started, stop, done, stopOnce | Connect, loop, touch, Close | the inner connector; goroutines of the program |
| `idPool` (websockets.go) | used, maxUsed | Get, Put | exec of the websocket connection |
| `websocketConn` (websockets.go, ws/driver.go) | the socket, its idPool | connect, exec, Close | the server, one request and one answer at a time |
| batches and results (internal/hrana, shared/rows.go) | none | BatchStream, BatchResult, rows | hranaV2Conn |
| arguments (shared/statement.go) | none | ParseStatementAndArgs | hranaV2Conn |
| statement splitter (sqliteparserutils) | position in the tokens | StatementIterator.Next | arguments, executeInChunks |
| configuration (sql.go) | the options | NewConnector, Driver.Open | selects one of the connectors |
| redaction (redact.go), generated parser, example program | none | | |

What is hard here:

* **The connection has no socket.** A transaction lives in a *stream* on one
  node of the server, and the connection reaches it with a *baton* that every
  answer replaces. A request without a baton opens a new stream. So one lost or
  failed answer leaves the two sides with different ideas of where they are,
  and a client that then sent the next statement of a transaction on a new
  stream would make it durable on its own.
* **Requests outlive calls.** `Close` and `closeStream` send theirs from a
  goroutine nobody waits for, and a cancelled call leaves its request behind.
  The server may serve each of them late, after newer ones, or never.
* **Connections outlive sessions.** `database/sql` pools them; what one
  borrower left open must not reach the next one, and a connection whose stream
  the server has closed must not be handed out again.
* **The keepalive** runs a goroutine whose start races with `Close` and whose
  `select` may find a tick and the stop ready at once.
* **A websocket may break after the write.** Whether the server has executed the
  request is then unknown, and `ErrBadConn` makes `database/sql` send it again. And a
  statement that fails may take the server's transaction with it, while the
  connection goes on with the same stream.
* **A long text is several requests.** Its chunks may fail or be refused when some of it
  has been executed already.
* **One call, many statements.** A text becomes a batch whose steps depend on each
  other by index, with a `ROLLBACK` at its end that must not be taken for one of
  the results.
* **Pure code at its boundaries**: a ring buffer of three tokens, `CASE ... END` inside
  a trigger, arguments dealt out over several statements, options and a URL that
  contradict each other.

## Modules

| module | models | proofs |
|---|---|---|
| `HranaServer` | the server: streams, batons, what executing a request may do | |
| `TxStore` | abstract: a store with transactions as a program expects it of `driver.Conn` and `driver.Tx` | |
| `HranaConn` | one `hranaV2Conn` with its application, network and server; extends `HranaServer`, implements `TxStore` | `HranaConnProofs` |
| `MCHranaConn` | symmetry sets for the runs of `HranaConn` | |
| `ConnPool` | goroutines on the `database/sql` pool with the driver's `IsValid` and `ErrBadConn` | `ConnPoolProofs` |
| `MCConnPool` | symmetry sets for a run of `ConnPool` | |
| `Keepalive` | `keepaliveConnector` | `KeepaliveProofs` |
| `UniqueIds` | the promise of the comment on `idPool` | |
| `IdPool` | `idPool`; implements `UniqueIds` | `IdPoolProofs` |
| `Batch` | one `ExecContext` or `QueryContext` with a text of several statements, as one request | `ExecStmtProofs` |
| `ExecStmt` | the same, as one request or in chunks; extends `Batch` | `ExecStmtProofs` |
| `WsConn` | websocket connections, with a program, `database/sql`, network and server; implements `TxStore` | `WsConnProofs` |
| `Splitter` | `StatementIterator` on its tokenizer | `SplitterProofs` |
| `Params` | `ParseStatementAndArgs` on the statements of a text | `InputProofs` |
| `Config` | `NewConnector` and `Driver.Open` | `InputProofs` |
| `MCSequential` | the four parts that share no state with others (`Splitter`, `Params`, `Config`, `IdPool`), side by side for one run, and the texts for it | |

### HranaServer and HranaConn

`conn` is the connection (`url`, `baton`, `streamClosed`), `call` the driver call
in progress: `send` when it is about to call `sendPipelineRequest`, `wait` from the
HTTP request to its answer. `net` holds every request sent and not yet served,
close requests and those of calls that have given up included; the server serves
any of them at any time or never. `reply` is the answer the call waits for.
`app` is what `database/sql` and the program do with the connection: it serves
at most `MaxSessions` sessions, and `app.tx` is the transaction the program has
open. Each action is one piece of the code between two points where something
else may happen:

| action | code |
|---|---|
| `Connect`, `ResetSession`, `Close` | hranaV2.go:40, 668, 180 |
| `ExecContext`, `BeginTx`, `Commit`, `Rollback`, `ExecInChunks` | the call begins (504, 209, 199, 204, 416) |
| `SendPipelineRequest` | 223-234: the guard on `streamClosed`, the baton, the request leaves |
| `ErrBadConn` | 224-227: refused, and whatever the caller does with the error |
| `ReceiveReply` | 235-252, `executeMsg`, and the rest of the caller up to its return or its next request |
| `TransportError` | 316-324, 346-348, 238-240, and the rest of the caller |
| `EndSession`, `Server*`, `StreamExpires` | outside the repository |

An error from `executeMsg` and one in the result of a batch end a call alike and
leave the connection alike, so both are `ok = FALSE`; only for `executeInChunks` is
there a difference (`steps`). `QueryContext` and `Ping` send what `ExecContext`
sends. Statements, transactions and sessions that appear in requests are ghosts
(`stmt` excepted): neither the driver nor the server looks at them.
A `COMMIT` or `ROLLBACK` that failed ends the `sql.Tx` like one that succeeded; but a
program may also send the two as texts on its `sql.Conn` and take the transaction for
still open. `AfterFailure` allows both. After the first, the server may still hold the
transaction, and statements the program takes for statements outside any are executed
inside it: `verdict.doubtful` collects those, the only ones that may be
acknowledged without being durable. A chunk carries one "statement", its whole
text; so does a request, which is right for a text inside a transaction (that is
what `Batch` shows), while one outside may leave a prefix of itself durable. The
connection is not one to a schema database.

The server is modelled from the client: `Executed` lets a statement succeed, fail,
or fail and take the transaction with it (as the `ROLLBACK` step of `BatchStream`
does); `KeepIdle = {FALSE}` is the server the comments describe (hranaV2.go:100-102:
the stream of a statement outside a transaction is closed with the answer), and
`BOOLEAN` one that may keep such a stream; `StepFails` says whether single steps of
a chunk may fail.

### TxStore

What all of this is for, without connections, streams, batons, requests or faults:
`issued` says in which transaction each statement was issued, `durable` which have
taken effect. A transaction takes effect in one step, with all that was acknowledged
in it, once, only after its `COMMIT` was asked for and never after its `ROLLBACK` was
reported; a statement outside takes effect by itself; a statement is acknowledged
only while its transaction is open or once it has taken effect; and `TellsCommitted`
and `TellsRolledBack` are true when they are told. `HranaConn` implements it with
`durable <- committed` and the ghosts `stmtTx`, `acked` and `verdict`; `WsConn` with
ghosts of the same names. Statements whose answer was lost are free: they may be in
or out, with their transaction, but not later and not alone.

Two freedoms are there because the code needs them: `doubtful` (above), and that a
`COMMIT` may make statements durable that were issued outside a transaction (the
doubtful ones are pending in it).

### Keepalive

Each goroutine that connects has a `pc`, and so has each that closes. `started` is
set in a step of its own after the stamp, because `Close` may read it in between.
`loop[p]` is the goroutine `p` has started. `Close` is three steps: close `stop`,
read `started`, receive from `done`; a second call waits for `stopOnce`. Time is
discrete: `idle` is the age of `lastActivity`, `ticker` the time to the next tick
and whether one is buffered (the channel holds one). `Elapse` is held back while
a goroutine can go on at once, for at most `Late` units while the loop could take
a case, and for at most `TouchLimit` while a touch runs. Over HTTP that is `Interval`,
the timeout of its context (keepalive.go:171-173); a websocket connector (sql.go:313-320
wraps it too) drops the context (345), and its connect has 120 seconds of its own
(websockets.go:198-201), so the limit is a parameter no smaller than the interval.
The touch's own `Connect` finds `started` set, so of it only the stamp is left. `last` is a
ghost: whether the last activity was the program's or a touch, and whether that failed.
Only `Connect` is seen by the connector: on HTTP there is one for nearly each statement
(keepalive.go:100-104), on a websocket, which stays connected, there need not be.

### IdPool

`Get` and `Put` hold the mutex from beginning to end and are one action each,
`Get` split by whether there is an id to reuse. Ids are `uint32`: `IdLimit` is
2^32, and `FreshId` wraps as the increment does. The module checks the data structure for
calls in any number and order, as its comment offers it; in this driver `database/sql`
makes one call at a time on a connection, so one id at most is out.

### ConnPool

`Exec` is `DB.Exec`; `attempt` counts `DB.retry`'s attempts, the third of which is
`alwaysNewConn`. `OpenerDelivers` is the opener goroutine, `HandsOver`,
`PutsBack`, `Discards` and `CloseConn` are `putConn` and what follows. A connection
is reduced to whether its stream is closed. `ExecPinned` is a `sql.Conn` that
executes another text on the connection it keeps. A text is one request (`part = "all"`),
or, of a goroutine in `Long`, also `BEGIN`, chunks and `COMMIT`: `Refuses` can then come after
some of them were served, and `executeInChunks` wraps its `ErrBadConn` so that
`DB.retry` still sees it. `ChunkAnswered` is a chunk whatever became of its steps: one that
failed may have taken the transaction with it (`torn`), after which the steps behind it
took effect by themselves and the server in general closed the stream. `executed` are the
attempts of which something took effect.

### Batch

`text` is a sequence of `begin`, `commit`, `rollback` and `write`; a write inserts one
row, named by its position. `Condition` and `StepCount` are `BatchStream`
(stream_request.go:51-80): without `schemaDb` each step runs if the one before
succeeded, and a last step rolls back if the last statement did not. `ServerStarts`,
`StepSucceeds`, `StepFails` and `StepIsSkipped` are the server on one stream, step by
step (outside the repository); a statement that fails may take its transaction with
it. `ReadsError`, `ReturnsResult`, `ReturnsRows`, `NextResultSet` and `RowsClose` are what
`executeStmt`, `ExecContext`, `QueryContext` and `shared/rows.go` make of the answer;
`StmtResults` is how many results they take for statements, and `Panics` says when
one of them indexes a result that is not there. All of this is about a text sent as one
request, and so are the properties of this module; long texts are next.

### ExecStmt

`executeStmt` chooses: a text as in `Batch` (`at = "off"`), or one above 20 MB without
arguments on a connection that is not to a schema database, in chunks
(`executeInChunks`). The text's length in bytes is not modelled; any text may be
long. `ChunkerNext` is the chunker, with the array behind its chunks (`slots`): the steps
of the message point into it, so a short last chunk must be cut. `ran` lists the steps
executed, with the chunk each was sent in; no condition holds them together.
`index` is `hranaV2Conn.replicationIndex`, `asks` the index in the message of the chunks:
`addReplicationIndex` sets it once, since the message is sent again and again. The server
gives an index with each result (`Given`) that grows with what is durable.

What the code does with a long text and no comment promises otherwise: the results
of later chunks are never read, so their failed steps go unnoticed (only the
first chunk's are reported, after the `COMMIT`); the first chunk's last step is taken for
a `ROLLBACK` and its rows are not counted; `QueryContext` panics when a long text has no
ordinary statement in it (hranaV2.go:648 cuts the last of no results off: `ReadsChunkResults`,
and the exception in `PanicsOnlyWithoutStatements`); statements that begin with `begin`, `commit`, `end` or
`rollback` are passed over, `ROLLBACK TO` a savepoint included.

### WsConn

One goroutine executes statements on a `DB` or in a `sql.Tx`. Every socket has a queue
each way, and the server's end a `stream`. `pc` walks through `connect`
(websockets.go:198-268: dial, write `hello`, write `open_stream`, read both answers) and
`exec` (write, read). `Breaks` is a socket that breaks with messages under way, some
of which the server may still serve; it also stands for the timeout of the
handshake, which has the same effect. `Cancel` is the context of the call;
`Commit` and `Rollback` have none (ws/driver.go). `BadConn` is what `database/sql` does
with `ErrBadConn`: three attempts, but none for a `Tx`, which keeps its
connection until it is over. A statement or a `COMMIT` may be refused and leave the
transaction open on the server (`FailsToExecute`), or, if `FailureRollsBack` is `BOOLEAN`,
take it with it (`FailsAndRollsBack`), as `Executed` of `HranaServer` and `StepFails` of `Batch` have
it. Over HTTP the answer to such a failure carries no baton, and the connection is marked;
here `exec` returns the error (websockets.go:186-189) and the stream stays open, so the
next statements of the `sql.Tx` take effect one by one and its `COMMIT` or `ROLLBACK` fails.
`TxTellsTheTruth` says what is left of a `sql.Tx` on any server: a transaction told to be
committed or rolled back is so, one without an error happens as a whole or not at all, and a
statement takes effect without its `COMMIT` only after the program was told that an earlier
one of the same `sql.Tx` had failed. To the store (`ImplementsTxStore`), a failure that takes
the transaction along has ended it: what the program executes in its `sql.Tx` from there on
is issued outside any (`alone`, a ghost, collects it as it is issued: the server lives and
has the transaction no more). `panic` ends the program.

### Splitter

A text is a sequence of token types; a token is its type and place. `tokens` and
`index` are the ring of `bufferedTokenizer`, `Consume` its `load(1)`. Every other action is
one turn of the loop of `StatementIterator.Next`, by what the token is and where in a
statement or trigger it stands; `IsOver` is the end of the text or a comment that
does not end. The reference (`Limit`, `TriggerAt`, `IsWhole`, `EndOf`) looks at the whole
text at once and counts `END` against `CASE` rather than keeping a depth.

### Params

A statement is the bind parameters `extractParameters` sees in it, and whether it is
an `EXPLAIN`. An argument is its name and the place at which it was given:
`database/sql` numbers them in that order, and `ConvertArgs` sorts by that number. `Deals`
is `generateStatementParameters` for one statement, with the running count `alreadyUsed`. The
reference is how SQLite numbers parameters; the two agree on *tidy* texts, whose
numbered parameters have no gaps and come before those without a number.

### Config

The fields of `config` are in `c`; one action per function that both `config.connector`
and `Driver.Open` go through, in their order, and `AppliesOption` for the options.
`Opens` runs the same URL through `Driver.Open`, which keeps its own copy of the
code. `ConfigInit`, `ConfigNext` and `ConfigSpec` are its specification; these names, and those
of `Params` and `IdPool`, carry prefixes because `MCSequential` extends them all. What is logged is left out. URLs with the scheme `file` and the options that only
travel along (schema database, encryption key) are left out.

## Runs

| run | checks | bounds |
|---|---|---|
| `HranaConnTx` | `TypeOK`; `TxEffectsNeedCommit`, `AcksAreTruthful`, `CommitIsAtomic`, `ChunkedExecIsAtomic`, and `ImplementsTxStore` (the refinement of `TxStore`) | 1 node, 3 streams, 3 statements, 2 sessions, 2 transactions, calls start below 6 requests, 1 fault, texts of 2 chunks, `KeepIdle = {FALSE}` |
| `HranaConnStreams` | `SessionsAreIsolated`, `GivenUpStreamsAreLeftAlone`, `BatonsGoHome`, `OrphansComeFromFaults` | 2 nodes, 3 streams, 2 statements, 2 sessions, 1 transaction, 5 requests, 2 faults, `KeepIdle = BOOLEAN` |
| `HranaConnChunks` (violation) | `ChunkedExecIsAtomic` | a server whose steps may fail, no faults |
| `Keepalive` | `OneLoop`, `ClosedIsQuiet`, `IdleIsBounded`, `CloseReturns`, `OneOfTwoTicksTriesAgain` | 2 goroutines that connect, 2 that close, interval 4, lateness 1, touches of up to 9 |
| `KeepaliveIdle` (violation) | `TouchedOnceIdle` | 1 goroutine of each kind, interval 4, lateness 1, touches of up to 4 |
| `ConnPool` | `BadConnOnlyWhenPinned`, `RepeatedOnlyWhenTorn` | 3 goroutines, one of them with long texts, 2 connections, 1 idle |
| `ConnPoolChunks` (violation) | `ExecutedAtMostOnce` | 1 goroutine with long texts, 1 connection |
| `ExecStmt` | `NothingRunsAfterAFailure`, `FailureLeavesNoTransaction`, `EnclosedTextIsAtomic` (the server's side of a batch), `SuccessIsComplete`, `PanicsOnlyWithoutStatements`, `ReadsEveryResult` (the driver's); `EachStatementOnceInOrder`, `LongTextReportedIsDurable` (chunks), `ReadsFollowWrites` (the replication index) | texts of up to 5 statements, chunks of 2 |
| `WsConn` | `TypeOK`, `AnswersAreOwn`, `NoSocketLeftOpen`, `RepeatedByFaultsOnly`, `TxTellsTheTruth`, and `ImplementsTxStore` (the refinement of `TxStore`) | 3 sockets, 2 statements, 1 transaction, 2 faults, `FailureRollsBack = BOOLEAN` |
| `WsConnHandshake` (violation) | `OpenStreamFailureIsReported` | as `WsConn` |
| `Sequential` | `LooksAhead`, `SplitsAtEveryEnd` (splitter); `DealtOnceInOrder`, `TidyTextsBindAsInSqlite`, `NamesReachTheirStatements` (arguments); `OptionWins`, `EntryPointsAgree` (configuration); `KeepsPromise` (the refinement of `UniqueIds`: distinct ids, none above the peak) | texts of 4 pieces, triggers with up to 6; 2 statements of 2 parameters, 4 positional arguments, 2 with names; every URL, 2 tokens, 2 options; 4 calls with ids. A behaviour is about one of the four and leaves the others alone |
| `ConfigTls` (violation) | `SchemeIsOverriddenQuietly` | every URL, 1 token, 1 option |

Why the bounds are enough. For `HranaConn`, the interesting case is: a
transaction begins (1 request), executes (2), its answer is lost or fails, the
program goes on or gives the connection back (close request), and the next
session's statement meets what is left; that is two sessions, one fault and five
requests. Three streams are the one of the transaction, one that a statement
wrongly sent on its own would open, and one of the next session. Two chunks are
what it takes for one to take effect without the other. For the streams a second
node is needed for a baton to go astray and a second fault for two orphans. For
`Keepalive`, an interval of 4 leaves room for a touch that ends before, on and after
a tick, and a limit of 9 for one that outlasts two intervals; two goroutines of each kind
for every race. For `ConnPool`, saturation needs more
goroutines than connections; one with long texts among them meets the others at every
request, and any number of chunks may come. For `ExecStmt`, `BEGIN`, two writes and `COMMIT` are the least
that can half succeed inside a transaction, and five statements in chunks of two are a full
chunk, one that overwrites it, and one that is cut; chunks that end with the text and
chunks that do not. For `WsConn`, three sockets are the three
attempts of one call, two faults break the first two; two statements are one that is
acknowledged in a transaction, or ends it, and one that then goes with it, or stands alone, or
meets what it left behind; one
transaction suffices, since a program has one at a time and what an old one leaves meets a statement
outside. For `Splitter`, the ring has three places, so a handful of tokens takes it
round more than once, and six pieces are a `BEGIN`, a nested `CASE ... END` and a
semicolon in a body. For `Params`, two statements show every error in the running
count, and four arguments are enough for both. For `Config`, two options can be
given twice, contradict the URL, or combine. Where the properties are also proved (below) the
bounds do not matter.

Fairness. Only `Keepalive` has liveness. Every goroutine that can go on does (weak
fairness: the Go scheduler), time passes, and the loop takes the stop if it is ready
again and again (strong fairness: `select` picks uniformly among the ready cases).
Nobody is obliged to connect or to close. The safety properties need none.

What the violations show:

* `HranaConnChunks`: the steps of a chunk carry no condition and nobody reads their
  errors, so a statement of a large text can fail while the rest is committed,
  against hranaV2.go:394 ("Chunks run in a transaction by default").
* `ConnPoolChunks`: when a step of a chunk takes the transaction of the chunks with it, the
  steps after it take effect by themselves and the stream is closed; the next request of
  the text is refused with `ErrBadConn`, and `database/sql` executes the text from the
  beginning, up to twice more (hranaV2.go:226, 411, 451; against the same line). What
  holds is `RepeatedOnlyWhenTorn`: nothing else is executed twice.
* `KeepaliveIdle`: ticks look whether the connector *has been* idle for an interval, and one
  that comes just short leaves it idle for almost another, where keepalive.go:38-43 promises a
  statement "whenever the connector has been idle for `interval`" and recommends 25 s below a
  threshold of 30 s. What holds is `IdleIsBounded`: two intervals, or the longest touch.
* `WsConnHandshake`: when the server refuses `open_stream`, `connect` takes the text of its
  error from the answer to `hello`, which has none, and panics (websockets.go:252).
* `ConfigTls`: `WithTls(true)` is refused for `http` and `ws` (`ChecksTls`), and `WithTls(false)` for
  `https` and `wss`, where sql.go:65-66 and README.md:94-95 of the repository say the scheme is
  overridden quietly. Only `libsql` yields.

What the models have as the code does it without a run of its own:

* `QueryContext` panics on a long text that only begins and ends transactions
  (hranaV2.go:648; `PanicsOnlyWithoutStatements` names the case).
* After a failure that ends the transaction, a websocket connection runs the rest of a
  `sql.Tx` statement by statement (`FailsAndRollsBack`, and `TxTellsTheTruth` says when).
* `touch` stamps the activity before it sends anything (keepalive.go:109), so after one that
  failed the next tick may skip if it is taken less late, where keepalive.go:169-170 says
  "The next tick tries again". What holds is `OneOfTwoTicksTriesAgain`.
* The headers of `WithRequestHeaders` are dropped without a word for `ws` and `wss`
  (`Connector`); sql.go:112-113 says they go with every request.

## Proofs

TLAPS checks, for all values of the constants under their assumptions
(`ServerAssumption`, `ConnAssumption`, `KeepaliveAssumption`, `IdPoolAssumption`,
`PoolAssumption`, `BatchAssumption`, `ExecAssumption`, `WsAssumption`, `SplitterAssumption`,
`ParamsAssumption`, `ConfigAssumption`; they say what kind of value a constant is and that
model values are distinct from what they stand beside; `IdPoolAssumption` also that there
are fewer calls than ids, and `KeepaliveAssumption` that the loop is late by less than an
interval):

* `HranaConnProofs`. `TypeCorrect`. Then `StreamInvariance`: each baton (of the
  connection, of a request in `net`, of the answer) names a stream that was started,
  lives on the node the address leads to and belongs to the session it is used in;
  no baton of the connection or of the awaited request is that of a close request.
  None of the three properties it gives (`SessionIsolation`, `GivenUpForGood`,
  `Routing`) is inductive alone: what a request carries comes from the connection,
  and what the connection carries from an answer. `TxIsolation`, the property that
  matters most, holds under `EagerClose` (`KeepIdle \subseteq {FALSE}`, the server
  hranaV2.go:100-102 describes): its invariant says that a stream's pending
  statements were issued in the transaction the stream holds, that a request of a
  transaction carries a baton of a stream that holds it, holds none, or whose
  baton is already stale, and that a connection whose program has a transaction
  open either knows that stream, or is marked closed, or will be refused.
  `StoreRefinement`: under `EagerClose` and `StepsSucceed` (the steps of
  a chunk do not fail; `HranaConnChunks` shows what happens if they do), `Spec` implies
  `ImplementsTxStore`, every step of the connection, its network and its server being a step
  of the store or a stutter. It rests on `StoreInv`, which takes up where the invariant of
  `TxIsolation` ends: that one says nothing durable was issued in a transaction that
  did not ask for it; the store also needs to know where everything *acknowledged* is. So
  each statement acknowledged in a transaction that has not ended is pending on
  the stream that holds it (`StoreStream`); a request of a transaction that can still be
  served finds its stream with all of them or finds it stale (`StoreRequest`); the
  awaited answer tells the truth before the program has heard it (`StoreReply`); and a
  program outside a transaction is on a connection without a baton, unless its
  last `sql.Tx` ended with an error. None of it is implied by the property: the last
  step of a transaction can only take all its statements along if none was
  lost in the steps before. `TruthfulAcks` and `AtomicCommit` follow from the same
  invariant. Initial states are `StoreInit`, the steps `SuccessIsStoreStep`,
  `SendIsStoreStep`, `ExecutesIsStoreStep` and `StoreStep`.
  `AtomicChunks`, for any number of chunks and under the same two assumptions, needs
  `ChunkInv` beside it: the statements issued in the transaction of a call in chunks and those
  still to come are as many as the chunks, all but the one under way are acknowledged,
  and the `COMMIT` is asked for when none is left. `NoLeaks` holds for any server. A
  fault need not lose its stream at once: a call that gives up leaves a request behind that may
  start or move on a stream long after. So `OrphanInv` counts these requests together with the
  streams already lost (`LeaksPaid`), and says that at most one request is awaited and
  carries the baton of the connection (`AwaitedInv`), so that one fault loses one.
* `KeepaliveProofs`. One loop at most (`SingleLoop`) and no touch after `Close`
  (`QuietAfterClose`), from an invariant that ties `started` to the one loop and
  `done` to its end. Both need nothing of the fairness or the timing. `KeptWarm`:
  the idle time of an open connector is bounded, whatever the interval, the latency of the
  loop and the limit of a touch, from `IdleInv`, which bounds it in each state of the
  loop: before a tick by what is left of the interval, while a touch runs by how long it
  has run, with a tick buffered by how long the loop has not taken it. `TriesAgain`: after a
  touch that failed two ticks in a row are never skipped, from `RetryInv`: the tick that
  follows the first has what is left of the interval since the touch ahead of it.
* `IdPoolProofs`. `PoolInvariance`: `used` and the ids in use partition
  `1..maxUsed`; from it distinct ids, no panic, and `Implementation`, that every step
  of the pool is a step of `UniqueIds`. The counting argument (an id is fresh only
  when all of `1..maxUsed` is in use) also shows that `maxUsed + 1` never wraps, given fewer
  calls than ids.
* `ExecStmtProofs`. For texts of any number of statements sent as one request, `StopsAtFailure`, `NothingLeftOpen` and `Atomicity`,
  from `BatchInv`. Its parts: there are at most as many results as steps and each
  phase has the right number (`Progress`); no statement
  ran after one that failed, and once the `ROLLBACK` has had its turn either no transaction is
  open or the last statement succeeded (`StepsInOrder`); and for
  a text inside one transaction, as long as all have succeeded that transaction is open
  and holds exactly the rows written so far, and from the first failure on nothing is
  durable (`InTransaction`). The last is what
  makes atomicity inductive: that nothing has leaked so far does not tell that the
  final `COMMIT` takes everything with it. The driver's side, `SuccessIsNoLess`
  and `OneResultEach`, needs two more: every step without a result comes
  after one that failed, and every row of a text that has only succeeded is durable or
  pending (`ResultsInv`); what the driver has read when it reports success, and where its
  rows stand (`DriverInv`). That some step failed first, for texts of any length, is an
  appeal to the well-foundedness of the naturals.
  None of the six says anything of a text in chunks. For these, and chunks of
  any size, `ChunksInOrder`, `LongTextDurable` and `ReadsSeeWrites` come from `ChunksInv`: the
  chunk, and where it stands in the array behind it (`ChunkTypes`); that what was executed is
  the first of the text's ordinary statements, as many as the chunker has passed but
  for those of the present chunk still to come (`InTurn`); which rows are pending and durable
  before the transaction of the chunks, in it and after it (`RowsInv`); and that no index
  known to the connection runs ahead of what is durable (`IndexInv`). `InOrder` ranks each
  ordinary statement by the number of those before it, which is what lets the proof count them.
  `PanicFree` is about both kinds of text: the first by the invariants of `Batch`, since the
  actions of a text sent as one request are those of `Batch`; the second by `FirstInv`, that the
  steps executed begin in the first chunk, and that there are some unless the text has no
  ordinary statement.
* `ConnPoolProofs`. For any number of goroutines and connections and texts of any length,
  `NoBadConn` and `RetriesRepeatTornOnly`, from `PoolInv`: a connection is free or held by one
  goroutine (`Ownership`), a free one is never closed, so what an unpinned goroutine holds can
  be used unless a chunk of the same attempt lost its transaction (`Usability`), and
  whoever is in a later attempt has lost it in every attempt before (`AttemptsTorn`).
* `WsConnProofs`. `TypeCorrect`, `OwnAnswers` and `NoneLeftOpen`, from `LinkInv`, which accounts
  for every message under way: nothing but greetings on the socket of a handshake, one or
  two by how far `connect` has come (`HandshakeInv`); on the connection's socket nothing, or the
  request of the call, or the answer to it (`ConnInv`); and a socket nobody has dialled
  yet is untouched (`SockInv`). That `connect` reads two answers is what makes the first
  answer `exec` reads its own. `StoreRefinement`: `Spec` implies `ImplementsTxStore`, on servers
  where a failure may take the transaction along too. Here it is sockets that separate
  transactions: `StoreInv` says that all statements of the program's transaction are on
  the connection's socket, pending there or on their way (`OnlyOn`), that the stream
  holds everything acknowledged in it and nothing else or is gone (`TxInv`), that a `COMMIT`
  still to be served, also one on a socket the client has given up, finds a whole
  transaction that has not taken effect (`StreamInv`), that the server has a transaction
  the program does not have only after it refused a `COMMIT` (`LeftoverInv`), that a statement is
  `alone` only while the server has no transaction for it to be in (`AloneInv`), and that an
  answer under way is true (`Truth`). A retry on a new socket is harmless because it is never
  of a statement inside a `sql.Tx`: without the test in `Retries` the proof fails in `SilentSteps`. `RetriesByFaults` counts tries
  rather than executions, since the request on a socket that broke may still be executed after
  its retry. `RetryInv`: for each further try a broken socket was left behind, and for each
  broken socket there was a fault (`PaidInv`); inside a `sql.Tx` nothing is tried again (`BackInv`,
  `TriesInv`).
* `SplitterProofs`. `Lookahead`: for every text, the ring holds the next three visible
  tokens. The invariant (`RingInv`) adds that the lexer stands right after the last of them.
  `Splits`: every text is split where `SplitsAtEveryEnd` says. With `RingInv` a turn of the loop is
  a step from one visible place of the text to the next, none beyond the limit (`TurnMoves`). The
  rest of `SplitInv` says of the text what the locals of `Next` stand for: a statement that is
  open has not ended before (`OpenInv`); `inTrigger` and `sawBegin` tell whether its trigger
  is at its head, in its body or over, and in the body `depth` is one more than what `END`
  lacks of `CASE` since the first `BEGIN`, which it has outnumbered nowhere (`TriggerInv`); and
  the statements returned follow each other with only semicolons and hidden tokens between
  (`DoneInv`). The property speaks of the last state only, so none of this is in it.
* `InputProofs`. `Params`: `EachDealtOnce` and `NamesReachThem`, from `DealingInv`; its
  `InTurnInv` says that what has been dealt out is `1..alreadyUsed`, each once and in order, and
  `DealtInv` what each statement got by name. `TidyTextsBind`, from `TidyInv`: as long as the
  statements are tidy and the arguments suffice, `alreadyUsed` is the number of parameters SQLite has
  counted. It rests on two lemmas about recursive functions: `CounterExists`, that a function on
  `0..n` may be defined from each number to the next, and `TidyCount`, that SQLite's numbering
  of a tidy statement ends at `PositionalParamsCount`. `Config`: `OptionsWin` and
  `EntryPointsAlike`, for every URL and any number of options, from `ConfigInv`: an option
  applied without an error is the only one of its kind (`OptionsInv`), the settings after each
  stage are functions of the URL and the options (`StepsInv`), and so is what each of the two
  entry points has returned (`Outcome`, in `ResultsInv`).

Every safety property of every passing run is a theorem but `TxTellsTheTruth`, which is only
model-checked so far. Proved without a run of their own, since TLC would only repeat it on a
small instance: the types of `Keepalive` and `IdPool`, distinct ids, and that no `Put` of an
id that was given out panics (`NoPanic`). Inductions over the length of a text, a
statement or a list are made by taking a least counterexample (the naturals are
well-founded), since the induction theorems of the library take operators. Also only
model-checked: `CloseReturns`, which is liveness and out of the prover's reach, and the
violations.

## Plan

Done: the core (`HranaServer`, `HranaConn`) first, then every module above; the abstract
store, both refinements and their proofs; the chunks of a long text and the replication
index; and a theorem for every safety property of a passing run but one. What is left: the proof
of `TxTellsTheTruth`, for which `StoreInv` has to say of each clause about the program's
transaction that it holds until the program is told of an error; and several goroutines on
the websocket pool.

## Not modelled

* The generated SQLite lexer and parser (`sqliteparser/`, over nine tenths of the
  repository's lines): tables and code ANTLR writes from a grammar. The driver uses only the
  token stream of the lexer, which `Splitter` and `Params` take as given.
* The redaction of credentials in error texts (`redact.go`): a rewriting of strings without
  state.
* The conversion of values and rows (`internal/hrana/value.go`, `stmt.go`, the `Next` of
  `shared/rows.go`, the getters of ws/driver.go): Go values to JSON and back. No property here tells one value
  from another.
* What of an HTTP error body is taken for its text (hranaV2.go:328-345): every status but 200
  is one failure here.
* `file:` URLs, which go to a driver outside the repository, and the example program.
