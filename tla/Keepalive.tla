------------------------------ MODULE Keepalive ------------------------------
(***************************************************************************)
(* keepaliveConnector (libsql/keepalive.go): goroutines of the application  *)
(* that Connect, the loop goroutine that touches an idle database, and the  *)
(* goroutines that Close the connector (database/sql's DB.Close and a       *)
(* caller's own defer may both do).                                         *)
(*                                                                          *)
(* Time is discrete.  None passes while a goroutine of the application is   *)
(* inside Connect or could go on in Close; the loop takes up a tick, or the *)
(* stop, at most Late units after it could.                                 *)
(***************************************************************************)
EXTENDS Naturals

CONSTANTS
  Caller,    \* goroutines of the application that use the connector
  Closer,    \* goroutines that close it
  Interval,  \* the interval of the keepalive
  Late,      \* scheduling latency of the loop goroutine
  TouchLimit \* what bounds a touch: over HTTP its context, which times out
             \* after Interval; over a websocket connect's own 120 seconds,
             \* since wsConnector.Connect drops the context (sql.go:345)

ASSUME KeepaliveAssumption ==
  /\ Caller \cap Closer = {}
  /\ Interval \in Nat \ {0}
  /\ Late \in Nat /\ Late < Interval
  /\ TouchLimit \in Nat /\ TouchLimit >= Interval

VARIABLES
  idle,     \* how long ago lastActivity was; Never before any activity
  last,     \* ghost: whose activity that was, whether its touch failed, and
            \* whether a tick has been skipped since
  started,  \* the flag that guards the loop goroutine
  stop,     \* channel stop is closed
  done,     \* channel done is closed
  once,     \* stopOnce: its function is not called, running, or over
  loop,     \* the loop goroutine each caller has started, if any
  ticker,   \* time to the next tick, and whether one waits in the channel
  waited,   \* how long the loop has had a case to choose, or its touch runs
  pc        \* where in Connect or Close each goroutine is

vars == <<idle, last, started, stop, done, once, loop, ticker, waited, pc>>

\* The longest a tick can find the connector idle for: a tick just skipped
\* and a whole interval after it, or a touch as long as they get.
Longest == IF 2 * Interval > TouchLimit THEN 2 * Interval ELSE TouchLimit + 1

\* Ages above Cap are not told apart.
Cap == Longest + Late
Never == Cap + 1
Older(age) == IF age < Cap THEN age + 1 ELSE age

TypeOK ==
  /\ idle \in 0..Never
  /\ last \in {"none", "program", "touch", "failed", "skipped"}
  /\ started \in BOOLEAN /\ stop \in BOOLEAN /\ done \in BOOLEAN
  /\ once \in {"free", "running", "over"}
  /\ loop \in [Caller -> {"none", "new", "select", "touch", "ended"}]
  /\ ticker \in [due: 1..Interval, tick: BOOLEAN]
  /\ waited \in 0..TouchLimit
  /\ pc \in [Caller \cup Closer ->
               {"out", "connect", "asks", "waits", "blocked", "closed"}]

Init ==
  /\ idle = Never /\ last = "none"
  /\ started = FALSE /\ stop = FALSE /\ done = FALSE
  /\ once = "free"
  /\ loop = [p \in Caller |-> "none"]
  /\ ticker = [due |-> Interval, tick |-> FALSE]
  /\ waited = 0
  /\ pc = [p \in Caller \cup Closer |-> "out"]

-----------------------------------------------------------------------------
(* Connect: stamp the activity, then start the loop if nobody has.          *)
Connect(p) ==
  /\ pc[p] = "out"
  /\ idle' = 0 /\ last' = "program"
  /\ pc' = [pc EXCEPT ![p] = "connect"]
  /\ UNCHANGED <<started, stop, done, once, loop, ticker, waited>>

CompareAndSwapAlways == TRUE   \* mutant: load and store, not compare-and-swap
CompareAndSwap == ~started

StartLoop(p) ==
  /\ pc[p] = "connect"
  /\ started' = TRUE
  /\ loop' = IF CompareAndSwap THEN [loop EXCEPT ![p] = "new"] ELSE loop
  /\ pc' = [pc EXCEPT ![p] = "out"]
  /\ UNCHANGED <<idle, last, stop, done, once, ticker, waited>>

-----------------------------------------------------------------------------
(* The loop goroutine.                                                      *)
NewTicker(l) ==
  /\ loop[l] = "new"
  /\ loop' = [loop EXCEPT ![l] = "select"]
  /\ ticker' = [due |-> Interval, tick |-> FALSE]
  /\ waited' = 0
  /\ UNCHANGED <<idle, last, started, stop, done, once, pc>>

Stops(l) ==
  /\ loop[l] = "select" /\ stop
  /\ loop' = [loop EXCEPT ![l] = "ended"]
  /\ done' = TRUE
  /\ waited' = 0
  /\ UNCHANGED <<idle, last, started, stop, once, ticker, pc>>

IdleFor == IF idle = Never THEN 0 ELSE idle
WarmForTwo == IdleFor < 2 * Interval  \* mutant: skips until idle twice as long
Warm == IdleFor < Interval

(* A tick may be taken although stop is closed too.                         *)
TakesTick(l) ==
  /\ loop[l] = "select" /\ ticker.tick
  /\ ticker' = [ticker EXCEPT !.tick = FALSE]
  /\ waited' = 0
  /\ UNCHANGED <<started, stop, done, once, pc>>

Skips(l) ==
  /\ TakesTick(l) /\ Warm
  /\ last' = IF last = "failed" THEN "skipped" ELSE last
  /\ UNCHANGED <<idle, loop>>

(* touch goes through Connect, and so stamps the activity itself before it  *)
(* knows whether the database is there.                                     *)
Touches(l) ==
  /\ TakesTick(l) /\ ~Warm
  /\ idle' = 0 /\ last' = "touch"
  /\ loop' = [loop EXCEPT ![l] = "touch"]

TouchEnds(l) ==
  /\ loop[l] = "touch"
  /\ loop' = [loop EXCEPT ![l] = "select"]
  /\ last' \in {last} \cup (IF last = "touch" THEN {"failed"} ELSE {})
  /\ waited' = 0
  /\ UNCHANGED <<idle, started, stop, done, once, ticker, pc>>

-----------------------------------------------------------------------------
(* Close: the first call closes stop, asks whether the loop was started and *)
(* waits for it if so; the others wait for the first.  Then each closes the *)
(* inner connector.                                                         *)
Close(c) ==
  /\ pc[c] = "out"
  /\ stop' = TRUE
  /\ once' = IF once = "free" THEN "running" ELSE once
  /\ pc' = [pc EXCEPT ![c] = CASE once = "free"    -> "asks"
                               [] once = "running" -> "blocked"
                               [] once = "over"    -> "closed"]
  /\ UNCHANGED <<idle, last, started, done, loop, ticker, waited>>

MustWaitAlways == TRUE         \* mutant: waits for a loop that never started
MustWaitNever == FALSE         \* mutant: does not wait for the loop
MustWait == started

AsksForLoop(c) ==
  /\ pc[c] = "asks"
  /\ pc' = [pc EXCEPT ![c] = IF MustWait THEN "waits" ELSE "closed"]
  /\ once' = IF MustWait THEN once ELSE "over"
  /\ UNCHANGED <<idle, last, started, stop, done, loop, ticker, waited>>

LoopIsDone(c) ==
  /\ pc[c] = "waits" /\ done
  /\ pc' = [pc EXCEPT ![c] = "closed"]
  /\ once' = "over"
  /\ UNCHANGED <<idle, last, started, stop, done, loop, ticker, waited>>

OnceIsOver(c) ==
  /\ pc[c] = "blocked" /\ once = "over"
  /\ pc' = [pc EXCEPT ![c] = "closed"]
  /\ UNCHANGED <<idle, last, started, stop, done, once, loop, ticker, waited>>

-----------------------------------------------------------------------------
(* A unit of time passes.                                                   *)
Running == \E l \in Caller : loop[l] \in {"select", "touch"}
Touching == \E l \in Caller : loop[l] = "touch"
HasCase == \E l \in Caller : loop[l] = "select" /\ (stop \/ ticker.tick)

CanGoOn ==
  \/ \E p \in Caller \cup Closer :
       \/ pc[p] \in {"connect", "asks"}
       \/ pc[p] = "waits" /\ done
       \/ pc[p] = "blocked" /\ once = "over"
  \/ \E l \in Caller : loop[l] = "new"

TimedOut == waited >= TouchLimit

Elapse ==
  /\ ~CanGoOn
  /\ HasCase => waited < Late
  /\ Touching => ~TimedOut
  /\ idle' = Older(idle)
  /\ ticker' = CASE ~Running -> ticker
                 [] Running /\ ticker.due > 1 -> [ticker EXCEPT !.due = @ - 1]
                 [] Running /\ ticker.due = 1 -> [due |-> Interval, tick |-> TRUE]
  /\ waited' = IF HasCase \/ Touching THEN waited + 1 ELSE 0
  /\ UNCHANGED <<last, started, stop, done, once, loop, pc>>

-----------------------------------------------------------------------------
Loop(l) ==
  \/ NewTicker(l) \/ Stops(l) \/ Skips(l) \/ Touches(l) \/ TouchEnds(l)

Closing(c) == AsksForLoop(c) \/ LoopIsDone(c) \/ OnceIsOver(c)

Next ==
  \/ \E p \in Caller : Connect(p) \/ StartLoop(p)
  \/ \E l \in Caller : Loop(l)
  \/ \E c \in Closer : Close(c) \/ Closing(c)
  \/ Elapse

(* Goroutines that can go on do, and time passes; nobody has to Connect or  *)
(* to Close.  A select with several cases ready picks one at random, so it  *)
(* does not pick the tick over stop forever.                                *)
Fairness ==
  /\ \A p \in Caller : WF_vars(StartLoop(p)) /\ WF_vars(Loop(p))
  /\ \A l \in Caller : SF_vars(Stops(l))
  /\ \A c \in Closer : WF_vars(Closing(c))
  /\ WF_vars(Elapse)

Spec == Init /\ [][Next]_vars /\ Fairness

-----------------------------------------------------------------------------
(* One loop at most is ever started, whoever connects first: a second one   *)
(* would close done twice, and panic.                                       *)
OneLoop ==
  \A l, k \in Caller : loop[l] # "none" /\ loop[k] # "none" => l = k

(* Once the first Close is through, no touch runs and none will: the loop   *)
(* has ended, or is about to see that stop is closed.                       *)
ClosedIsQuiet == once = "over" => ~Touching

(* While the loop runs, nobody waits longer for a use of the connector, or  *)
(* for an attempt to touch it, than two intervals, or a touch that hangs    *)
(* until its limit, and the latency of the loop.                            *)
IdleIsBounded == Running /\ ~stop => IdleFor < Longest + Late

(* Every Close returns, also when it is called again, or while a touch      *)
(* runs, or before the loop has started.                                    *)
CloseReturns == \A c \in Closer : pc[c] # "out" ~> pc[c] = "closed"

(* After a touch that failed, one of the next two ticks tries again, if      *)
(* nobody has used the connector since: keepalive.go:169-170 says the next   *)
(* one does, but the touch has stamped itself as activity (:109), and a tick *)
(* taken less late than the touch's own finds it too recent.                 *)
OneOfTwoTicksTriesAgain == [][\A l \in Caller : Skips(l) => last # "skipped"]_vars

(* keepalive.go:38-43: a statement is issued whenever the connector has     *)
(* been idle for the interval, with a margin for a late tick.  Not so: ticks*)
(* are not counted from the last activity (:158).                           *)
TouchedOnceIdle == Running /\ ~stop => IdleFor <= Interval + Late
=============================================================================
