--------------------------- MODULE KeepaliveProofs ---------------------------
(***************************************************************************)
(* Theorems about Keepalive, for any callers, closers, interval, latency of *)
(* the loop below the interval, and limit of a touch above it.              *)
(***************************************************************************)
EXTENDS Keepalive, TLAPS

(* Everything about the variables that the types do not say: who may have   *)
(* started the loop, what a closed done and a closed stop stand for, and    *)
(* why a loop that starts after a Close finds stop closed before its first  *)
(* tick: it takes longer than the latency of the loop.                      *)
LoopInv ==
  /\ OneLoop
  /\ \A l \in Caller : loop[l] # "none" => started
  /\ done => started /\ \A l \in Caller : loop[l] \in {"none", "ended"}
  /\ once # "free" => stop
  /\ once = "over" => \A l \in Caller :
       /\ loop[l] # "touch"
       /\ loop[l] = "select" => ~ticker.tick /\ ticker.due + waited = Interval
  /\ \A c \in Closer : pc[c] \in {"asks", "waits"} => stop

(* The age of the last activity stays within its bound.                    *)
LEMMA AgesType ==
  /\ 0 \in 0..Never /\ Never \in 0..Never
  /\ \A age \in 0..Never : Older(age) \in 0..Never
<1>1. Cap \in Nat
  BY KeepaliveAssumption DEF Cap, Longest
<1>. QED BY <1>1 DEF Never, Older

(* No loop runs before the first Connect.                                  *)
LEMMA InitLoop == Init => TypeOK /\ LoopInv
<1>1. ASSUME Init PROVE TypeOK
  <2>1. ticker \in [due: 1..Interval, tick: BOOLEAN] /\ waited \in 0..TouchLimit
    BY <1>1, KeepaliveAssumption DEF Init
  <2>. QED BY <1>1, <2>1, AgesType DEF Init, TypeOK
<1>2. Init => LoopInv
  BY DEF Init, LoopInv, OneLoop
<1>. QED BY <1>1, <1>2

(* Every action of Keepalive preserves the invariant about its loop.       *)
LEMMA NextLoop ==
  ASSUME TypeOK, LoopInv, [Next]_vars
  PROVE  TypeOK' /\ LoopInv'
<1>. USE KeepaliveAssumption, AgesType DEF TypeOK, LoopInv, OneLoop
<1>1. ASSUME NEW p \in Caller, Connect(p) PROVE TypeOK' /\ LoopInv'
  BY <1>1 DEF Connect
<1>2. ASSUME NEW p \in Caller, StartLoop(p) PROVE TypeOK' /\ LoopInv'
  <2>1. CASE started
    BY <1>2, <2>1 DEF StartLoop, CompareAndSwap
  <2>2. CASE ~started
    BY <1>2, <2>2 DEF StartLoop, CompareAndSwap
  <2>. QED BY <2>1, <2>2
<1>3. ASSUME NEW l \in Caller, NewTicker(l) PROVE TypeOK' /\ LoopInv'
  BY <1>3 DEF NewTicker
<1>4. ASSUME NEW l \in Caller, Stops(l) PROVE TypeOK' /\ LoopInv'
  BY <1>4 DEF Stops
<1>5. ASSUME NEW l \in Caller, Skips(l) PROVE TypeOK' /\ LoopInv'
  <2>1. ticker' \in [due: 1..Interval, tick: BOOLEAN]
    BY <1>5 DEF Skips, TakesTick
  <2>2. once # "over"
    BY <1>5 DEF Skips, TakesTick
  <2>. QED BY <1>5, <2>1, <2>2 DEF Skips, TakesTick
<1>6. ASSUME NEW l \in Caller, Touches(l) PROVE TypeOK' /\ LoopInv'
  <2>1. ticker' \in [due: 1..Interval, tick: BOOLEAN]
    BY <1>6 DEF Touches, TakesTick
  <2>2. once # "over" /\ ~done
    BY <1>6 DEF Touches, TakesTick
  <2>. QED BY <1>6, <2>1, <2>2 DEF Touches, TakesTick
<1>7. ASSUME NEW l \in Caller, TouchEnds(l)
      PROVE  TypeOK' /\ LoopInv'
  BY <1>7 DEF TouchEnds
<1>8. ASSUME NEW c \in Closer, Close(c) PROVE TypeOK' /\ LoopInv'
  BY <1>8 DEF Close
<1>9. ASSUME NEW c \in Closer, AsksForLoop(c) PROVE TypeOK' /\ LoopInv'
  BY <1>9 DEF AsksForLoop, MustWait
<1>10. ASSUME NEW c \in Closer, LoopIsDone(c) PROVE TypeOK' /\ LoopInv'
  BY <1>10 DEF LoopIsDone
<1>11. ASSUME NEW c \in Closer, OnceIsOver(c) PROVE TypeOK' /\ LoopInv'
  BY <1>11 DEF OnceIsOver
<1>12. CASE Elapse
  <2>1. TypeOK'
    BY <1>12 DEF Elapse, TimedOut
  <2>2. ASSUME once = "over", NEW l \in Caller, loop[l] = "select"
        PROVE  ~ticker'.tick /\ ticker'.due + waited' = Interval
    <3>1. Running /\ HasCase /\ waited < Late
      BY <1>12, <2>2 DEF Elapse, Running, HasCase
    <3>2. ticker.due > 1
      BY <2>2, <3>1
    <3>. QED BY <1>12, <2>2, <3>1, <3>2 DEF Elapse
  <2>. QED BY <1>12, <2>1, <2>2 DEF Elapse
<1>13. CASE UNCHANGED vars
  BY <1>13 DEF vars
<1>. QED BY <1>1, <1>2, <1>3, <1>4, <1>5, <1>6, <1>7, <1>8, <1>9, <1>10,
            <1>11, <1>12, <1>13
     DEF Next, Loop, Closing

(* started stands for the one loop there is, and done for its end          *)
(* (keepalive.go:105-165).                                                 *)
THEOREM LoopInvariance == Spec => [](TypeOK /\ LoopInv)
  BY InitLoop, NextLoop, PTL DEF Spec

(* However many goroutines connect at once, one loop runs at most.          *)
THEOREM SingleLoop == Spec => []OneLoop
  BY LoopInvariance, PTL DEF LoopInv

(* After the first Close nothing touches the database, also if the loop was *)
(* started behind its back.                                                 *)
THEOREM QuietAfterClose == Spec => []ClosedIsQuiet
<1>1. LoopInv => ClosedIsQuiet
  BY DEF LoopInv, ClosedIsQuiet, Touching
<1>. QED BY <1>1, LoopInvariance, PTL

-----------------------------------------------------------------------------
(* How idle the connector may be, by where the loop stands: a tick that is  *)
(* skipped leaves less than an interval behind it and at most one ahead; a  *)
(* tick that waits does so for the latency of the loop at most; a touch     *)
(* stamps its beginning.  No time passes before the loop has its ticker.    *)
IdleInv ==
  /\ \A p \in Caller : pc[p] = "connect" \/ loop[p] = "new" => idle = 0
  /\ Running /\ ~stop =>
       /\ ~ticker.tick => idle + ticker.due < 2 * Interval
       /\ Touching => idle <= waited
       /\ ~Touching /\ ticker.tick =>
            idle < Longest + waited /\ waited <= Late

(* Every action keeps the ages within these bounds.                         *)
LEMMA NextIdle ==
  ASSUME TypeOK, LoopInv, IdleInv, [Next]_vars
  PROVE  IdleInv'
<1>1. /\ idle \in Nat /\ waited \in Nat /\ ticker.due \in Nat \ {0}
      /\ waited <= TouchLimit /\ ticker.due <= Interval
      /\ Interval \in Nat \ {0} /\ Late \in Nat /\ TouchLimit \in Nat
      /\ Longest \in Nat /\ 2 * Interval <= Longest /\ TouchLimit < Longest
  BY KeepaliveAssumption DEF TypeOK, Never, Cap, Longest
<1>2. OneLoop
  BY DEF LoopInv
<1>. USE <1>1 DEF IdleInv
<1>. USE DEF Running, Touching
<1>3. ASSUME NEW p \in Caller, Connect(p) PROVE IdleInv'
  BY <1>3 DEF Connect, TypeOK
<1>4. ASSUME NEW p \in Caller, StartLoop(p) PROVE IdleInv'
  <2>1. CASE CompareAndSwap
    <3>1. \A l \in Caller : loop[l] = "none"
      BY <2>1 DEF CompareAndSwap, LoopInv
    <3>2. \A l \in Caller : loop'[l] \in {"none", "new"}
      BY <1>4, <2>1, <3>1 DEF StartLoop, TypeOK
    <3>. QED BY <1>4, <3>2 DEF StartLoop, TypeOK
  <2>2. CASE ~CompareAndSwap
    BY <1>4, <2>2 DEF StartLoop, TypeOK
  <2>. QED BY <2>1, <2>2
<1>5. ASSUME NEW l \in Caller, NewTicker(l) PROVE IdleInv'
  BY <1>2, <1>5 DEF NewTicker, TypeOK, OneLoop
<1>6. ASSUME NEW l \in Caller, Stops(l) PROVE IdleInv'
  BY <1>6 DEF Stops, TypeOK
<1>7. ASSUME NEW l \in Caller, Skips(l) PROVE IdleInv'
  <2>1. ~Touching
    BY <1>2, <1>7 DEF Skips, TakesTick, OneLoop
  <2>2. ~stop => idle < Interval
    BY <1>7, <2>1, KeepaliveAssumption DEF Skips, TakesTick, Warm, IdleFor, Never, Cap
  <2>3. ticker'.tick = FALSE /\ ticker'.due = ticker.due
    BY <1>7 DEF Skips, TakesTick, TypeOK
  <2>. QED BY <1>7, <2>1, <2>2, <2>3 DEF Skips, TakesTick
<1>8. ASSUME NEW l \in Caller, Touches(l) PROVE IdleInv'
  <2>1. ticker'.tick = FALSE /\ ticker'.due = ticker.due
    BY <1>8 DEF Touches, TakesTick, TypeOK
  <2>. QED BY <1>8, <2>1 DEF Touches, TakesTick, TypeOK
<1>9. ASSUME NEW l \in Caller, TouchEnds(l) PROVE IdleInv'
  <2>1. Touching /\ ~Touching'
    BY <1>2, <1>9 DEF TouchEnds, OneLoop, TypeOK
  <2>2. Running'
    BY <1>9 DEF TouchEnds, TypeOK
  <2>3. \A p \in Caller : loop'[p] = "new" => loop[p] = "new"
    BY <1>9 DEF TouchEnds, TypeOK
  <2>. QED BY <1>9, <2>1, <2>2, <2>3 DEF TouchEnds
<1>10. ASSUME NEW c \in Closer, Close(c) PROVE IdleInv'
  BY <1>10, KeepaliveAssumption DEF Close, TypeOK
<1>11. ASSUME NEW c \in Closer, Closing(c) PROVE IdleInv'
  BY <1>11, KeepaliveAssumption
  DEF Closing, AsksForLoop, LoopIsDone, OnceIsOver, TypeOK
<1>12. CASE Elapse
  <2>1. idle' <= idle + 1 /\ idle' \in Nat
    BY <1>12 DEF Elapse, Older
  <2>2. \A p \in Caller : pc[p] # "connect" /\ loop[p] # "new"
    BY <1>12 DEF Elapse, CanGoOn
  <2>3. Running' = Running /\ Touching' = Touching /\ stop' = stop
    BY <1>12 DEF Elapse
  <2>4. ASSUME Running, ~stop, Touching
        PROVE  /\ waited' = waited + 1
               /\ ~ticker'.tick => ~ticker.tick /\ ticker'.due + 1 = ticker.due
    BY <1>12, <2>4 DEF Elapse, TypeOK
  <2>5. ASSUME Running, ~stop, ~Touching
        PROVE  /\ ~ticker'.tick => ~ticker.tick /\ ticker'.due + 1 = ticker.due
               /\ ticker.tick => waited < Late /\ waited' = waited + 1
               /\ ~ticker.tick => waited' = 0
    BY <1>12, <2>5 DEF Elapse, HasCase, TypeOK
  <2>6. stop' = stop /\ pc' = pc /\ loop' = loop /\ Interval \in Nat
    BY <1>12 DEF Elapse
  <2>7. \A p \in Caller : ~(pc'[p] = "connect" \/ loop'[p] = "new")
    BY <2>2, <2>6
  <2>8. ASSUME Running, ~stop
        PROVE  /\ ~ticker'.tick => idle' + ticker'.due < 2 * Interval
               /\ Touching => idle' <= waited'
               /\ ~Touching /\ ticker'.tick =>
                    idle' < Longest + waited' /\ waited' <= Late
    <3>0. ticker'.due \in Nat /\ waited' \in Nat
      BY <1>12, <2>8 DEF Elapse, TypeOK
    <3>. HIDE DEF Running, Touching
    <3>1. CASE Touching
      BY <2>1, <2>4, <2>8, <3>0, <3>1
    <3>2. CASE ~Touching
      <4>1. CASE ticker.tick
        BY <2>1, <2>5, <2>8, <3>0, <3>2, <4>1
      <4>2. CASE ~ticker.tick
        <5>1. waited' = 0 /\ idle + ticker.due < 2 * Interval
          BY <2>5, <2>8, <3>2, <4>2
        <5>2. CASE ticker'.tick
          BY <2>1, <3>0, <3>2, <5>1, <5>2, KeepaliveAssumption
        <5>3. CASE ~ticker'.tick
          BY <2>1, <2>5, <2>8, <3>0, <3>2, <5>1, <5>3
        <5>. QED BY <5>2, <5>3
      <4>. QED BY <4>1, <4>2
    <3>. QED BY <3>1, <3>2
  <2>. QED BY <2>3, <2>7, <2>8
<1>13. CASE UNCHANGED vars
  BY <1>13 DEF vars
<1>. QED BY <1>3, <1>4, <1>5, <1>6, <1>7, <1>8, <1>9, <1>10, <1>11, <1>12,
            <1>13 DEF Next, Loop

(* Whatever the interval, the latency of the loop and the limit of a touch, *)
(* the connector is used, or a touch attempted, before the longest of them  *)
(* has passed, for as long as nobody closes it.                             *)
THEOREM KeptWarm == Spec => []IdleIsBounded
<1>1. Init => IdleInv
  BY DEF Init, IdleInv, Running
<1>2. TypeOK /\ IdleInv => IdleIsBounded
  <2>. SUFFICES ASSUME TypeOK, IdleInv, Running, ~stop
                PROVE  IdleFor < Longest + Late
    BY DEF IdleIsBounded
  <2>1. /\ Longest \in Nat /\ Late \in Nat /\ Interval \in Nat \ {0}
        /\ 2 * Interval <= Longest /\ TouchLimit < Longest /\ TouchLimit \in Nat
    BY KeepaliveAssumption DEF Longest
  <2>2. /\ idle \in Nat /\ waited \in Nat /\ waited <= TouchLimit
        /\ ticker.due \in Nat \ {0}
    BY <2>1 DEF TypeOK, Never, Cap
  <2>3. idle < Longest + Late
    <3>1. CASE Touching
      BY <2>1, <2>2, <3>1 DEF IdleInv
    <3>2. CASE ~Touching
      BY <2>1, <2>2, <3>2 DEF IdleInv
    <3>. QED BY <3>1, <3>2
  <2>4. 0 < Longest + Late
    BY <2>1
  <2>. QED BY <2>3, <2>4, SMT DEF IdleFor
<1>. QED BY <1>1, <1>2, LoopInvariance, NextIdle, PTL DEF Spec

-----------------------------------------------------------------------------
(* Why two ticks are never skipped after a touch that failed: the first one *)
(* leaves a whole interval before the second, less what has passed since    *)
(* the touch, and so the second finds the interval over.                    *)
RetryInv ==
  /\ last # "none" => idle <= Cap
  /\ last \in {"touch", "failed"} /\ ticker.tick => idle + ticker.due >= Interval
  /\ last = "skipped" =>
       idle + (IF ticker.tick THEN 0 ELSE ticker.due) >= Interval

(* Every action keeps the next tick, or the one after it, an interval away  *)
(* from the touch.                                                          *)
LEMMA NextRetry ==
  ASSUME TypeOK, RetryInv, [Next]_vars
  PROVE  RetryInv' /\ \A l \in Caller : Skips(l) => last # "skipped"
<1>1. /\ idle \in Nat /\ ticker.due \in 1..Interval /\ ticker.tick \in BOOLEAN
      /\ Interval \in Nat \ {0} /\ Late \in Nat /\ TouchLimit \in Nat
      /\ Cap \in Nat /\ Interval <= Cap /\ Never = Cap + 1
  BY KeepaliveAssumption DEF TypeOK, Never, Cap, Longest
<1>. USE <1>1 DEF RetryInv
<1>2. ASSUME NEW l \in Caller, TakesTick(l)
      PROVE  ticker.tick /\ ~ticker'.tick /\ ticker'.due = ticker.due
  BY <1>2 DEF TakesTick, TypeOK
<1>3. ASSUME NEW l \in Caller, Skips(l) PROVE RetryInv' /\ last # "skipped"
  <2>1. ticker.tick /\ Warm /\ idle' = idle
    BY <1>2, <1>3 DEF Skips
  <2>2. last # "skipped"
    BY <2>1 DEF Warm, IdleFor
  <2>. QED BY <1>2, <1>3, <2>1, <2>2 DEF Skips
<1>4. ASSUME NEW p \in Caller, Connect(p) PROVE RetryInv'
  BY <1>4 DEF Connect
<1>5. ASSUME NEW p \in Caller, StartLoop(p) PROVE RetryInv'
  BY <1>5 DEF StartLoop
<1>6. ASSUME NEW l \in Caller, NewTicker(l) PROVE RetryInv'
  BY <1>6 DEF NewTicker
<1>7. ASSUME NEW l \in Caller, Stops(l) PROVE RetryInv'
  BY <1>7 DEF Stops
<1>8. ASSUME NEW l \in Caller, Touches(l) PROVE RetryInv'
  BY <1>2, <1>8 DEF Touches
<1>9. ASSUME NEW l \in Caller, TouchEnds(l) PROVE RetryInv'
  BY <1>9 DEF TouchEnds
<1>10. ASSUME NEW c \in Closer, Close(c) \/ Closing(c) PROVE RetryInv'
  BY <1>10 DEF Close, Closing, AsksForLoop, LoopIsDone, OnceIsOver
<1>11. ASSUME Elapse PROVE RetryInv'
  <2>1. /\ last' = last
        /\ idle' = IF idle < Cap THEN idle + 1 ELSE idle
    BY <1>11 DEF Elapse, Older
  <2>2. CASE ticker' = ticker
    BY <2>1, <2>2
  <2>3. CASE ticker.due > 1 /\ ticker' = [ticker EXCEPT !.due = @ - 1]
    <3>1. ticker'.due = ticker.due - 1 /\ ticker'.tick = ticker.tick
      BY <2>3 DEF TypeOK
    <3>. QED BY <2>1, <2>3, <3>1
  <2>4. CASE ticker.due = 1 /\ ticker' = [due |-> Interval, tick |-> TRUE]
    <3>1. ticker'.due = Interval /\ ticker'.tick
      BY <2>4
    <3>. QED BY <2>1, <2>4, <3>1
  <2>. QED BY <1>11, <2>2, <2>3, <2>4 DEF Elapse
<1>12. ASSUME UNCHANGED vars PROVE RetryInv'
  BY <1>12 DEF vars
<1>13. RetryInv'
  BY <1>3, <1>4, <1>5, <1>6, <1>7, <1>8, <1>9, <1>10, <1>11, <1>12
     DEF Next, Loop
<1>. QED BY <1>3, <1>13

(* A touch that failed is tried again by one of the next two ticks, however *)
(* late the loop takes them and however long the touch took to fail, unless *)
(* the program has used the connector itself.                               *)
THEOREM TriesAgain == Spec => OneOfTwoTicksTriesAgain
<1>1. Init => RetryInv
  BY DEF Init, RetryInv
<1>2. TypeOK /\ RetryInv /\ [Next]_vars
        => [\A l \in Caller : Skips(l) => last # "skipped"]_vars
  BY NextRetry
<1>. QED BY <1>1, <1>2, LoopInvariance, NextRetry, PTL DEF Spec, OneOfTwoTicksTriesAgain
=============================================================================
