--------------------------- MODULE ConnPoolProofs ---------------------------
(***************************************************************************)
(* Theorems about ConnPool, for any number of goroutines and connections,   *)
(* and whoever executes long texts.                                         *)
(***************************************************************************)
EXTENDS ConnPool, TLAPS

PoolType ==
  /\ closed \in SUBSET Conn /\ free \in SUBSET Conn
  /\ pc \in [Goroutine -> {"idle", "conn", "wait", "exec", "put", "close"}]
  /\ has \in [Goroutine -> Conn \cup {NoConn}]
  /\ attempt \in [Goroutine -> 1..Attempts]
  /\ pinned \in [Goroutine -> BOOLEAN]
  /\ part \in [Goroutine -> {"all", "begin", "chunk", "commit"}]
  /\ outcome \in [Goroutine -> {"none", "ok", "error", "ErrBadConn"}]
  /\ executed \in [Goroutine -> SUBSET (1..Attempts)]
  /\ torn \in [Goroutine -> SUBSET (1..Attempts)]

(* A connection is with one goroutine or free, and a free one is usable.    *)
Ownership ==
  /\ \A g \in Goroutine :
       has[g] # NoConn <=> pc[g] \in {"exec", "put", "close"}
  /\ \A g, h \in Goroutine : has[g] = has[h] /\ has[g] # NoConn => g = h
  /\ \A g \in Goroutine : has[g] \notin free
  /\ free \cap closed = {}

(* So the driver refuses the first request of nothing but a further text,   *)
(* and a later one only where the transaction of the chunks has been lost.  *)
Usability ==
  \A g \in Goroutine : ~pinned[g] =>
    /\ pc[g] = "exec" /\ has[g] \in closed
         => part[g] \in {"chunk", "commit"} /\ attempt[g] \in torn[g]
    /\ pc[g] \in {"put", "close"} /\ outcome[g] = "ErrBadConn"
         => part[g] # "all" /\ attempt[g] \in torn[g]
    /\ pc[g] = "idle" /\ outcome[g] = "ErrBadConn" => torn[g] = 1..Attempts

(* Every attempt but the current one has lost the transaction of its        *)
(* chunks, and a text on a kept connection is not tried again.              *)
AttemptsTorn ==
  \A g \in Goroutine :
    /\ executed[g] \subseteq 1..attempt[g]
    /\ pinned[g] => executed[g] \subseteq {attempt[g]}
    /\ ~pinned[g] => \A a \in 1..Attempts :
         a < attempt[g] => a \in torn[g] /\ part[g] # "all"

PoolInv == PoolType /\ Ownership /\ Usability /\ AttemptsTorn

LEMMA InitPool == Init => PoolInv
  BY PoolAssumption
  DEF Init, PoolInv, PoolType, Ownership, Usability, AttemptsTorn, Attempts

(* A connection that has just been opened is nobody else's.                 *)
LEMMA OpenedIsUnused ==
  ASSUME PoolInv, NEW c \in Unused
  PROVE  c \in Conn /\ c # NoConn /\ c \notin free /\ \A g \in Goroutine : has[g] # c
  BY PoolAssumption DEF PoolInv, PoolType, Unused, Held

(* A goroutine receives a connection that is open and nobody else's, and    *)
(* which is no longer free.                                                 *)
LEMMA ReceivesKeeps ==
  ASSUME PoolInv, NEW g \in Goroutine, NEW c \in Conn, pc[g] \in {"conn", "wait"},
         Receives(g, c), \A h \in Goroutine : has[h] # c,
         free' \in SUBSET (free \ {c}), closed' \in SUBSET closed, c \notin closed',
         UNCHANGED <<attempt, pinned, part, outcome, ghosts>>
  PROVE  PoolInv'
<1>. USE PoolAssumption DEF PoolInv, ghosts
<1>1. PoolType'
  BY DEF PoolType, Receives
<1>2. /\ has' = [has EXCEPT ![g] = c] /\ pc' = [pc EXCEPT ![g] = "exec"]
      /\ c # NoConn
  BY DEF Receives
<1>3. Ownership'
  BY <1>2 DEF PoolType, Ownership
<1>4. Usability'
  BY <1>2 DEF PoolType, Usability
<1>5. AttemptsTorn'
  BY <1>2 DEF AttemptsTorn
<1>. QED BY <1>1, <1>3, <1>4, <1>5

(* The end of a text, whatever comes of it.                                 *)
LEMMA EndsKeeps ==
  ASSUME PoolInv, NEW g \in Goroutine, Sends(g), NEW result \in {"ok", "error"},
         Ends(g, result), closed' \in {closed, closed \cup {has[g]}},
         TakesEffect(g) \/ UNCHANGED executed
  PROVE  PoolInv'
<1>. USE PoolAssumption DEF PoolInv, Sends, pool
<1>1. has[g] \in Conn
  BY DEF PoolType, Ownership
<1>2. executed' = [executed EXCEPT ![g] = @ \cup {attempt[g]}] \/ executed' = executed
  BY DEF TakesEffect
<1>3. /\ outcome' = [outcome EXCEPT ![g] = result]
      /\ pc' = [pc EXCEPT ![g] = "put"]
      /\ UNCHANGED <<free, has, attempt, pinned, part, torn>>
  BY DEF Ends
<1>4. PoolType'
  BY <1>1, <1>2, <1>3 DEF PoolType
<1>5. Ownership'
  BY <1>3 DEF PoolType, Ownership
<1>6. Usability'
  BY <1>3 DEF PoolType, Ownership, Usability
<1>7. AttemptsTorn'
  BY <1>2, <1>3 DEF PoolType, AttemptsTorn, Attempts
<1>. QED BY <1>4, <1>5, <1>6, <1>7

(* BEGIN and the chunks leave the goroutine with its connection; a chunk    *)
(* that leaves the stream closed has lost its transaction.                  *)
LEMMA ChunkKeeps ==
  ASSUME PoolInv, NEW g \in Goroutine, Begun(g) \/ ChunkAnswered(g)
  PROVE  PoolInv'
<1>. USE PoolAssumption DEF PoolInv, Sends, pool, ghosts
<1>1. /\ pc[g] = "exec" /\ has[g] \notin closed
      /\ UNCHANGED <<free, pc, has, attempt, pinned, outcome>>
      /\ \E then \in {"chunk", "commit"} : part' = [part EXCEPT ![g] = then]
  BY DEF Begun, ChunkAnswered
<1>2. \/ UNCHANGED <<closed, executed, torn>>
      \/ /\ torn' = [torn EXCEPT ![g] = @ \cup {attempt[g]}]
         /\ executed' = [executed EXCEPT ![g] = @ \cup {attempt[g]}]
              \/ executed' = executed
         /\ closed' \in {closed, closed \cup {has[g]}}
  BY DEF Begun, ChunkAnswered, MayTakeEffect, TakesEffect
<1>3. has[g] \in Conn
  BY <1>1 DEF PoolType, Ownership
<1>4. PoolType'
  BY <1>1, <1>2, <1>3 DEF PoolType
<1>5. Ownership'
  BY <1>1, <1>2 DEF PoolType, Ownership
<1>6. Usability'
  BY <1>1, <1>2 DEF PoolType, Ownership, Usability
<1>7. AttemptsTorn'
  BY <1>1, <1>2 DEF PoolType, AttemptsTorn, Attempts
<1>. QED BY <1>4, <1>5, <1>6, <1>7

(* A connection leaves its goroutine.  Only one that is no good can leave   *)
(* it with something to try again.                                          *)
LEMMA NoRetry ==
  ASSUME PoolInv, NEW g \in Goroutine, ~NoGood(g)
  PROVE  /\ ~Retries(g) /\ ThenAt(g) = "idle" /\ outcome[g] # "ErrBadConn"
         /\ GoesOn(g) => UNCHANGED <<attempt, part>>
  BY DEF NoGood, Retries, ThenAt, GoesOn

LEMMA CloseKeeps ==
  ASSUME PoolInv, NEW g \in Goroutine, CloseConn(g)
  PROVE  PoolInv'
<1>. USE PoolAssumption DEF PoolInv, ghosts
<1>1. /\ pc[g] = "close" /\ has' = [has EXCEPT ![g] = NoConn]
      /\ pc' = [pc EXCEPT ![g] = ThenAt(g)]
      /\ closed' = closed \ {has[g]}
      /\ UNCHANGED <<free, pinned, outcome, executed, torn>>
  BY DEF CloseConn, GoesOn
<1>2. CASE Retries(g)
  <2>1. /\ outcome[g] = "ErrBadConn" /\ attempt[g] < Attempts /\ ~pinned[g]
        /\ attempt' = [attempt EXCEPT ![g] = @ + 1] /\ ThenAt(g) = "conn"
    BY <1>2 DEF CloseConn, GoesOn, Retries, ThenAt
  <2>2. part[g] # "all" /\ attempt[g] \in torn[g]
    BY <1>1, <2>1 DEF Usability
  <2>3. part' = [part EXCEPT ![g] = "begin"]
    BY <1>2, <2>2 DEF CloseConn, GoesOn
  <2>4. PoolType'
    BY <1>1, <2>1, <2>3 DEF PoolType, Attempts
  <2>5. Ownership' /\ Usability'
    BY <1>1, <2>1, <2>3 DEF PoolType, Ownership, Usability
  <2>6. AttemptsTorn'
    BY <1>1, <2>1, <2>2, <2>3 DEF PoolType, AttemptsTorn, Attempts
  <2>. QED BY <2>4, <2>5, <2>6
<1>3. CASE ~Retries(g)
  <2>1. UNCHANGED <<attempt, part>> /\ ThenAt(g) = "idle"
    BY <1>3 DEF CloseConn, GoesOn, ThenAt
  <2>2. ASSUME outcome[g] = "ErrBadConn", ~pinned[g] PROVE torn[g] = 1..Attempts
    <3>1. attempt[g] = Attempts /\ attempt[g] \in torn[g]
      BY <1>1, <1>3, <2>2 DEF Retries, PoolType, Usability, Attempts
    <3>. QED BY <2>2, <3>1 DEF AttemptsTorn, PoolType, Attempts
  <2>3. PoolType' /\ Ownership' /\ AttemptsTorn'
    BY <1>1, <2>1 DEF PoolType, Ownership, AttemptsTorn
  <2>4. Usability'
    BY <1>1, <2>1, <2>2 DEF PoolType, Ownership, Usability
  <2>. QED BY <2>3, <2>4
<1>. QED BY <1>2, <1>3

LEMMA NextPool == PoolInv /\ [Next]_vars => PoolInv'
<1>. SUFFICES ASSUME PoolInv, [Next]_vars PROVE PoolInv'
  OBVIOUS
<1>. USE PoolAssumption DEF PoolInv, pool, ghosts
<1>1. CASE OpenerDelivers
  <2>1. PICK c \in Unused :
          /\ NewConn(c)
          /\ \/ /\ \E g \in Waiting : Receives(g, c)
                /\ UNCHANGED free
             \/ /\ UNCHANGED <<has, pc>>
                /\ free' \in {free, free \cup {c}}
    BY <1>1 DEF OpenerDelivers
  <2>2. /\ c \in Conn /\ c # NoConn /\ c \notin free
        /\ \A g \in Goroutine : has[g] # c
    BY OpenedIsUnused
  <2>3. /\ closed' = closed \ {c}
        /\ UNCHANGED <<attempt, pinned, part, outcome, ghosts>>
    BY <1>1, <2>1 DEF NewConn, OpenerDelivers
  <2>4. CASE (\E g \in Waiting : Receives(g, c)) /\ UNCHANGED free
    <3>1. PICK g \in Waiting : Receives(g, c)
      BY <2>4
    <3>2. g \in Goroutine /\ pc[g] = "wait"
      BY <3>1 DEF Waiting
    <3>. QED BY <2>2, <2>3, <2>4, <3>1, <3>2, ReceivesKeeps
  <2>5. CASE UNCHANGED <<has, pc>> /\ free' \in {free, free \cup {c}}
    BY <2>2, <2>3, <2>5 DEF PoolType, Ownership, Usability, AttemptsTorn
  <2>. QED BY <2>1, <2>4, <2>5
<1>2. ASSUME NEW g \in Goroutine, Exec(g) PROVE PoolInv'
  <2>1. PICK first \in {"all", "begin"} : part' = [part EXCEPT ![g] = first]
    BY <1>2 DEF Exec, Text
  <2>. QED BY <1>2, <2>1
       DEF Exec, Text, PoolType, Ownership, Usability, AttemptsTorn, Attempts
<1>3. ASSUME NEW g \in Goroutine, TakesFree(g) PROVE PoolInv'
  <2>1. PICK c \in free : Receives(g, c) /\ free' = free \ {c}
    BY <1>3 DEF TakesFree
  <2>2. c \in Conn /\ c \notin closed /\ \A h \in Goroutine : has[h] # c
    BY DEF PoolType, Ownership
  <2>. QED BY <1>3, <2>1, <2>2, ReceivesKeeps DEF TakesFree
<1>4. ASSUME NEW g \in Goroutine, Opens(g) PROVE PoolInv'
  <2>1. PICK c \in Unused : Receives(g, c) /\ NewConn(c)
    BY <1>4 DEF Opens
  <2>2. c \in Conn /\ c \notin free /\ \A h \in Goroutine : has[h] # c
    BY OpenedIsUnused
  <2>. QED BY <1>4, <2>1, <2>2, ReceivesKeeps DEF Opens, NewConn
<1>5. ASSUME NEW g \in Goroutine, Waits(g) PROVE PoolInv'
  BY <1>5 DEF Waits, PoolType, Ownership, Usability, AttemptsTorn
<1>6. ASSUME NEW g \in Goroutine, Refuses(g) PROVE PoolInv'
  BY <1>6 DEF Refuses, PoolType, Ownership, Usability, AttemptsTorn
<1>7. ASSUME NEW g \in Goroutine, Answered(g) \/ Failed(g) \/ Lost(g) PROVE PoolInv'
  <2>1. /\ Sends(g) /\ \E result \in {"ok", "error"} : Ends(g, result)
        /\ closed' \in {closed, closed \cup {has[g]}}
        /\ TakesEffect(g) \/ UNCHANGED executed
    BY <1>7 DEF Answered, Failed, Lost, LostAnswer, MayTakeEffect
  <2>. QED BY <2>1, EndsKeeps
<1>8. ASSUME NEW g \in Goroutine, Begun(g) \/ ChunkAnswered(g) PROVE PoolInv'
  BY <1>8, ChunkKeeps
<1>9. ASSUME NEW g \in Goroutine, NEW w \in Goroutine, HandsOver(g, w) PROVE PoolInv'
  <2>1. /\ pc[g] = "put" /\ pc[w] = "wait" /\ has[g] \notin closed /\ g # w
        /\ outcome[g] # "ErrBadConn"
        /\ has' = [has EXCEPT ![g] = NoConn, ![w] = has[g]]
        /\ pc' = [pc EXCEPT ![g] = "idle", ![w] = "exec"]
        /\ UNCHANGED <<closed, free, attempt, pinned, part, outcome, executed, torn>>
    BY <1>9, NoRetry DEF HandsOver, NoGood, IsValid, Waiting, GoesOn
  <2>2. has[g] \in Conn
    BY <2>1 DEF PoolType, Ownership
  <2>3. PoolType'
    BY <2>1, <2>2 DEF PoolType
  <2>4. Ownership'
    BY <2>1, <2>2 DEF PoolType, Ownership
  <2>5. Usability' /\ AttemptsTorn'
    BY <2>1 DEF PoolType, Usability, AttemptsTorn
  <2>. QED BY <2>3, <2>4, <2>5
<1>10. ASSUME NEW g \in Goroutine, ExecPinned(g) PROVE PoolInv'
  <2>1. PICK first \in {"all", "begin"} : part' = [part EXCEPT ![g] = first]
    BY <1>10 DEF ExecPinned, Text
  <2>. QED BY <1>10, <2>1
       DEF ExecPinned, Text, PoolType, Ownership, Usability, AttemptsTorn
<1>11. ASSUME NEW g \in Goroutine, PutsBack(g) PROVE PoolInv'
  <2>1. /\ pc[g] = "put" /\ has[g] \notin closed /\ outcome[g] # "ErrBadConn"
        /\ free' = free \cup {has[g]} /\ has' = [has EXCEPT ![g] = NoConn]
        /\ pc' = [pc EXCEPT ![g] = "idle"]
        /\ UNCHANGED <<closed, attempt, pinned, part, outcome, executed, torn>>
    BY <1>11, NoRetry DEF PutsBack, NoGood, IsValid, GoesOn
  <2>2. has[g] \in Conn
    BY <2>1 DEF PoolType, Ownership
  <2>3. PoolType' /\ Usability' /\ AttemptsTorn'
    BY <2>1, <2>2 DEF PoolType, Usability, AttemptsTorn
  <2>4. Ownership'
    BY <2>1, <2>2 DEF PoolType, Ownership
  <2>. QED BY <2>3, <2>4
<1>12. ASSUME NEW g \in Goroutine, Discards(g) PROVE PoolInv'
  <2>1. /\ pc[g] = "put" /\ pc' = [pc EXCEPT ![g] = "close"]
        /\ UNCHANGED <<closed, free, has, attempt, pinned, part, outcome, executed, torn>>
    BY <1>12 DEF Discards
  <2>. QED BY <2>1 DEF PoolType, Ownership, Usability, AttemptsTorn
<1>13. ASSUME NEW g \in Goroutine, CloseConn(g) PROVE PoolInv'
  BY <1>13, CloseKeeps
<1>14. CASE UNCHANGED vars
  BY <1>14 DEF vars, PoolType, Ownership, Usability, AttemptsTorn
<1>. QED BY <1>1, <1>2, <1>3, <1>4, <1>5, <1>6, <1>7, <1>8, <1>9, <1>10, <1>11,
            <1>12, <1>13, <1>14 DEF Next

(* The invariant of the two theorems below.                                 *)
LEMMA PoolInvariance == Spec => []PoolInv
  BY InitPool, NextPool, PTL DEF Spec

(* "bad connection" reaches nobody but who keeps a connection for a second  *)
(* statement, or whose long text has lost its transaction in every attempt. *)
THEOREM NoBadConn == Spec => []BadConnOnlyWhenPinned
<1>1. PoolInv => BadConnOnlyWhenPinned
  BY DEF PoolInv, PoolType, Usability, BadConnOnlyWhenPinned
<1>. QED BY <1>1, PoolInvariance, PTL

(* A retry repeats something of a text only if the text is in chunks and    *)
(* the attempt before has lost its transaction at one of them.              *)
THEOREM RetriesRepeatTornOnly == Spec => []RepeatedOnlyWhenTorn
<1>1. PoolInv => RepeatedOnlyWhenTorn
  <2>. SUFFICES ASSUME PoolInv, NEW g \in Goroutine,
                       NEW a \in executed[g], NEW b \in executed[g], a < b
                PROVE  a \in torn[g] /\ part[g] # "all"
    BY DEF RepeatedOnlyWhenTorn
  <2>1. a \in 1..Attempts /\ a \in Nat /\ b \in 1..attempt[g] /\ attempt[g] \in 1..Attempts
    BY DEF PoolInv, PoolType, AttemptsTorn, Attempts
  <2>2. ~pinned[g]
    BY <2>1 DEF PoolInv, PoolType, AttemptsTorn, Attempts
  <2>3. a < attempt[g]
    BY <2>1 DEF Attempts
  <2>. QED BY <2>1, <2>2, <2>3 DEF PoolInv, AttemptsTorn
<1>. QED BY <1>1, PoolInvariance, PTL
=============================================================================
