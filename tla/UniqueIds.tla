------------------------------ MODULE UniqueIds ------------------------------
(***************************************************************************)
(* What the pool of request ids promises (the comment of idPool in          *)
(* libsql/internal/ws/websockets.go): the ids in use at the same time are   *)
(* different, start at 1, and are never larger than the peak number of      *)
(* concurrent uses.                                                         *)
(***************************************************************************)
EXTENDS Naturals, FiniteSets

CONSTANTS User, NoId

VARIABLES
  held,  \* the id each user has, or NoId
  peak   \* the largest number of users that ever had one

Holders == {u \in User : held[u] # NoId}
InUse == {held[u] : u \in Holders}
AtLeast(a, b) == IF a > b THEN a ELSE b

Init ==
  /\ held = [u \in User |-> NoId]
  /\ peak = 0

Get(u) ==
  /\ held[u] = NoId
  /\ peak' = AtLeast(peak, Cardinality(Holders) + 1)
  /\ \E id \in (1..peak') \ InUse : held' = [held EXCEPT ![u] = id]

Put(u) ==
  /\ held[u] # NoId
  /\ held' = [held EXCEPT ![u] = NoId]
  /\ UNCHANGED peak

Next == \E u \in User : Get(u) \/ Put(u)

Spec == Init /\ [][Next]_<<held, peak>>
=============================================================================
