------------------------------- MODULE IdPool -------------------------------
(***************************************************************************)
(* idPool (libsql/internal/ws/websockets.go): the request ids of a          *)
(* websocket connection.  exec takes one before it writes its request and   *)
(* puts it back when it returns, whatever the way it returns (a deferred    *)
(* Put); Get and Put hold the pool's mutex throughout.  The pool is made    *)
(* for any number of calls under way; database/sql, the only user of these  *)
(* connections, has one at a time.                                          *)
(***************************************************************************)
EXTENDS Naturals, FiniteSets

CONSTANTS
  User,    \* calls of exec
  NoId,    \* the call has no id
  IdLimit  \* 2^32: ids are uint32

ASSUME IdPoolAssumption ==
  /\ IsFiniteSet(User)
  /\ IdLimit \in Nat
  /\ Cardinality(User) < IdLimit
  /\ NoId \notin Nat

VARIABLES
  used,     \* ids that were put back
  maxUsed,  \* the largest id given out
  held,     \* the id each call has
  peak      \* ghost: the largest number of calls under way at a time

idVars == <<used, maxUsed, held, peak>>

Id == 1..(IdLimit - 1)

TypeOK ==
  /\ used \in SUBSET Id
  /\ maxUsed \in Id \cup {0}
  /\ held \in [User -> Id \cup {NoId}]
  /\ peak \in Nat

IdInit ==
  /\ used = {}
  /\ maxUsed = 0
  /\ held = [u \in User |-> NoId]
  /\ peak = 0

Promise == INSTANCE UniqueIds WITH held <- held, peak <- peak
Holders == Promise!Holders

(* A call of exec begins and is given id. *)
Takes(u, id) ==
  /\ held[u] = NoId
  /\ held' = [held EXCEPT ![u] = id]
  /\ peak' = Promise!AtLeast(peak, Cardinality(Holders) + 1)

RecycledKept(id) == used       \* mutant: an id is not removed when reused
Recycled(id) == used \ {id}

(* Get, with an id to reuse: the range over the map takes any of them.      *)
GetRecycled(u) ==
  \E id \in used :
    /\ Takes(u, id)
    /\ used' = Recycled(id)
    /\ UNCHANGED maxUsed

NoneRecycled == used = {}
FreshId == (maxUsed + 1) % IdLimit

GetFresh(u) ==
  /\ NoneRecycled
  /\ Takes(u, FreshId)
  /\ maxUsed' = (maxUsed + 1) % IdLimit
  /\ UNCHANGED used

(* Put panics for an id out of range, or already put back. *)
Panics(id) == id < 1 \/ id > maxUsed \/ id \in used

Shrinks(id) == id = maxUsed

Put(u) ==
  /\ held[u] # NoId /\ ~Panics(held[u])
  /\ IF Shrinks(held[u])
     THEN maxUsed' = held[u] - 1 /\ UNCHANGED used
     ELSE used' = used \cup {held[u]} /\ UNCHANGED maxUsed
  /\ held' = [held EXCEPT ![u] = NoId]
  /\ UNCHANGED peak

IdNext == \E u \in User : GetRecycled(u) \/ GetFresh(u) \/ Put(u)

IdSpec == IdInit /\ [][IdNext]_idVars

-----------------------------------------------------------------------------
(* websockets.go:261-262: no two calls under way have the same id.          *)
NoDuplicates ==
  \A u, v \in Holders : held[u] = held[v] => u = v

(* websockets.go:299-301: no id that was given out makes Put panic, in      *)
(* whatever order the calls end and the pool grows and shrinks.             *)
PutNeverPanics == \A u \in Holders : ~Panics(held[u])

(* websockets.go:262-263: no id is larger than the peak number of calls.    *)
NeverAbovePeak == maxUsed <= peak

(* The pool implements its promise. *)
KeepsPromise == Promise!Spec
=============================================================================
