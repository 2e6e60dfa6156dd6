---------------------------- MODULE IdPoolProofs ----------------------------
(***************************************************************************)
(* Theorems about IdPool, for any finite set of users below the limit.      *)
(***************************************************************************)
EXTENDS IdPool, FiniteSetTheorems, TLAPS

(* The ids up to maxUsed are those put back and those in use, and no id is  *)
(* both, or in use twice.                                                   *)
InUse == {held[u] : u \in Holders}

PoolInv ==
  /\ TypeOK
  /\ used \cap InUse = {}
  /\ used \cup InUse = 1..maxUsed
  /\ NoDuplicates
  /\ NeverAbovePeak

(* Calls under way and ids in use are as many. *)
LEMMA AsManyIds ==
  ASSUME TypeOK, NoDuplicates
  PROVE  /\ IsFiniteSet(Holders) /\ Cardinality(Holders) \in Nat
         /\ Cardinality(InUse) = Cardinality(Holders)
         /\ \A u \in User \ Holders : Cardinality(Holders) < Cardinality(User)
<1>1. Holders \subseteq User
  BY DEF Holders, Promise!Holders
<1>2. IsFiniteSet(Holders) /\ Cardinality(Holders) \in Nat
  BY <1>1, IdPoolAssumption, FS_Subset, FS_CardinalityType
<1>3. [u \in Holders |-> held[u]] \in Bijection(Holders, InUse)
  BY DEF Bijection, Injection, Surjection, IsInjective, InUse, NoDuplicates
<1>4. Cardinality(InUse) = Cardinality(Holders)
  BY <1>2, <1>3, FS_Bijection DEF ExistsBijection
<1>5. ASSUME NEW u \in User \ Holders
      PROVE  Cardinality(Holders) < Cardinality(User)
  <2>1. Cardinality(Holders) # Cardinality(User)
    BY <1>1, <1>5, IdPoolAssumption, FS_Subset
  <2>. QED BY <1>1, <1>2, <2>1, IdPoolAssumption, FS_Subset, FS_CardinalityType
<1>. QED BY <1>2, <1>4, <1>5

(* With nothing to reuse, the next id is one more than the calls under way. *)
LEMMA FreshIdFits ==
  ASSUME PoolInv, used = {}, NEW u \in User \ Holders
  PROVE  FreshId = maxUsed + 1 /\ maxUsed = Cardinality(Holders) /\ FreshId \in Id
<1>1. InUse = 1..maxUsed /\ maxUsed \in Nat
  BY DEF PoolInv, TypeOK, Id
<1>2. Cardinality(InUse) = maxUsed
  BY <1>1, FS_Interval
<1>3. maxUsed = Cardinality(Holders) /\ maxUsed + 1 < IdLimit
  BY <1>1, <1>2, AsManyIds, IdPoolAssumption, FS_CardinalityType DEF PoolInv
<1>. QED BY <1>1, <1>3, IdPoolAssumption DEF FreshId, Id

(* The new pool has given out nothing.                                     *)
LEMMA PoolInvInit == IdInit => PoolInv
  BY DEF IdInit, PoolInv, TypeOK, Id, InUse, Holders, Promise!Holders,
         NoDuplicates, NeverAbovePeak

(* What a call that takes an id nobody has does to the ids in use. *)
LEMMA TakesAnId ==
  ASSUME TypeOK, NoDuplicates, NEW u \in User, NEW id \in Id \ InUse, Takes(u, id)
  PROVE  /\ u \in User \ Holders
         /\ Holders' = Holders \cup {u} /\ InUse' = InUse \cup {id}
         /\ held' \in [User -> Id \cup {NoId}]
         /\ NoDuplicates'
         /\ peak' \in Nat /\ peak <= peak' /\ Cardinality(Holders) + 1 <= peak'
<1>1. id # NoId
  BY IdPoolAssumption DEF Id
<1>2. u \in User \ Holders /\ Holders' = Holders \cup {u}
  BY <1>1 DEF Takes, Holders, Promise!Holders, TypeOK
<1>3. \A v \in Holders : held'[v] = held[v]
  BY <1>2 DEF Takes, Holders, Promise!Holders, TypeOK
<1>4. held'[u] = id
  BY DEF Takes, TypeOK
<1>5. InUse' = InUse \cup {id}
  BY <1>2, <1>3, <1>4 DEF InUse
<1>6. NoDuplicates'
  BY <1>2, <1>3, <1>4 DEF NoDuplicates, InUse
<1>7. /\ peak' \in Nat /\ peak <= peak' /\ Cardinality(Holders) + 1 <= peak'
  BY AsManyIds DEF Takes, TypeOK, Promise!AtLeast
<1>. QED BY <1>2, <1>5, <1>6, <1>7 DEF Takes, TypeOK

(* Get and Put preserve the partition of 1..maxUsed.                       *)
LEMMA PoolInvNext == PoolInv /\ [IdNext]_idVars => PoolInv'
<1> SUFFICES ASSUME PoolInv, [IdNext]_idVars PROVE PoolInv'
  OBVIOUS
<1>. USE DEF PoolInv
<1>1. ASSUME NEW u \in User, GetRecycled(u) PROVE PoolInv'
  <2>1. PICK id \in used : Takes(u, id) /\ used' = used \ {id} /\ maxUsed' = maxUsed
    BY <1>1 DEF GetRecycled, Recycled
  <2>2. id \in Id \ InUse
    BY <2>1 DEF TypeOK
  <2>3. /\ InUse' = InUse \cup {id} /\ NoDuplicates' /\ peak' \in Nat
        /\ peak <= peak' /\ held' \in [User -> Id \cup {NoId}]
    BY <2>1, <2>2, TakesAnId
  <2>4. maxUsed \in Nat /\ peak \in Nat
    BY DEF TypeOK, Id
  <2>5. TypeOK' /\ NeverAbovePeak'
    BY <2>1, <2>3, <2>4 DEF TypeOK, NeverAbovePeak
  <2>6. used' \cap InUse' = {} /\ used' \cup InUse' = 1..maxUsed'
    BY <2>1, <2>3
  <2>. QED BY <2>3, <2>5, <2>6
<1>2. ASSUME NEW u \in User, GetFresh(u) PROVE PoolInv'
  <2>1. used = {} /\ used' = {} /\ Takes(u, FreshId) /\ maxUsed' = FreshId
    BY <1>2 DEF GetFresh, NoneRecycled, FreshId
  <2>2. u \in User \ Holders
    BY <2>1 DEF Takes, Holders, Promise!Holders
  <2>3. /\ FreshId = maxUsed + 1 /\ maxUsed = Cardinality(Holders)
        /\ FreshId \in Id /\ maxUsed \in Nat /\ InUse = 1..maxUsed
    BY <2>1, <2>2, FreshIdFits DEF TypeOK, Id
  <2>4. FreshId \in Id \ InUse /\ 1..FreshId = InUse \cup {FreshId}
    BY <2>3
  <2>. QED BY <2>1, <2>3, <2>4, TakesAnId DEF TypeOK, NeverAbovePeak
<1>3. ASSUME NEW u \in User, Put(u) PROVE PoolInv'
  <2>1. u \in Holders /\ Holders' = Holders \ {u}
    BY <1>3 DEF Put, Holders, Promise!Holders, TypeOK
  <2>2. \A v \in Holders' : held'[v] = held[v]
    BY <1>3, <2>1 DEF Put, Holders, Promise!Holders, TypeOK
  <2>3. InUse' = InUse \ {held[u]} /\ held[u] \in InUse
    BY <2>1, <2>2 DEF InUse, NoDuplicates
  <2>4. NoDuplicates'
    BY <2>1, <2>2 DEF NoDuplicates
  <2>5. held[u] \in 1..maxUsed /\ held[u] \notin used /\ maxUsed \in Nat
    BY <2>3 DEF TypeOK, Id
  <2>6. held' \in [User -> Id \cup {NoId}] /\ peak' = peak
    BY <1>3 DEF Put, TypeOK
  <2>7. CASE held[u] = maxUsed
    <3>1. maxUsed' = maxUsed - 1 /\ used' = used
      BY <1>3, <2>7 DEF Put, Shrinks
    <3>2. 1..maxUsed' = (1..maxUsed) \ {maxUsed}
      BY <2>5, <2>7, <3>1
    <3>3. TypeOK' /\ NeverAbovePeak'
      BY <2>5, <2>6, <2>7, <3>1, IdPoolAssumption
         DEF TypeOK, Id, NeverAbovePeak
    <3>4. used' \cap InUse' = {} /\ used' \cup InUse' = 1..maxUsed'
      BY <2>3, <2>5, <2>7, <3>1, <3>2
    <3>. QED BY <2>4, <3>3, <3>4
  <2>8. CASE held[u] # maxUsed
    <3>1. maxUsed' = maxUsed /\ used' = used \cup {held[u]}
      BY <1>3, <2>8 DEF Put, Shrinks
    <3>2. held[u] \in Id
      BY <2>5, IdPoolAssumption DEF TypeOK, Id
    <3>3. TypeOK' /\ NeverAbovePeak'
      BY <2>6, <3>1, <3>2 DEF TypeOK, NeverAbovePeak
    <3>4. used' \cap InUse' = {} /\ used' \cup InUse' = 1..maxUsed'
      BY <2>3, <2>5, <3>1
    <3>. QED BY <2>4, <3>3, <3>4
  <2>. QED BY <2>7, <2>8
<1>4. CASE UNCHANGED idVars
  BY <1>4 DEF idVars, TypeOK, InUse, Holders, Promise!Holders, NoDuplicates,
              NeverAbovePeak
<1>. QED BY <1>1, <1>2, <1>3, <1>4 DEF IdNext

(* The free ids and those in use partition 1..maxUsed                      *)
(* (websockets.go:288-330).                                                *)
THEOREM PoolInvariance == IdSpec => []PoolInv
  BY PoolInvInit, PoolInvNext, PTL DEF IdSpec

(* No two calls under way ever have the same request id. *)
THEOREM DistinctIds == IdSpec => []NoDuplicates
  BY PoolInvariance, PTL DEF PoolInv

(* The panics of Put are unreachable, whatever the order of the calls. *)
THEOREM NoPanic == IdSpec => []PutNeverPanics
<1>1. PoolInv => PutNeverPanics
  BY DEF PoolInv, PutNeverPanics, Panics, InUse, TypeOK, Id
<1>. QED BY <1>1, PoolInvariance, PTL

(* The pool is an implementation of UniqueIds: each Get is given an id that *)
(* nobody has and that is not above the peak.                               *)
THEOREM Implementation == IdSpec => KeepsPromise
<1>1. IdInit => Promise!Init
  BY DEF IdInit, Promise!Init
<1>2. ASSUME PoolInv, PoolInv', [IdNext]_idVars
      PROVE  [Promise!Next]_<<held, peak>>
  <2>1. ASSUME NEW u \in User, NEW id \in Id \ InUse, Takes(u, id), id \in 1..maxUsed'
        PROVE  Promise!Next
    <3>1. maxUsed' <= peak' /\ peak' \in Nat /\ maxUsed' \in Nat
      BY <1>2 DEF PoolInv, NeverAbovePeak, TypeOK, Id
    <3>2. id \in (1..peak') \ Promise!InUse
      BY <2>1, <3>1 DEF InUse, Promise!InUse, Holders
    <3>3. Promise!Get(u)
      BY <2>1, <3>2 DEF Takes, Promise!Get, Holders, Cardinality, Promise!Cardinality
    <3>. QED BY <3>3 DEF Promise!Next, Promise!Get
  <2>2. ASSUME NEW u \in User, GetRecycled(u) PROVE Promise!Next
    <3>1. PICK id \in used : Takes(u, id) /\ maxUsed' = maxUsed
      BY <2>2 DEF GetRecycled
    <3>. QED BY <1>2, <2>1, <3>1 DEF PoolInv, TypeOK
  <2>3. ASSUME NEW u \in User, GetFresh(u) PROVE Promise!Next
    <3>1. used = {} /\ Takes(u, FreshId) /\ maxUsed' = FreshId
      BY <2>3 DEF GetFresh, NoneRecycled, FreshId
    <3>2. u \in User \ Holders
      BY <3>1 DEF Takes, Holders, Promise!Holders
    <3>3. FreshId = maxUsed + 1 /\ FreshId \in Id /\ maxUsed \in Nat
      BY <1>2, <3>1, <3>2, FreshIdFits DEF PoolInv, TypeOK, Id
    <3>4. FreshId \in Id \ InUse /\ FreshId \in 1..maxUsed'
      BY <1>2, <3>1, <3>3 DEF PoolInv
    <3>. QED BY <2>1, <3>1, <3>4
  <2>4. ASSUME NEW u \in User, Put(u) PROVE Promise!Next
    BY <2>4 DEF Put, Promise!Put, Promise!Next
  <2>5. CASE UNCHANGED idVars
    BY <2>5 DEF idVars
  <2>. QED BY <1>2, <2>2, <2>3, <2>4, <2>5 DEF IdNext
<1>. QED BY <1>1, <1>2, PoolInvariance, PTL DEF IdSpec, Promise!Spec, KeepsPromise
=============================================================================
