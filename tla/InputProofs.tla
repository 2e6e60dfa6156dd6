------------------------------ MODULE InputProofs ------------------------------
(***************************************************************************)
(* Theorems about what a program hands to the driver: how the arguments of  *)
(* a call are dealt out to the statements of its text (Params), for any     *)
(* number of each, and what the two entry points make of a URL and options  *)
(* (Config), for any number of options.                                     *)
(***************************************************************************)
EXTENDS Params, Config, FiniteSetTheorems, WellFoundedInduction, TLAPS

(* A text and the arguments are sequences, of statements and of names.      *)
LEMMA BoundedIsSeq ==
  ASSUME NEW S, NEW n \in Nat, NEW s \in BoundedSeq(S, n)
  PROVE  s \in Seq(S)
  BY DEF BoundedSeq, SeqOf

(* A set of natural numbers that is not empty has a least one.              *)
LEMMA LeastNumber ==
  ASSUME NEW S \in SUBSET Nat, S # {}
  PROVE  \E m \in S : \A k \in S : m <= k
<1>. DEFINE Below == OpToRel(<, Nat)
<1>1. PICK m \in S : \A k \in S : ~(<<k, m>> \in Below)
  <2>. HIDE DEF Below
  <2>1. IsWellFoundedOn(Below, Nat)
    BY NatLessThanWellFounded DEF Below
  <2>. QED BY <2>1, WFMin
<1>2. ASSUME NEW k \in S PROVE m <= k
  <2>1. ~(<<k, m>> \in Below)
    BY <1>1
  <2>2. ~(k < m)
    BY <2>1 DEF OpToRel
  <2>. QED BY <2>2
<1>. QED BY <1>2

(* A set of places that is not empty has a last one.                        *)
LEMMA LastPlace ==
  ASSUME NEW n \in Nat, NEW S \in SUBSET (1..n), S # {}
  PROVE  \E i \in S : \A j \in S : j <= i
<1>. DEFINE Behind == {n - i : i \in S}
<1>0. Behind \subseteq Nat
  OBVIOUS
<1>1. Behind # {}
  OBVIOUS
<1>2. PICK x \in Behind : \A y \in Behind : x <= y
  <2>. HIDE DEF Behind
  <2>. QED BY <1>0, <1>1, LeastNumber
<1>3. PICK i \in S : x = n - i
  BY <1>2
<1>4. ASSUME NEW j \in S PROVE j <= i
  <2>1. n - j \in Behind
    BY <1>4
  <2>2. n - i <= n - j
    BY <1>2, <1>3, <2>1
  <2>3. i \in Nat /\ j \in Nat
    BY <1>4
  <2>. QED BY <2>2, <2>3
<1>. QED BY <1>4

-----------------------------------------------------------------------------
(* The numbers of a statement's parameters are finitely many.               *)
LEMMA NumbersAreFinite ==
  ASSUME NEW stmt \in Statement
  PROVE  Cardinality(Keys(stmt, "number")) \in Nat
<1>. DEFINE ps == stmt.params
            numbered == {j \in DOMAIN ps : ps[j].kind = "number"}
            f == [i \in numbered |-> ps[i].key]
<1>1. IsFiniteSet(DOMAIN ps)
  <2>1. ps \in Seq(Parameter)
    BY BoundedIsSeq, ParamsAssumption DEF Statement
  <2>2. Len(ps) \in Int /\ DOMAIN ps = 1..Len(ps)
    BY <2>1
  <2>. HIDE DEF ps
  <2>3. IsFiniteSet(1..Len(ps))
    BY <2>2, FS_Interval
  <2>. QED BY <2>2, <2>3
<1>2. IsFiniteSet(numbered)
  <2>1. numbered \subseteq DOMAIN ps
    OBVIOUS
  <2>. QED BY <1>1, <2>1, FS_Subset
<1>3. f \in Surjection(numbered, Keys(stmt, "number"))
  BY DEF Surjection, Keys
<1>. HIDE DEF f, numbered
<1>4. IsFiniteSet(Keys(stmt, "number"))
  BY <1>2, <1>3, FS_Surjection
<1>. QED BY <1>4, FS_CardinalityType

(* What a statement counts is a natural number.                             *)
LEMMA CountsAreNumbers ==
  ASSUME NEW stmt \in Statement
  PROVE  PositionalParamsCount(stmt) \in Nat
<1>. DEFINE ps == stmt.params
<1>1. ps \in Seq(Parameter) /\ IsFiniteSet(DOMAIN ps)
  <2>1. ps \in BoundedSeq(Parameter, MaxParams)
    BY DEF Statement
  <2>2. ps \in Seq(Parameter)
    BY <2>1, BoundedIsSeq, ParamsAssumption
  <2>3. Len(ps) \in Nat /\ DOMAIN ps = 1..Len(ps)
    BY <2>2
  <2>4. IsFiniteSet(1..Len(ps))
    <3>1. Len(ps) \in Int
      BY <2>3
    <3>. HIDE DEF ps
    <3>. QED BY <3>1, FS_Interval
  <2>. QED BY <2>2, <2>3, <2>4
<1>2. Occurrences(stmt, {"plain"}) \in Nat
  <2>. DEFINE plain == {i \in DOMAIN ps : ps[i].kind \in {"plain"}}
  <2>1. plain \subseteq DOMAIN ps
    OBVIOUS
  <2>2. IsFiniteSet(plain)
    BY <1>1, <2>1, FS_Subset
  <2>3. Cardinality(plain) \in Nat
    BY <2>2, FS_CardinalityType
  <2>. QED BY <2>3 DEF Occurrences
<1>. QED BY <1>2, NumbersAreFinite DEF PositionalParamsCount

(* A slice of the arguments: their places from one on.                      *)
LEMMA SliceIs ==
  ASSUME NEW from \in Nat, NEW n \in Nat
  PROVE  /\ Slice(from, n) \in Seq(Nat) /\ Len(Slice(from, n)) = n
         /\ DOMAIN Slice(from, n) = 1..n
         /\ \A i \in 1..n : Slice(from, n)[i] = from + i
  BY DEF Slice

-----------------------------------------------------------------------------
(* The types; what has been dealt out is for the first statements.          *)
ParamsInv ==
  /\ stmts \in Seq(Statement) /\ args \in Seq(Name \cup {NoName})
  /\ \E D : dealt \in Seq(D)
  /\ Len(dealt) <= Len(stmts)
  /\ ArgsAreMixed \/ args = <<>> => dealt = <<>>

Names(m) == GivenNames \cap NameParams(stmts[m])

(* Each statement has a slice of the arguments, or the values of its names. *)
DealtInv ==
  \A m \in DOMAIN dealt :
    /\ dealt[m].positional \in Seq(Nat)
    /\ ArgsAreNamed => dealt[m].named = [n \in Names(m) |-> PlaceOf(n)]

(* The slices follow each other.                                            *)
InTurnInv ==
  args # <<>> /\ ~ArgsAreNamed =>
    /\ alreadyUsed \in 0..Len(args)
    /\ \A m \in DOMAIN dealt : \A i \in DOMAIN dealt[m].positional :
         dealt[m].positional[i] \in 1..alreadyUsed
    /\ \A k \in 1..alreadyUsed : \E m \in DOMAIN dealt :
         \E i \in DOMAIN dealt[m].positional : dealt[m].positional[i] = k
    /\ \A m, n \in DOMAIN dealt :
         \A i \in DOMAIN dealt[m].positional, j \in DOMAIN dealt[n].positional :
           m < n \/ (m = n /\ i < j) =>
             dealt[m].positional[i] < dealt[n].positional[j]

DealingInv == ParamsInv /\ DealtInv /\ InTurnInv

LEMMA DealingInit == ParamsInit => DealingInv
<1>. SUFFICES ASSUME ParamsInit PROVE DealingInv
  OBVIOUS
<1>1. /\ dealt = <<>> /\ alreadyUsed = 0
      /\ stmts \in BoundedSeq(Statement, MaxStmts)
      /\ \/ args \in BoundedSeq({NoName}, MaxArgs)
         \/ args \in BoundedSeq(Name \cup {NoName}, MaxNamed)
  BY DEF ParamsInit
<1>2. stmts \in Seq(Statement)
  BY <1>1, BoundedIsSeq, ParamsAssumption
<1>3. args \in Seq(Name \cup {NoName})
  <2>1. CASE args \in BoundedSeq({NoName}, MaxArgs)
    <3>1. args \in Seq({NoName})
      BY <2>1, BoundedIsSeq, ParamsAssumption
    <3>. QED BY <3>1
  <2>2. CASE args \in BoundedSeq(Name \cup {NoName}, MaxNamed)
    BY <2>2, BoundedIsSeq, ParamsAssumption
  <2>. QED BY <1>1, <2>1, <2>2
<1>4. Len(dealt) = 0 /\ DOMAIN dealt = {} /\ dealt \in Seq({})
  BY <1>1
<1>5. ParamsInv
  BY <1>1, <1>2, <1>3, <1>4 DEF ParamsInv
<1>6. DealtInv
  BY <1>4 DEF DealtInv
<1>7. InTurnInv
  <2>1. Len(args) \in Nat /\ 1..0 = {}
    BY <1>3
  <2>. QED BY <1>1, <1>4, <2>1 DEF InTurnInv
<1>. QED BY <1>5, <1>6, <1>7 DEF DealingInv

-----------------------------------------------------------------------------
(* What a statement gets by position: as many of the arguments left as it   *)
(* has parameters, or all of them, or none (an EXPLAIN).                    *)
LEMMA PositionalIsSlice ==
  ASSUME DealingInv, Dealing, ~ArgsAreNamed
  PROVE  \E n \in Nat : Positional.positional = Slice(alreadyUsed, n) /\ alreadyUsed + n <= Len(args)
<1>1. alreadyUsed \in Nat /\ Len(args) \in Nat /\ alreadyUsed <= Len(args)
  BY DEF DealingInv, InTurnInv, ParamsInv, Dealing
<1>2. NextStatement \in Statement
  BY DEF DealingInv, ParamsInv, Dealing, NextStatement
<1>. DEFINE n == PositionalParamsCount(NextStatement)
<1>3. n \in Nat
  BY <1>2, CountsAreNumbers
<1>. HIDE DEF n
<1>4. Left \in Nat /\ alreadyUsed + Left = Len(args)
  BY <1>1 DEF Left
<1>5. \/ n <= Left /\ Positional.positional = Slice(alreadyUsed, n)
      \/ Positional.positional = <<>>
      \/ Positional.positional = Slice(alreadyUsed, Left)
  BY DEF Positional, NoParams, n
<1>6. Slice(alreadyUsed, 0) = <<>>
  BY <1>1 DEF Slice
<1>7. CASE n <= Left /\ Positional.positional = Slice(alreadyUsed, n)
  BY <1>1, <1>3, <1>4, <1>7
<1>8. CASE Positional.positional = <<>>
  <2>1. Positional.positional = Slice(alreadyUsed, 0) /\ alreadyUsed + 0 <= Len(args)
    BY <1>1, <1>6, <1>8
  <2>. QED BY <2>1
<1>9. CASE Positional.positional = Slice(alreadyUsed, Left)
  BY <1>1, <1>4, <1>9
<1>. QED BY <1>5, <1>7, <1>8, <1>9

(* One statement more has its parameters.                                   *)
LEMMA DealsAppends ==
  ASSUME DealingInv, Deals
  PROVE  LET p == IF ArgsAreNamed THEN ByName ELSE Positional
         IN  /\ dealt' = Append(dealt, p) /\ \E D : dealt' \in Seq(D)
             /\ Len(dealt') = Len(dealt) + 1 /\ Len(dealt) \in Nat
             /\ DOMAIN dealt = 1..Len(dealt) /\ DOMAIN dealt' = 1..Len(dealt')
             /\ \A m \in 1..Len(dealt) : dealt'[m] = dealt[m]
             /\ dealt'[Len(dealt) + 1] = p
<1>. DEFINE p == IF ArgsAreNamed THEN ByName ELSE Positional
<1>1. dealt' = Append(dealt, p)
  BY DEF Deals
<1>2. PICK D : dealt \in Seq(D)
  BY DEF DealingInv, ParamsInv
<1>. HIDE DEF p
<1>3. dealt \in Seq(D \cup {p}) /\ p \in D \cup {p}
  BY <1>2
<1>4. /\ dealt' \in Seq(D \cup {p})
      /\ Len(dealt') = Len(dealt) + 1 /\ Len(dealt) \in Nat
      /\ DOMAIN dealt = 1..Len(dealt) /\ DOMAIN dealt' = 1..Len(dealt')
      /\ \A m \in 1..Len(dealt) : dealt'[m] = dealt[m]
      /\ dealt'[Len(dealt) + 1] = p
  BY <1>1, <1>3
<1>5. \E D1 : dealt' \in Seq(D1)
  BY <1>4
<1>. QED BY <1>1, <1>4, <1>5 DEF p

LEMMA DealsKeeps ==
  ASSUME DealingInv, Deals
  PROVE  DealingInv'
<1>. DEFINE p == IF ArgsAreNamed THEN ByName ELSE Positional
<1>1. /\ \E D : dealt' \in Seq(D)
      /\ Len(dealt') = Len(dealt) + 1 /\ Len(dealt) \in Nat
      /\ DOMAIN dealt = 1..Len(dealt) /\ DOMAIN dealt' = 1..Len(dealt')
      /\ \A m \in 1..Len(dealt) : dealt'[m] = dealt[m]
      /\ dealt'[Len(dealt) + 1] = p
  BY DealsAppends
<1>2. /\ UNCHANGED <<stmts, args>> /\ Dealing /\ alreadyUsed' = UsedAfter(p)
      /\ args # <<>> /\ ~ArgsAreMixed /\ Len(dealt) < Len(stmts)
      /\ stmts \in Seq(Statement) /\ args \in Seq(Name \cup {NoName})
  BY DEF Deals, Dealing, DealingInv, ParamsInv
<1>3. /\ ArgsAreNamed' = ArgsAreNamed /\ ArgsAreMixed' = ArgsAreMixed
      /\ \A m : Names(m)' = Names(m) /\ \A n : PlaceOf(n)' = PlaceOf(n)
  BY <1>2 DEF ArgsAreNamed, ArgsAreMixed, Place, Names, GivenNames, PlaceOf
<1>4. ParamsInv'
  <2>1. Len(dealt') <= Len(stmts')
    BY <1>1, <1>2
  <2>. QED BY <1>1, <1>2, <1>3, <2>1 DEF ParamsInv
<1>5. p.positional \in Seq(Nat)
  <2>1. CASE ArgsAreNamed
    BY <2>1 DEF ByName, NoParams
  <2>2. CASE ~ArgsAreNamed
    <3>1. PICK n \in Nat : Positional.positional = Slice(alreadyUsed, n)
      BY <1>2, <2>2, PositionalIsSlice
    <3>2. alreadyUsed \in Nat
      BY <1>2, <2>2 DEF DealingInv, InTurnInv
    <3>. QED BY <2>2, <3>1, <3>2, SliceIs
  <2>. QED BY <2>1, <2>2
<1>6. ArgsAreNamed => p.named = [n \in Names(Len(dealt) + 1) |-> PlaceOf(n)]
  BY DEF ByName, NoParams, NamesNeeded, Names, NextStatement
<1>7. DealtInv'
  <2>. SUFFICES ASSUME NEW m \in DOMAIN dealt'
                PROVE  /\ dealt'[m].positional \in Seq(Nat)
                       /\ ArgsAreNamed => dealt'[m].named = [n \in Names(m) |-> PlaceOf(n)]
    <3>1. /\ ArgsAreNamed' = ArgsAreNamed
          /\ \A m \in DOMAIN dealt' :
               [n \in Names(m)' |-> PlaceOf(n)'] = [n \in Names(m) |-> PlaceOf(n)]
      BY <1>3
    <3>. QED BY <3>1 DEF DealtInv
  <2>. HIDE DEF p
  <2>1. m \in 1..Len(dealt) \/ m = Len(dealt) + 1
    BY <1>1
  <2>2. CASE m \in 1..Len(dealt)
    BY <1>1, <2>2 DEF DealingInv, DealtInv
  <2>3. CASE m = Len(dealt) + 1
    BY <1>1, <1>5, <1>6, <2>3
  <2>. QED BY <2>1, <2>2, <2>3
<1>8. InTurnInv'
  <2>. SUFFICES ASSUME ~ArgsAreNamed PROVE InTurnInv'
    BY <1>3 DEF InTurnInv
  <2>1. PICK n \in Nat : p.positional = Slice(alreadyUsed, n) /\ alreadyUsed + n <= Len(args)
    BY <1>2, PositionalIsSlice
  <2>. HIDE DEF p
  <2>2. /\ alreadyUsed \in Nat /\ Len(args) \in Nat
        /\ \A m \in 1..Len(dealt) : \A i \in DOMAIN dealt[m].positional :
             dealt[m].positional[i] \in 1..alreadyUsed
        /\ \A k \in 1..alreadyUsed : \E m \in 1..Len(dealt) :
             \E i \in DOMAIN dealt[m].positional : dealt[m].positional[i] = k
        /\ \A m, q \in 1..Len(dealt) :
             \A i \in DOMAIN dealt[m].positional, j \in DOMAIN dealt[q].positional :
               m < q \/ (m = q /\ i < j) =>
                 dealt[m].positional[i] < dealt[q].positional[j]
    <3>1. args # <<>> /\ InTurnInv /\ DOMAIN dealt = 1..Len(dealt)
      BY <1>1, <1>2 DEF DealingInv
    <3>2. Len(args) \in Nat
      BY <1>2
    <3>3. alreadyUsed \in Nat
      BY <3>1, <3>2 DEF InTurnInv
    <3>. QED BY ONLY ~ArgsAreNamed, <3>1, <3>2, <3>3 DEF InTurnInv
  <2>3. /\ Len(p.positional) = n /\ DOMAIN p.positional = 1..n
        /\ \A i \in 1..n : p.positional[i] = alreadyUsed + i
    <3>1. alreadyUsed \in Nat /\ n \in Nat
      BY <2>2
    <3>. QED BY ONLY <2>1, <3>1, SliceIs
  <2>4. alreadyUsed' = alreadyUsed + n
    BY <1>2, <2>3 DEF UsedAfter, ParamsLen
  <2>. DEFINE d == Len(dealt)
              new == dealt'
  <2>5. /\ d \in Nat /\ DOMAIN new = 1..(d + 1)
        /\ \A m \in 1..d : new[m] = dealt[m]
        /\ new[d + 1] = p
    BY <1>1
  <2>6. alreadyUsed' \in 0..Len(args')
    BY <1>2, <2>1, <2>2, <2>4
  <2>. HIDE DEF d, new
  <2>i. \A m \in DOMAIN new : m \in 1..d \/ m = d + 1
    BY <2>5
  <2>7. ASSUME NEW m \in DOMAIN new, NEW i \in DOMAIN new[m].positional
        PROVE  new[m].positional[i] \in 1..(alreadyUsed + n)
    <3>1. CASE m \in 1..d
      BY <2>2, <2>5, <2>7, <3>1 DEF d
    <3>2. CASE m = d + 1
      BY <2>2, <2>3, <2>5, <2>7, <3>2
    <3>. QED BY <2>i, <3>1, <3>2
  <2>8. ASSUME NEW k \in 1..(alreadyUsed + n)
        PROVE  \E m \in DOMAIN new : \E i \in DOMAIN new[m].positional :
                 new[m].positional[i] = k
    <3>1. CASE k \in 1..alreadyUsed
      <4>1. PICK m \in 1..d : \E i \in DOMAIN dealt[m].positional : dealt[m].positional[i] = k
        BY <2>2, <3>1 DEF d
      <4>2. m \in DOMAIN new /\ new[m] = dealt[m]
        BY <2>5
      <4>. QED BY <4>1, <4>2
    <3>2. CASE k \notin 1..alreadyUsed
      <4>1. k - alreadyUsed \in 1..n /\ alreadyUsed + (k - alreadyUsed) = k
        BY <2>2, <3>2
      <4>2. d + 1 \in DOMAIN new
        BY <2>5
      <4>. QED BY <2>3, <2>5, <4>1, <4>2
    <3>. QED BY <3>1, <3>2
  <2>9. ASSUME NEW m \in DOMAIN new, NEW q \in DOMAIN new,
               NEW i \in DOMAIN new[m].positional, NEW j \in DOMAIN new[q].positional,
               m < q \/ (m = q /\ i < j)
        PROVE  new[m].positional[i] < new[q].positional[j]
    <3>1. CASE m \in 1..d /\ q \in 1..d
      BY <2>2, <2>5, <2>9, <3>1 DEF d
    <3>2. CASE m \in 1..d /\ q = d + 1
      <4>1. new[m].positional[i] \in 1..alreadyUsed
        BY <2>2, <2>5, <2>9, <3>2 DEF d
      <4>2. j \in 1..n /\ new[q].positional[j] = alreadyUsed + j
        BY <2>3, <2>5, <2>9, <3>2
      <4>. QED BY <2>2, <4>1, <4>2
    <3>3. CASE m = d + 1 /\ q = d + 1
      <4>1. /\ i \in 1..n /\ new[m].positional[i] = alreadyUsed + i
            /\ j \in 1..n /\ new[q].positional[j] = alreadyUsed + j
        BY <2>3, <2>5, <2>9, <3>3
      <4>2. i < j
        BY <2>5, <2>9, <3>3
      <4>. QED BY <2>2, <4>1, <4>2
    <3>4. CASE m = d + 1 /\ q \in 1..d
      BY <2>5, <2>9, <3>4
    <3>. QED BY <2>i, <3>1, <3>2, <3>3, <3>4
  <2>. QED BY <2>4, <2>6, <2>7, <2>8, <2>9 DEF InTurnInv, new
<1>. QED BY <1>4, <1>7, <1>8 DEF DealingInv

LEMMA DealingNext == DealingInv /\ [ParamsNext]_paramsVars => DealingInv'
<1>. SUFFICES ASSUME DealingInv, [ParamsNext]_paramsVars PROVE DealingInv'
  OBVIOUS
<1>1. CASE Deals
  BY <1>1, DealsKeeps
<1>2. CASE ~Deals
  <2>1. UNCHANGED <<stmts, args, alreadyUsed, dealt>>
    BY <1>2 DEF ParamsNext, NoArgs, RefusesArgs, RefusesStatement, IsDone, ArgsReturned,
                Returns, paramsVars
  <2>2. /\ ArgsAreNamed' = ArgsAreNamed /\ ArgsAreMixed' = ArgsAreMixed
        /\ \A m : Names(m)' = Names(m) /\ \A n : PlaceOf(n)' = PlaceOf(n)
    BY <2>1 DEF ArgsAreNamed, ArgsAreMixed, Place, Names, GivenNames, PlaceOf
  <2>3. \A m : [n \in Names(m)' |-> PlaceOf(n)'] = [n \in Names(m) |-> PlaceOf(n)]
    BY <2>2
  <2>. QED BY <2>1, <2>2, <2>3 DEF DealingInv, ParamsInv, DealtInv, InTurnInv
<1>. QED BY <1>1, <1>2

LEMMA DealingInvariance == ParamsSpec => []DealingInv
<1>. QED BY DealingInit, DealingNext, PTL DEF ParamsSpec

-----------------------------------------------------------------------------
(* However many statements and arguments there are, the positional ones are *)
(* dealt out each once, in their order, and none that was not given.        *)
THEOREM EachDealtOnce == ParamsSpec => []DealtOnceInOrder
<1>1. DealingInv => DealtOnceInOrder
  <2>. SUFFICES ASSUME DealingInv, args # <<>>, ~ArgsAreNamed
                PROVE  /\ UNION {Range(dealt[m].positional) : m \in DOMAIN dealt} = 1..alreadyUsed
                       /\ alreadyUsed <= Len(args)
    BY DEF DealtOnceInOrder, DealingInv, InTurnInv
  <2>. DEFINE Given_ == {Range(dealt[m].positional) : m \in DOMAIN dealt}
  <2>1. ASSUME NEW k \in UNION Given_ PROVE k \in 1..alreadyUsed
    <3>1. PICK m \in DOMAIN dealt : k \in Range(dealt[m].positional)
      OBVIOUS
    <3>2. PICK i \in DOMAIN dealt[m].positional : k = dealt[m].positional[i]
      BY <3>1 DEF Range
    <3>. QED BY <3>1, <3>2 DEF DealingInv, InTurnInv
  <2>2. ASSUME NEW k \in 1..alreadyUsed PROVE k \in UNION Given_
    <3>1. PICK m \in DOMAIN dealt : \E i \in DOMAIN dealt[m].positional :
                                      dealt[m].positional[i] = k
      BY DEF DealingInv, InTurnInv
    <3>2. k \in Range(dealt[m].positional)
      BY <3>1 DEF Range
    <3>. QED BY <3>2
  <2>3. alreadyUsed <= Len(args)
    BY DEF DealingInv, InTurnInv, ParamsInv
  <2>. QED BY <2>1, <2>2, <2>3
<1>. QED BY <1>1, DealingInvariance, PTL

(* Whatever names are given, and however often, a statement gets those it   *)
(* names and no others, each with the value given last.                     *)
THEOREM NamesReachThem == ParamsSpec => []NamesReachTheirStatements
<1>1. DealingInv => NamesReachTheirStatements
  <2>. SUFFICES ASSUME DealingInv, args # <<>>, ~ArgsAreMixed, ArgsAreNamed,
                       NEW m \in DOMAIN dealt, NEW i \in Place
                PROVE  /\ args[i] \in DOMAIN dealt[m].named
                            <=> \E j \in DOMAIN stmts[m].params :
                                  stmts[m].params[j] = [kind |-> "name", key |-> args[i]]
                       /\ args[i] \in DOMAIN dealt[m].named => dealt[m].named[args[i]] >= i
    BY DEF NamesReachTheirStatements
  <2>1. dealt[m].named = [n \in Names(m) |-> PlaceOf(n)]
    BY DEF DealingInv, DealtInv
  <2>2. stmts[m] \in Statement
    <3>1. /\ stmts \in Seq(Statement) /\ Len(dealt) <= Len(stmts)
          /\ Len(stmts) \in Nat /\ DOMAIN dealt = 1..Len(dealt) /\ Len(dealt) \in Nat
      BY DEF DealingInv, ParamsInv
    <3>. QED BY <3>1
  <2>3. stmts[m].params \in Seq(Parameter)
    <3>1. stmts[m].params \in BoundedSeq(Parameter, MaxParams)
      BY <2>2 DEF Statement
    <3>. QED BY <3>1, BoundedIsSeq, ParamsAssumption
  <2>4. ASSUME NEW p \in Parameter, NEW n
        PROVE  p = [kind |-> "name", key |-> n] <=> p.kind = "name" /\ p.key = n
    BY DEF Parameter, Number, Named, Plain, Bad
  <2>5. args[i] \in GivenNames
    BY DEF GivenNames
  <2>6. args[i] \in NameParams(stmts[m])
          <=> \E j \in DOMAIN stmts[m].params :
                stmts[m].params[j].kind = "name" /\ stmts[m].params[j].key = args[i]
    BY DEF NameParams, Keys
  <2>7. args[i] \in NameParams(stmts[m])
          <=> \E j \in DOMAIN stmts[m].params :
                stmts[m].params[j] = [kind |-> "name", key |-> args[i]]
    <3>1. \A j \in DOMAIN stmts[m].params : stmts[m].params[j] \in Parameter
      BY <2>3
    <3>. QED BY <2>4, <2>6, <3>1
  <2>8. PlaceOf(args[i]) >= i
    <3>. DEFINE At == {j \in Place : args[j] = args[i]}
    <3>1. At \in SUBSET (1..Len(args)) /\ At # {} /\ Len(args) \in Nat
      BY DEF Place, DealingInv, ParamsInv
    <3>2. \E k \in At : \A j \in At : j <= k
      <4>. HIDE DEF At
      <4>. QED BY <3>1, LastPlace
    <3>3. \E k \in Place : args[k] = args[i] /\ \A j \in Place : args[j] = args[i] => j <= k
      BY <3>2
    <3>4. /\ PlaceOf(args[i]) \in Place
          /\ \A j \in Place : args[j] = args[i] => j <= PlaceOf(args[i])
      BY <3>3 DEF PlaceOf
    <3>5. Place \subseteq Nat
      BY <3>1 DEF Place
    <3>. QED BY <3>4, <3>5
  <2>. QED BY <2>1, <2>5, <2>7, <2>8 DEF Names
<1>. QED BY <1>1, DealingInvariance, PTL

-----------------------------------------------------------------------------
(* A function on 0..n may be defined by what it gives each number from what *)
(* it gave the one before.                                                  *)
IsCounter(f, n, step) ==
  /\ f \in [0..n -> Nat] /\ f[0] = 0
  /\ \A i \in 1..n : f[i] = step[<<i, f[i - 1]>>]

LEMMA CounterExists ==
  ASSUME NEW n \in Nat, NEW step \in [(1..n) \X Nat -> Nat]
  PROVE  \E f : IsCounter(f, n, step)
<1>. DEFINE Missing == {k \in 0..n : ~\E f : IsCounter(f, k, step)}
<1>. SUFFICES ASSUME ~\E f : IsCounter(f, n, step) PROVE FALSE
  OBVIOUS
<1>1. Missing # {}
  <2>1. n \in 0..n
    OBVIOUS
  <2>. QED BY <2>1
<1>2. PICK m \in Missing : \A k \in Missing : m <= k
  <2>1. Missing \in SUBSET Nat
    OBVIOUS
  <2>. HIDE DEF Missing
  <2>. QED BY <1>1, <2>1, LeastNumber
<1>3. m \in 0..n /\ ~\E f : IsCounter(f, m, step)
  BY <1>2
<1>4. CASE m = 0
  <2>. DEFINE f == [i \in 0..0 |-> 0]
  <2>1. f \in [0..0 -> Nat] /\ f[0] = 0 /\ 1..0 = {}
    OBVIOUS
  <2>2. IsCounter(f, 0, step)
    BY <2>1 DEF IsCounter
  <2>. QED BY <1>3, <1>4, <2>2
<1>5. CASE m # 0
  <2>1. m - 1 \in 0..n /\ m - 1 \notin Missing /\ m \in 1..n
    BY <1>2, <1>3, <1>5
  <2>2. PICK f : IsCounter(f, m - 1, step)
    BY <2>1
  <2>. DEFINE g == [i \in 0..m |-> IF i = m THEN step[<<m, f[m - 1]>>] ELSE f[i]]
  <2>3. f \in [0..(m - 1) -> Nat] /\ f[0] = 0 /\ f[m - 1] \in Nat
    BY <2>1, <2>2 DEF IsCounter
  <2>4. step[<<m, f[m - 1]>>] \in Nat
    BY <2>1, <2>3
  <2>5. g \in [0..m -> Nat] /\ g[0] = 0
    BY <2>1, <2>3, <2>4
  <2>6. ASSUME NEW i \in 1..m PROVE g[i] = step[<<i, g[i - 1]>>]
    <3>1. g[i - 1] = f[i - 1]
      BY <2>1
    <3>2. CASE i = m
      <4>1. g[m] = step[<<m, f[m - 1]>>]
        BY <2>1
      <4>. QED BY <3>1, <3>2, <4>1
    <3>3. CASE i # m
      <4>1. i \in 1..(m - 1) /\ g[i] = f[i]
        BY <2>1, <3>3
      <4>. QED BY <2>2, <3>1, <4>1 DEF IsCounter
    <3>. QED BY <3>2, <3>3
  <2>7. IsCounter(g, m, step)
    BY <2>5, <2>6 DEF IsCounter
  <2>. QED BY <1>3, <2>7
<1>. QED BY <1>4, <1>5

(* It is the only one. *)
LEMMA SameCounter ==
  ASSUME NEW n \in Nat, NEW f, NEW g, f[0] = g[0],
         \A i \in 1..n : f[i - 1] = g[i - 1] => f[i] = g[i]
  PROVE  \A i \in 0..n : f[i] = g[i]
<1>. DEFINE Differ == {i \in 0..n : f[i] # g[i]}
<1>. SUFFICES ASSUME Differ # {} PROVE FALSE
  OBVIOUS
<1>1. PICK m \in Differ : \A k \in Differ : m <= k
  <2>1. Differ \in SUBSET Nat
    OBVIOUS
  <2>. HIDE DEF Differ
  <2>. QED BY <2>1, LeastNumber
<1>2. m \in 1..n /\ m - 1 \in 0..n /\ m - 1 \notin Differ /\ f[m] # g[m]
  BY <1>1
<1>3. f[m - 1] = g[m - 1]
  BY <1>2
<1>. QED BY <1>2, <1>3

(* The largest number after one more parameter. *)
Numbered(p, v) ==
  IF p.kind = "number" /\ p.key <= v THEN v
  ELSE IF p.kind = "number" THEN p.key ELSE v + 1

LEMMA ParametersCounted ==
  ASSUME NEW stmt \in Statement
  PROVE  \E f : /\ f \in [0..Len(stmt.params) -> Nat] /\ f[0] = 0
                /\ \A i \in 1..Len(stmt.params) : f[i] = Numbered(stmt.params[i], f[i - 1])
                /\ ParametersOf(stmt) = f[Len(stmt.params)]
<1>. DEFINE ps == stmt.params
            n == Len(ps)
<1>1. ps \in Seq(Parameter)
  BY BoundedIsSeq, ParamsAssumption DEF Statement
<1>2. n \in Nat
  BY <1>1
<1>3. ASSUME NEW i \in 1..n, NEW v \in Nat PROVE Numbered(ps[i], v) \in Nat
  <2>1. ps[i] \in Parameter
    BY <1>1
  <2>2. ps[i].kind = "number" => ps[i].key \in Nat
    BY <2>1, ParamsAssumption DEF Parameter, Number, Named, Plain, Bad
  <2>. QED BY <2>2 DEF Numbered
<1>. HIDE DEF n
<1>. DEFINE step == [x \in (1..n) \X Nat |-> Numbered(ps[x[1]], x[2])]
<1>4. step \in [(1..n) \X Nat -> Nat]
  BY <1>3
<1>5. PICK f : IsCounter(f, n, step)
  BY <1>2, <1>4, CounterExists
<1>6. f \in [0..n -> Nat] /\ f[0] = 0 /\ \A i \in 1..n : f[i] = Numbered(ps[i], f[i - 1])
  <2>1. f \in [0..n -> Nat] /\ f[0] = 0 /\ \A i \in 1..n : f[i] = step[<<i, f[i - 1]>>]
    BY <1>5 DEF IsCounter
  <2>2. ASSUME NEW i \in 1..n PROVE f[i] = Numbered(ps[i], f[i - 1])
    <3>1. f[i - 1] \in Nat
      BY <1>2, <2>1
    <3>2. step[<<i, f[i - 1]>>] = Numbered(ps[i], f[i - 1])
      BY <3>1
    <3>. QED BY <2>1, <3>2
  <2>. QED BY <2>1, <2>2
<1>. DEFINE Is(g) == g = [i \in 0..n |-> IF i = 0 THEN 0
                            ELSE LET p == ps[i]
                                 IN  IF p.kind = "number" /\ p.key <= g[i - 1] THEN g[i - 1]
                                     ELSE IF p.kind = "number" THEN p.key
                                     ELSE g[i - 1] + 1]
<1>7. Is(f)
  <2>1. ASSUME NEW i \in 0..n
        PROVE  f[i] = IF i = 0 THEN 0 ELSE Numbered(ps[i], f[i - 1])
    BY <1>2, <1>6
  <2>2. f = [i \in 0..n |-> f[i]]
    BY <1>6
  <2>3. f = [i \in 0..n |-> IF i = 0 THEN 0 ELSE Numbered(ps[i], f[i - 1])]
    BY <2>1, <2>2
  <2>. QED BY <2>3 DEF Numbered
<1>. DEFINE h == CHOOSE g : Is(g)
<1>8. Is(h)
  <2>. HIDE DEF Is
  <2>. QED BY <1>7
<1>9. ParametersOf(stmt) = h[n]
  BY DEF ParametersOf, n
<1>10. h = [i \in 0..n |-> IF i = 0 THEN 0 ELSE Numbered(ps[i], h[i - 1])]
  BY <1>8 DEF Numbered
<1>. HIDE DEF h
<1>11. h[0] = 0 /\ \A i \in 1..n : h[i] = Numbered(ps[i], h[i - 1])
  BY <1>2, <1>10
<1>12. \A i \in 0..n : h[i] = f[i]
  <2>1. h[0] = f[0] /\ \A i \in 1..n : h[i - 1] = f[i - 1] => h[i] = f[i]
    BY <1>6, <1>11
  <2>. HIDE DEF Is
  <2>. QED BY ONLY <1>2, <2>1, SameCounter
<1>13. ParametersOf(stmt) = f[n]
  BY <1>2, <1>9, <1>12
<1>. QED BY <1>6, <1>13 DEF n

(* A tidy statement has as many parameters as PositionalParamsCount says.   *)
LEMMA TidyCount ==
  ASSUME NEW stmt \in Statement, IsTidy(stmt), ~IsMalformed(stmt)
  PROVE  ParametersOf(stmt) = PositionalParamsCount(stmt) /\ ParametersOf(stmt) \in Nat
<1>. DEFINE ps == stmt.params
            n == Len(ps)
            numbers == Cardinality(Keys(stmt, "number"))
            Plains(i) == {j \in 1..i : ps[j].kind = "plain"}
<1>1. ps \in Seq(Parameter) /\ n \in Nat /\ DOMAIN ps = 1..n
  <2>1. ps \in Seq(Parameter)
    BY BoundedIsSeq, ParamsAssumption DEF Statement
  <2>. QED BY <2>1
<1>2. PICK f : /\ f \in [0..n -> Nat] /\ f[0] = 0
               /\ \A i \in 1..n : f[i] = Numbered(ps[i], f[i - 1])
               /\ ParametersOf(stmt) = f[n]
  BY ParametersCounted
<1>3. numbers \in Nat /\ Keys(stmt, "number") = 1..numbers
  BY NumbersAreFinite DEF IsTidy
<1>4. ASSUME NEW i \in 1..n
      PROVE  \/ ps[i].kind = "plain"
             \/ ps[i].kind = "number" /\ ps[i].key \in Nat
  <2>1. ps[i] \in Parameter
    BY <1>1
  <2>2. ps[i].kind # "name"
    <3>1. ASSUME ps[i].kind = "name" PROVE ps[i].key \in NameParams(stmt)
      BY <1>1, <3>1 DEF NameParams, Keys
    <3>. QED BY <3>1 DEF IsTidy
  <2>3. ps[i].kind # "bad"
    <3>1. SUFFICES ASSUME ps[i].kind = "bad" PROVE FALSE
      OBVIOUS
    <3>. DEFINE bad == {j \in DOMAIN ps : ps[j].kind \in {"bad"}}
    <3>2. i \in bad /\ bad \subseteq 1..n
      BY <1>1, <3>1
    <3>3. IsFiniteSet(1..n)
      <4>. HIDE DEF ps, n
      <4>. QED BY <1>1, FS_Interval
    <3>4. Occurrences(stmt, {"bad"}) = Cardinality(bad)
      BY DEF Occurrences
    <3>. HIDE DEF bad
    <3>5. IsFiniteSet(bad)
      BY <3>2, <3>3, FS_Subset
    <3>6. Cardinality(bad) \in Nat /\ Cardinality(bad) # 0
      BY <3>2, <3>5, FS_EmptySet, FS_CardinalityType
    <3>. QED BY <3>4, <3>6 DEF IsMalformed
  <2>. QED BY <2>1, <2>2, <2>3, ParamsAssumption DEF Parameter, Number, Named, Plain, Bad
<1>5. \A i, j \in 1..n : i < j /\ ps[i].kind = "plain" => ps[j].kind = "plain"
  BY <1>1 DEF IsTidy
<1>6. Occurrences(stmt, {"plain"}) = Cardinality(Plains(n))
  <2>1. {j \in DOMAIN ps : ps[j].kind \in {"plain"}} = Plains(n)
    BY <1>1
  <2>. QED BY <2>1 DEF Occurrences
<1>7. \A i \in 1..n : ps[i].kind = "number" => ps[i].key \in 1..numbers
  <2>1. ASSUME NEW i \in 1..n, ps[i].kind = "number"
        PROVE  ps[i].key \in Keys(stmt, "number")
    BY <1>1, <2>1 DEF Keys
  <2>. QED BY <1>3, <2>1
<1>8. \A k \in 1..numbers : \E i \in 1..n : ps[i].kind = "number" /\ ps[i].key = k
  BY <1>1, <1>3 DEF Keys
<1>. HIDE DEF numbers, n
<1>9. \A i \in 0..n : Cardinality(Plains(i)) \in Nat /\ IsFiniteSet(Plains(i))
  <2>1. ASSUME NEW i \in 0..n
        PROVE  Cardinality(Plains(i)) \in Nat /\ IsFiniteSet(Plains(i))
    <3>1. IsFiniteSet(1..i)
      BY <1>1, FS_Interval
    <3>2. Plains(i) \subseteq 1..i
      OBVIOUS
    <3>. QED BY <3>1, <3>2, FS_Subset, FS_CardinalityType
  <2>. QED BY <2>1
<1>10. ASSUME NEW i \in 1..n, ps[i].kind = "plain"
       PROVE  Cardinality(Plains(i)) = Cardinality(Plains(i - 1)) + 1
  <2>1. Plains(i) = Plains(i - 1) \cup {i} /\ i \notin Plains(i - 1)
    BY <1>10
  <2>0. i - 1 \in 0..n
    BY <1>1
  <2>. HIDE DEF Plains
  <2>2. IsFiniteSet(Plains(i - 1))
    BY <1>9, <2>0
  <2>. QED BY <2>1, <2>2, FS_AddElement
<1>11. ASSUME NEW i \in 1..n, ps[i].kind # "plain"
       PROVE  Cardinality(Plains(i)) = 0 /\ Cardinality(Plains(i - 1)) = 0
  <2>1. Plains(i) = {} /\ Plains(i - 1) = {}
    BY <1>1, <1>5, <1>11
  <2>. HIDE DEF Plains
  <2>. QED BY <2>1, FS_EmptySet
<1>12. Cardinality(Plains(0)) = 0
  <2>1. Plains(0) = {}
    OBVIOUS
  <2>. HIDE DEF Plains
  <2>. QED BY <2>1, FS_EmptySet
(* The largest so far, and the parameters without a number after it. *)
<1>. DEFINE Fits(i, top) ==
       /\ top \in Nat /\ f[i] = top + Cardinality(Plains(i))
       /\ \A j \in 1..i : ps[j].kind = "number" => ps[j].key <= top
       /\ top = 0 \/ \E j \in 1..i : ps[j].kind = "number" /\ ps[j].key = top
            Wrong == {i \in 0..n : ~\E top : Fits(i, top)}
<1>13. Wrong = {}
  <2>. SUFFICES ASSUME Wrong # {} PROVE FALSE
    OBVIOUS
  <2>1. PICK m \in Wrong : \A k \in Wrong : m <= k
    <3>1. Wrong \in SUBSET Nat
      BY <1>1
    <3>. HIDE DEF Wrong
    <3>. QED BY <3>1, LeastNumber
  <2>2. m # 0
    <3>1. Fits(0, 0)
      BY <1>2, <1>12
    <3>. HIDE DEF Fits
    <3>. QED BY <2>1, <3>1
  <2>3. m \in 1..n /\ m - 1 \in 0..n /\ m - 1 \notin Wrong
    <3>1. m \in 0..n
      BY <2>1
    <3>. HIDE DEF Wrong
    <3>. QED BY <1>1, <2>1, <2>2, <3>1
  <2>4. PICK top : Fits(m - 1, top)
    <3>. HIDE DEF Fits
    <3>. QED BY <2>3
  <2>5. f[m] = Numbered(ps[m], f[m - 1]) /\ Cardinality(Plains(m - 1)) \in Nat
    BY <1>2, <1>9, <2>3
  <2>6. \A j \in 1..m : j \in 1..(m - 1) \/ j = m
    BY <2>3
  <2>7. CASE ps[m].kind = "plain"
    <3>1. f[m] = f[m - 1] + 1 /\ Cardinality(Plains(m)) = Cardinality(Plains(m - 1)) + 1
      BY <1>10, <2>3, <2>5, <2>7 DEF Numbered
    <3>. HIDE DEF Plains
    <3>2. Fits(m, top)
      BY <2>3, <2>4, <2>5, <2>6, <2>7, <3>1
    <3>. HIDE DEF Fits
    <3>. QED BY <2>1, <3>2
  <2>8. CASE ps[m].kind = "number" /\ ps[m].key \in Nat
    <3>1. Cardinality(Plains(m)) = 0 /\ Cardinality(Plains(m - 1)) = 0
      BY <1>11, <2>3, <2>8
    <3>. HIDE DEF Plains
    <3>2. f[m - 1] = top /\ f[m] = IF ps[m].key <= top THEN top ELSE ps[m].key
      BY <2>4, <2>5, <2>8, <3>1 DEF Numbered
    <3>3. CASE ps[m].key <= top
      <4>1. Fits(m, top)
        BY <2>3, <2>4, <2>6, <2>8, <3>1, <3>2, <3>3
      <4>. HIDE DEF Fits
      <4>. QED BY <2>1, <4>1
    <3>4. CASE ~(ps[m].key <= top)
      <4>1. ASSUME NEW j \in 1..m, ps[j].kind = "number" PROVE ps[j].key <= ps[m].key
        <5>1. j \in 1..n
          BY <1>1, <2>3
        <5>2. ps[j].key \in Nat
          BY <1>3, <1>7, <4>1, <5>1
        <5>. QED BY <2>4, <2>6, <2>8, <3>4, <4>1, <5>2
      <4>2. Fits(m, ps[m].key)
        BY <2>3, <2>8, <3>1, <3>2, <3>4, <4>1
      <4>. HIDE DEF Fits
      <4>. QED BY <2>1, <4>2
    <3>. QED BY <3>3, <3>4
  <2>. QED BY <1>4, <2>3, <2>7, <2>8
<1>14. PICK top : Fits(n, top)
  <2>1. n \in 0..n
    BY <1>1
  <2>. HIDE DEF Fits
  <2>. QED BY <1>13, <2>1
<1>15. top = numbers
  <2>1. top = 0 \/ top \in 1..numbers
    BY <1>7, <1>14
  <2>2. numbers = 0 \/ numbers <= top
    <3>1. SUFFICES ASSUME numbers # 0 PROVE numbers <= top
      OBVIOUS
    <3>2. numbers \in 1..numbers
      BY <1>3, <3>1
    <3>. QED BY <1>8, <1>14, <3>2
  <2>. QED BY <1>3, <1>14, <2>1, <2>2
<1>16. ParametersOf(stmt) = numbers + Cardinality(Plains(n))
  BY <1>2, <1>14, <1>15
<1>17. Cardinality(Plains(n)) \in Nat
  BY <1>1, <1>9
<1>. HIDE DEF Plains
<1>. QED BY <1>3, <1>6, <1>16, <1>17 DEF PositionalParamsCount, numbers

-----------------------------------------------------------------------------
(* While the statements dealt to are tidy and the arguments have sufficed,  *)
(* as many are alreadyUsed as SQLite has parameters for.                           *)
Sufficed(m) == (\A k \in 1..m : IsTidy(stmts[k])) /\ NeededBefore(m + 1) <= Len(args)

TidyInv ==
  args # <<>> /\ ~ArgsAreNamed =>
    /\ \A k \in DOMAIN dealt : ~IsMalformed(stmts[k])
    /\ Sufficed(Len(dealt)) => alreadyUsed = NeededBefore(Len(dealt) + 1)
    /\ \A m \in DOMAIN dealt :
         Sufficed(m) =>
           dealt[m].positional = Slice(NeededBefore(m), ParametersOf(stmts[m]))

(* What the statements before one need, and the one after it. *)
LEMMA NeededGrows ==
  ASSUME stmts \in Seq(Statement)
  PROVE  /\ NeededBefore(1) = 0
         /\ \A m \in 1..Len(stmts) :
              /\ NeededBefore(m) \in Nat /\ ParametersOf(stmts[m]) \in Nat
              /\ NeededBefore(m + 1) = NeededBefore(m) + ParametersOf(stmts[m])
<1>. DEFINE n == Len(stmts)
<1>1. n \in Nat /\ \A i \in 1..n : stmts[i] \in Statement
  OBVIOUS
<1>2. ASSUME NEW i \in 1..n PROVE ParametersOf(stmts[i]) \in Nat
  <2>1. PICK f : /\ f \in [0..Len(stmts[i].params) -> Nat]
                 /\ ParametersOf(stmts[i]) = f[Len(stmts[i].params)]
    BY <1>1, ParametersCounted
  <2>2. stmts[i].params \in Seq(Parameter)
    <3>1. stmts[i].params \in BoundedSeq(Parameter, MaxParams)
      BY <1>1 DEF Statement
    <3>. QED BY <3>1, BoundedIsSeq, ParamsAssumption
  <2>3. Len(stmts[i].params) \in 0..Len(stmts[i].params)
    BY <2>2
  <2>. QED BY <2>1, <2>3
<1>. HIDE DEF n
<1>. DEFINE step == [x \in (1..n) \X Nat |-> x[2] + ParametersOf(stmts[x[1]])]
<1>3. step \in [(1..n) \X Nat -> Nat]
  BY <1>2
<1>4. PICK f : IsCounter(f, n, step)
  BY <1>1, <1>3, CounterExists
<1>5. f \in [0..n -> Nat] /\ f[0] = 0 /\ \A i \in 1..n : f[i] = f[i - 1] + ParametersOf(stmts[i])
  <2>1. f \in [0..n -> Nat] /\ f[0] = 0 /\ \A i \in 1..n : f[i] = step[<<i, f[i - 1]>>]
    BY <1>4 DEF IsCounter
  <2>2. ASSUME NEW i \in 1..n PROVE f[i] = f[i - 1] + ParametersOf(stmts[i])
    <3>1. f[i - 1] \in Nat
      BY <1>1, <2>1
    <3>2. step[<<i, f[i - 1]>>] = f[i - 1] + ParametersOf(stmts[i])
      BY <3>1
    <3>. QED BY <2>1, <3>2
  <2>. QED BY <2>1, <2>2
<1>. DEFINE Is(g) == g = [i \in 0..n |-> IF i = 0 THEN 0 ELSE g[i - 1] + ParametersOf(stmts[i])]
            h == CHOOSE g : Is(g)
<1>6. Is(f)
  <2>1. \A i \in 0..n : f[i] = IF i = 0 THEN 0 ELSE f[i - 1] + ParametersOf(stmts[i])
    BY <1>1, <1>5
  <2>2. f = [i \in 0..n |-> f[i]]
    BY <1>5
  <2>. QED BY <2>1, <2>2
<1>7. Is(h)
  <2>. HIDE DEF Is
  <2>. QED BY <1>6
<1>8. \A m : NeededBefore(m) = h[m - 1]
  BY DEF NeededBefore, n
<1>. HIDE DEF h
<1>9. h[0] = 0 /\ \A i \in 1..n : h[i] = h[i - 1] + ParametersOf(stmts[i])
  BY <1>1, <1>7
<1>10. \A i \in 0..n : h[i] = f[i]
  <2>1. h[0] = f[0] /\ \A i \in 1..n : h[i - 1] = f[i - 1] => h[i] = f[i]
    BY <1>5, <1>9
  <2>. QED BY ONLY <1>1, <2>1, SameCounter
<1>11. ASSUME NEW m \in 1..n
       PROVE  /\ NeededBefore(m) \in Nat
              /\ NeededBefore(m + 1) = NeededBefore(m) + ParametersOf(stmts[m])
  <2>1. m - 1 \in 0..n /\ (m + 1) - 1 = m
    BY <1>1
  <2>2. NeededBefore(m) = h[m - 1] /\ NeededBefore(m + 1) = h[m]
    BY <1>8, <2>1
  <2>3. h[m - 1] \in Nat
    BY <1>5, <1>10, <2>1
  <2>. QED BY <1>9, <2>2, <2>3
<1>12. NeededBefore(1) = 0
  BY <1>8, <1>9
<1>. QED BY <1>2, <1>11, <1>12 DEF n

(* Nothing has been dealt out, and nothing needed. *)
LEMMA TidyInit == ParamsInit => TidyInv
<1>. SUFFICES ASSUME ParamsInit PROVE TidyInv
  OBVIOUS
<1>1. dealt = <<>> /\ alreadyUsed = 0 /\ DOMAIN dealt = {} /\ Len(dealt) = 0
  BY DEF ParamsInit
<1>2. stmts \in Seq(Statement)
  BY DealingInit DEF DealingInv, ParamsInv
<1>. QED BY <1>1, <1>2, NeededGrows DEF TidyInv

(* The next statement, if all are tidy, gets what SQLite would bind to it. *)
LEMMA TidyDeals ==
  ASSUME DealingInv, TidyInv, Deals
  PROVE  TidyInv'
<1>. DEFINE p == IF ArgsAreNamed THEN ByName ELSE Positional
            d == Len(dealt)
<1>1. /\ Len(dealt') = d + 1 /\ d \in Nat
      /\ DOMAIN dealt = 1..d /\ DOMAIN dealt' = 1..(d + 1)
      /\ \A m \in 1..d : dealt'[m] = dealt[m]
      /\ dealt'[d + 1] = p
  BY DealsAppends
<1>2. /\ UNCHANGED <<stmts, args>> /\ Dealing /\ alreadyUsed' = UsedAfter(p)
      /\ args # <<>> /\ d < Len(stmts) /\ ~IsMalformed(NextStatement)
      /\ stmts \in Seq(Statement) /\ Len(stmts) \in Nat
  BY DEF Deals, Dealing, DealingInv, ParamsInv
<1>3. ArgsAreNamed' = ArgsAreNamed
  BY <1>2 DEF ArgsAreNamed
<1>4. SUFFICES ASSUME ~ArgsAreNamed PROVE TidyInv'
  BY <1>3 DEF TidyInv
<1>5. /\ \A k \in 1..d : ~IsMalformed(stmts[k])
      /\ Sufficed(d) => alreadyUsed = NeededBefore(d + 1)
      /\ \A m \in 1..d : Sufficed(m) =>
           dealt[m].positional = Slice(NeededBefore(m), ParametersOf(stmts[m]))
  BY <1>1, <1>2, <1>4 DEF TidyInv
<1>6. /\ d + 1 \in 1..Len(stmts) /\ NextStatement = stmts[d + 1] /\ NextStatement \in Statement
      /\ alreadyUsed \in Nat /\ Len(args) \in Nat
  BY <1>1, <1>2, <1>4 DEF NextStatement, DealingInv, InTurnInv, ParamsInv
<1>7. PICK have \in Nat : have = NeededBefore(d + 1)
  BY <1>2, <1>6, NeededGrows
<1>8. PICK more \in Nat : more = ParametersOf(stmts[d + 1]) /\ NeededBefore((d + 1) + 1) = have + more
  BY <1>2, <1>6, <1>7, NeededGrows
<1>. HIDE DEF p, d
<1>9. ASSUME Sufficed(d + 1)
      PROVE  p.positional = Slice(have, more) /\ alreadyUsed' = have + more
  <2>1. IsTidy(NextStatement) /\ have + more <= Len(args) /\ \A k \in 1..d : IsTidy(stmts[k])
    <3>1. \A k \in 1..d : k \in 1..(d + 1)
      BY <1>1
    <3>2. d + 1 \in 1..(d + 1)
      BY <1>1
    <3>. QED BY <1>6, <1>8, <1>9, <3>1, <3>2 DEF Sufficed
  <2>2. Sufficed(d)
    BY <1>6, <1>7, <1>8, <2>1 DEF Sufficed
  <2>3. alreadyUsed = have
    BY <1>5, <1>7, <2>2
  <2>4. PositionalParamsCount(NextStatement) = more
    BY <1>2, <1>6, <1>8, <2>1, TidyCount
  <2>5. more <= Left
    BY <1>6, <1>7, <1>8, <2>1, <2>3 DEF Left
  <2>6. p.positional = Slice(have, more)
    BY <1>4, <2>3, <2>4, <2>5 DEF Positional, NoParams, p
  <2>7. Len(p.positional) = more
    BY <1>7, <1>8, <2>6, SliceIs
  <2>. QED BY <1>2, <1>4, <2>3, <2>6, <2>7 DEF UsedAfter, ParamsLen
<1>10. /\ \A m : (NeededBefore(m))' = NeededBefore(m)
       /\ \A m : (Sufficed(m))' <=> Sufficed(m)
  <2>1. \A m : (NeededBefore(m))' = NeededBefore(m)
    BY <1>2 DEF NeededBefore, ParametersOf
  <2>. QED BY <1>2, <2>1 DEF Sufficed
<1>11. ASSUME NEW m \in 1..(d + 1), Sufficed(m)
       PROVE  dealt'[m].positional = Slice(NeededBefore(m), ParametersOf(stmts[m]))
  <2>1. CASE m \in 1..d
    BY <1>1, <1>5, <1>11, <2>1
  <2>2. CASE m = d + 1
    BY <1>1, <1>7, <1>8, <1>9, <1>11, <2>2
  <2>. QED BY <1>1, <2>1, <2>2
<1>12. ASSUME NEW k \in 1..(d + 1) PROVE ~IsMalformed(stmts[k])
  <2>1. k \in 1..d \/ k = d + 1
    BY <1>1
  <2>. QED BY <1>2, <1>5, <1>6, <2>1
<1>13. Sufficed(d + 1) => alreadyUsed' = NeededBefore((d + 1) + 1)
  BY <1>8, <1>9
<1>. QED BY <1>1, <1>2, <1>10, <1>11, <1>12, <1>13 DEF TidyInv

(* Every other step leaves the dealing as it is. *)
LEMMA TidyNext == DealingInv /\ TidyInv /\ [ParamsNext]_paramsVars => TidyInv'
<1>. SUFFICES ASSUME DealingInv, TidyInv, [ParamsNext]_paramsVars PROVE TidyInv'
  OBVIOUS
<1>1. CASE Deals
  BY <1>1, TidyDeals
<1>2. CASE ~Deals
  <2>1. UNCHANGED <<stmts, args, alreadyUsed, dealt>>
    BY <1>2 DEF ParamsNext, NoArgs, RefusesArgs, RefusesStatement, IsDone, ArgsReturned,
                Returns, paramsVars
  <2>2. \A m : (NeededBefore(m))' = NeededBefore(m)
    BY <2>1 DEF NeededBefore, ParametersOf
  <2>3. ArgsAreNamed' = ArgsAreNamed /\ \A m : (Sufficed(m))' <=> Sufficed(m)
    BY <2>1, <2>2 DEF ArgsAreNamed, Sufficed
  <2>. QED BY <2>1, <2>2, <2>3 DEF TidyInv
<1>. QED BY <1>1, <1>2

(* However many statements there are, and parameters in them: tidy texts    *)
(* bind as in SQLite as long as the arguments suffice.                      *)
THEOREM TidyTextsBind == ParamsSpec => []TidyTextsBindAsInSqlite
<1>1. DealingInv /\ TidyInv => TidyTextsBindAsInSqlite
  <2>. SUFFICES ASSUME DealingInv, TidyInv, args # <<>>, ~ArgsAreNamed, NEW m \in DOMAIN dealt,
                       \A k \in 1..m : IsTidy(stmts[k]),
                       NeededBefore(m) + ParametersOf(stmts[m]) <= Len(args)
                PROVE  dealt[m].positional =
                         [i \in 1..ParametersOf(stmts[m]) |-> NeededBefore(m) + i]
    BY DEF TidyTextsBindAsInSqlite
  <2>1. stmts \in Seq(Statement) /\ m \in 1..Len(stmts)
    <3>1. /\ stmts \in Seq(Statement) /\ Len(dealt) <= Len(stmts)
          /\ Len(stmts) \in Nat /\ DOMAIN dealt = 1..Len(dealt) /\ Len(dealt) \in Nat
      BY DEF DealingInv, ParamsInv
    <3>. QED BY <3>1
  <2>2. Sufficed(m)
    BY <2>1, NeededGrows DEF Sufficed
  <2>. QED BY <2>2 DEF TidyInv, Slice
<1>. QED BY TidyInit, TidyNext, DealingInvariance, <1>1, PTL DEF ParamsSpec

-----------------------------------------------------------------------------
(* What an entry point makes of its input, as functions of it: the settings *)
(* once the URL has been read, and the scheme and host dialled.             *)
OptionOr(kind, fromUrl) == IF Given(kind) # Unset THEN Given(kind) ELSE fromUrl

TlsInUrl ==
  IF url.tls = "0" THEN FALSE ELSE IF url.tls = "1" THEN TRUE
  ELSE url.scheme \notin {"http", "ws"}

FinalToken == OptionOr("authToken", UrlToken)
FinalTls == OptionOr("tls", TlsInUrl)

UrlScheme ==
  IF url.scheme # "libsql" THEN url.scheme ELSE IF FinalTls THEN "https" ELSE "http"

DialledScheme ==
  IF Given("proxy") = "http://host" THEN "http"
  ELSE IF Given("proxy") = "ws://host" THEN "ws" ELSE UrlScheme

DialledHost == IF Given("proxy") = Unset THEN "url" ELSE "proxy"

(* Why it may refuse it, in the order of its steps.                         *)
BadTokens == Cardinality(TokensGiven) > 1
BadTls == url.tls = "2"
BadPort == url.scheme = "libsql" /\ ~FinalTls /\ ~url.port
BadScheme ==
  \/ UrlScheme \in {"wss", "https"} /\ ~FinalTls
  \/ UrlScheme \in {"ws", "http"} /\ FinalTls
BadProxy == Given("proxy") # Unset /\ UrlScheme \in {"ws", "wss"}
BadDial == DialledScheme \notin {"ws", "wss", "http", "https"}

IsRefused ==
  BadTokens \/ BadTls \/ url.unknown \/ BadPort \/ BadScheme \/ BadProxy \/ BadDial

ConnectorKind == IF DialledScheme \in {"ws", "wss"} THEN "ws" ELSE "http"

Outcome ==
  IF IsRefused THEN Error
  ELSE [kind |-> ConnectorKind, scheme |-> DialledScheme,
        secure |-> Secure(DialledScheme), host |-> DialledHost, token |-> FinalToken,
        headers |-> IF ConnectorKind = "http" THEN Given("requestHeaders") ELSE Unset]

-----------------------------------------------------------------------------
(* The options applied so far.                                              *)
OptionsInv ==
  /\ opts \in Seq(Option) /\ applied \in 0..Len(opts) /\ errs \in Nat
  /\ via = "NewConnector" /\ errs = 0 =>
       /\ \A i \in 1..applied : opts[i].value # Unset
       /\ \A i, j \in 1..applied : opts[i].kind = opts[j].kind => i = j
  /\ stage = "options" /\ errs = 0 =>
       \A s \in Settings :
         /\ \A i \in 1..applied : opts[i].kind = s => c[s] = opts[i].value
         /\ (\A i \in 1..applied : opts[i].kind # s) => c[s] = Unset

(* The stages after each step.                                              *)
AfterScheme == {"check", "proxy", "select"}
AfterTls == {"unknown", "scheme"} \cup AfterScheme
AfterJwt == {"tls"} \cup AfterTls
AfterOptions == {"jwt"} \cup AfterJwt

(* How far the settings, the scheme and the host are, and what has not been *)
(* refused.                                                                 *)
StepsInv ==
  /\ stage \in AfterOptions =>
       /\ c["authToken"] = IF stage \in AfterJwt THEN FinalToken ELSE Given("authToken")
       /\ c["tls"] = IF stage \in AfterTls THEN FinalTls ELSE Given("tls")
       /\ c["proxy"] = Given("proxy") /\ c["requestHeaders"] = Given("requestHeaders")
       /\ scheme = IF stage = "select" THEN DialledScheme
                   ELSE IF stage \in AfterScheme THEN UrlScheme ELSE url.scheme
       /\ host = IF stage = "select" THEN DialledHost ELSE "url"
  /\ stage \in AfterJwt => ~BadTokens
  /\ stage \in AfterTls => ~BadTls
  /\ stage \in {"scheme"} \cup AfterScheme => ~url.unknown
  /\ stage \in AfterScheme => ~BadPort
  /\ stage \in {"proxy", "select"} => ~BadScheme
  /\ stage = "select" => ~BadProxy

(* What each entry point has returned.                                      *)
ResultsInv ==
  /\ via \in {"NewConnector", "Open"} /\ stage \in {"options", "over"} \cup AfterOptions
  /\ stage = "options" => via = "NewConnector" /\ scheme = url.scheme /\ host = "url"
  /\ via = "Open" => opts = <<>>
  /\ errs # 0 => stage \in {"options", "over"} /\ opts # <<>>
  /\ errs = 0 /\ stage # "options" => applied = Len(opts)
  /\ results = [e \in {"NewConnector", "Open"} |-> results[e]]
  /\ results["NewConnector"] =
       IF via = "NewConnector" /\ stage # "over" THEN NotRun
       ELSE IF errs # 0 THEN Error ELSE Outcome
  /\ results["Open"] = IF via = "Open" /\ stage = "over" THEN Outcome ELSE NotRun

ConfigTypes ==
  /\ url \in Url /\ c = [s \in Settings |-> c[s]] /\ DOMAIN c = Settings

ConfigInv == ConfigTypes /\ OptionsInv /\ StepsInv /\ ResultsInv

(* The input stays, and with it what is to be made of it.                   *)
LEMMA SameInput ==
  ASSUME UNCHANGED <<url, opts>>
  PROVE  /\ \A k : Given(k)' = Given(k)
         /\ UNCHANGED <<UrlToken, FinalToken, FinalTls, UrlScheme, DialledScheme,
                        DialledHost, Outcome>>
         /\ UNCHANGED <<BadTokens, BadTls, BadPort, BadScheme, BadProxy, BadDial>>
<1>1. \A k : Given(k)' = Given(k)
  BY DEF Given
<1>2. TokensGiven' = TokensGiven /\ UrlToken' = UrlToken
  BY DEF TokensGiven, UrlToken
<1>3. UNCHANGED <<FinalToken, FinalTls>>
  BY <1>1, <1>2 DEF FinalToken, FinalTls, OptionOr, TlsInUrl
<1>4. UNCHANGED <<UrlScheme, DialledScheme, DialledHost>>
  BY <1>1, <1>3 DEF UrlScheme, DialledScheme, DialledHost
<1>5. UNCHANGED <<BadTokens, BadTls, BadPort, BadScheme, BadProxy, BadDial>>
  BY <1>1, <1>2, <1>3, <1>4 DEF BadTokens, BadTls, BadPort, BadScheme, BadProxy, BadDial
<1>6. IsRefused' = IsRefused /\ ConnectorKind' = ConnectorKind
  BY <1>4, <1>5 DEF IsRefused, ConnectorKind
<1>7. Outcome' = Outcome
  BY <1>1, <1>3, <1>4, <1>6 DEF Outcome, Secure
<1>. QED BY <1>1, <1>2, <1>3, <1>4, <1>5, <1>7

(* What the program passes.                                                 *)
LEMMA OptionTypes ==
  ASSUME NEW o \in Option
  PROVE  o.kind \in Settings /\ (o.kind = "tls" => o.value \in BOOLEAN)
  BY DEF Option, Settings

LEMMA GivenTypes ==
  ASSUME opts \in Seq(Option), NEW k
  PROVE  /\ Given(k) # Unset => \E i \in DOMAIN opts : opts[i].kind = k /\ opts[i].value = Given(k)
         /\ k = "tls" => Given(k) = Unset \/ Given(k) \in BOOLEAN
<1>. DEFINE at == {i \in DOMAIN opts : opts[i].kind = k}
<1>1. CASE at = {}
  BY <1>1 DEF Given
<1>2. CASE at # {}
  <2>1. PICK i \in at : Given(k) = opts[i].value
    BY <1>2 DEF Given
  <2>2. opts[i] \in Option
    OBVIOUS
  <2>. QED BY <2>1, <2>2, OptionTypes
<1>. QED BY <1>1, <1>2

LEMMA TlsIsDecided ==
  ASSUME opts \in Seq(Option)
  PROVE  FinalTls \in BOOLEAN /\ TlsInUrl \in BOOLEAN
<1>1. TlsInUrl \in BOOLEAN
  BY DEF TlsInUrl
<1>. QED BY <1>1, GivenTypes DEF FinalTls, OptionOr

LEMMA ConfigStart == ConfigInit => ConfigInv
<1>. SUFFICES ASSUME ConfigInit PROVE ConfigInv
  OBVIOUS
<1>1. /\ url \in Url /\ opts \in BoundedSeq(Option, MaxOptions)
      /\ via = "NewConnector" /\ stage = "options" /\ applied = 0 /\ errs = 0
      /\ c = [s \in Settings |-> Unset] /\ scheme = url.scheme /\ host = "url"
      /\ results = [e \in {"NewConnector", "Open"} |-> NotRun]
  BY DEF ConfigInit
<1>2. opts \in Seq(Option) /\ Len(opts) \in Nat
  <2>1. opts \in Seq(Option)
    BY <1>1, ConfigAssumption DEF BoundedSeq, SeqOf
  <2>. QED BY <2>1
<1>3. ConfigTypes
  BY <1>1 DEF ConfigTypes
<1>4. OptionsInv
  BY <1>1, <1>2 DEF OptionsInv
<1>5. StepsInv
  BY <1>1 DEF StepsInv, AfterScheme, AfterTls, AfterJwt, AfterOptions
<1>6. ResultsInv
  BY <1>1 DEF ResultsInv
<1>. QED BY <1>3, <1>4, <1>5, <1>6 DEF ConfigInv

(* One option is applied, or refused.                                       *)
LEMMA AppliesKeeps ==
  ASSUME ConfigInv, AppliesOption
  PROVE  ConfigInv'
<1>1. /\ stage = "options" /\ applied < Len(opts) /\ applied' = applied + 1
      /\ UNCHANGED <<url, opts, via, stage, scheme, host, results>>
  BY DEF AppliesOption, input
<1>. DEFINE n == applied + 1
            o == opts[n]
<1>2. \/ Refused(o) /\ errs' = errs + 1 /\ c' = c
      \/ ~Refused(o) /\ c' = [c EXCEPT ![o.kind] = o.value] /\ errs' = errs
  BY <1>1 DEF AppliesOption
<1>3. /\ opts \in Seq(Option) /\ Len(opts) \in Nat /\ applied \in Nat /\ errs \in Nat
      /\ applied' \in 0..Len(opts) /\ n \in 1..Len(opts)
      /\ via = "NewConnector" /\ results["NewConnector"] = NotRun
      /\ results["Open"] = NotRun /\ scheme = url.scheme /\ host = "url"
      /\ results = [e \in {"NewConnector", "Open"} |-> results[e]]
  BY <1>1 DEF ConfigInv, OptionsInv, ResultsInv
<1>4. o \in Option /\ o.kind \in Settings
  BY <1>3, OptionTypes
<1>5. c = [s \in Settings |-> c[s]] /\ url \in Url
  BY DEF ConfigInv, ConfigTypes
<1>. HIDE DEF o, n
<1>6. ConfigTypes'
  BY <1>1, <1>2, <1>4, <1>5 DEF ConfigTypes
<1>7. StepsInv'
  BY <1>1 DEF StepsInv, AfterScheme, AfterTls, AfterJwt, AfterOptions
<1>8. ResultsInv'
  BY <1>1, <1>3, <1>5 DEF ResultsInv
<1>9. OptionsInv'
  <2>1. CASE Refused(o) /\ errs' = errs + 1
    <3>1. errs' \in Nat /\ errs' # 0
      BY <1>3, <2>1
    <3>. QED BY <1>1, <1>3, <3>1 DEF OptionsInv
  <2>2. CASE ~Refused(o) /\ c' = [c EXCEPT ![o.kind] = o.value] /\ errs' = errs
    <3>. SUFFICES ASSUME errs = 0 PROVE OptionsInv'
      BY <1>1, <1>3, <2>2 DEF OptionsInv
    <3>1. /\ \A i \in 1..applied : opts[i].value # Unset
          /\ \A i, j \in 1..applied : opts[i].kind = opts[j].kind => i = j
          /\ \A s \in Settings :
               /\ \A i \in 1..applied : opts[i].kind = s => c[s] = opts[i].value
               /\ (\A i \in 1..applied : opts[i].kind # s) => c[s] = Unset
      BY <1>1, <1>3 DEF ConfigInv, OptionsInv
    <3>2. c[o.kind] = Unset /\ o.value # Unset
      BY <2>2 DEF Refused
    <3>3. \A i \in 1..applied : opts[i].kind # o.kind
      BY <1>4, <3>1, <3>2
    <3>4. \A i \in 1..n : i \in 1..applied \/ i = n
      BY <1>3 DEF n
    <3>5. \A i \in 1..n : opts[i].value # Unset
      BY <3>1, <3>2, <3>4 DEF o
    <3>6. \A i, j \in 1..n : opts[i].kind = opts[j].kind => i = j
      BY <3>1, <3>3, <3>4 DEF o
    <3>7. c'[o.kind] = o.value /\ \A s \in Settings : s # o.kind => c'[s] = c[s]
      BY <1>4, <1>5, <2>2
    <3>8. ASSUME NEW s \in Settings
          PROVE  /\ \A i \in 1..n : opts[i].kind = s => c'[s] = opts[i].value
                 /\ (\A i \in 1..n : opts[i].kind # s) => c'[s] = Unset
      <4>1. CASE s = o.kind
        <5>1. n \in 1..n
          BY <1>3 DEF n
        <5>2. \A i \in 1..n : opts[i].kind = s => i = n
          BY <3>3, <3>4, <4>1
        <5>. QED BY <3>7, <4>1, <5>1, <5>2 DEF o
      <4>2. CASE s # o.kind
        <5>1. \A i \in 1..applied : i \in 1..n
          BY <1>3 DEF n
        <5>. QED BY <3>1, <3>4, <3>7, <4>2, <5>1 DEF o
      <4>. QED BY <4>1, <4>2
    <3>9. applied' = n
      BY <1>1 DEF n
    <3>. QED BY <1>1, <1>3, <2>2, <3>5, <3>6, <3>8, <3>9 DEF OptionsInv
  <2>. QED BY <1>2, <2>1, <2>2
<1>. QED BY <1>6, <1>7, <1>8, <1>9 DEF ConfigInv

(* The options are all applied: each setting is what was given for it.      *)
LEMMA SettingsAreGiven ==
  ASSUME ConfigInv, stage = "options", applied = Len(opts), errs = 0
  PROVE  \A s \in Settings : c[s] = Given(s)
<1>. SUFFICES ASSUME NEW s \in Settings PROVE c[s] = Given(s)
  OBVIOUS
<1>1. /\ opts \in Seq(Option) /\ DOMAIN opts = 1..applied
      /\ \A i \in 1..applied : opts[i].kind = s => c[s] = opts[i].value
      /\ (\A i \in 1..applied : opts[i].kind # s) => c[s] = Unset
  <2>1. opts \in Seq(Option)
    BY DEF ConfigInv, OptionsInv
  <2>. QED BY <2>1 DEF ConfigInv, OptionsInv
<1>. DEFINE at == {i \in DOMAIN opts : opts[i].kind = s}
<1>2. CASE at = {}
  BY <1>1, <1>2 DEF Given
<1>3. CASE at # {}
  <2>1. PICK i \in at : Given(s) = opts[i].value
    BY <1>3 DEF Given
  <2>. QED BY <1>1, <2>1
<1>. QED BY <1>2, <1>3

(* An entry point that refuses its input.                                   *)
LEMMA RefusalKeeps ==
  ASSUME ConfigInv, stage \in AfterOptions, Fails, IsRefused
  PROVE  ConfigInv'
<1>1. /\ stage' = "over" /\ results' = [results EXCEPT ![via] = Error]
      /\ UNCHANGED <<url, opts, via, applied, errs, c, scheme, host>>
  BY DEF Fails, input
<1>2. stage \notin {"options", "over"}
  BY DEF AfterOptions, AfterJwt, AfterTls, AfterScheme
<1>3. errs = 0 /\ applied = Len(opts) /\ Outcome = Error /\ Outcome' = Outcome
  BY <1>1, <1>2, SameInput DEF ConfigInv, ResultsInv, Outcome
<1>4. ConfigTypes' /\ OptionsInv'
  BY <1>1, <1>3 DEF ConfigInv, ConfigTypes, OptionsInv
<1>5. StepsInv'
  BY <1>1 DEF StepsInv, AfterScheme, AfterTls, AfterJwt, AfterOptions
<1>6. ResultsInv'
  BY <1>1, <1>2, <1>3 DEF ConfigInv, ResultsInv
<1>. QED BY <1>4, <1>5, <1>6 DEF ConfigInv

(* One that goes on.                                                        *)
LEMMA GoingOnKeeps ==
  ASSUME ConfigInv, stage \in AfterOptions, NEW to \in AfterOptions, Goes(to),
         StepsInv', c' = [s \in Settings |-> c'[s]]
  PROVE  ConfigInv'
<1>1. /\ stage' = to
      /\ UNCHANGED <<url, opts, via, applied, errs, results>>
  BY DEF Goes, input
<1>2. to \notin {"options", "over"} /\ stage \notin {"options", "over"}
  BY DEF AfterOptions, AfterJwt, AfterTls, AfterScheme
<1>3. errs = 0 /\ applied = Len(opts) /\ Outcome' = Outcome
  BY <1>1, <1>2, SameInput DEF ConfigInv, ResultsInv
<1>4. ConfigTypes' /\ OptionsInv'
  BY <1>1, <1>2 DEF ConfigInv, ConfigTypes, OptionsInv
<1>5. ResultsInv'
  BY <1>1, <1>2, <1>3 DEF ConfigInv, ResultsInv
<1>. QED BY <1>4, <1>5 DEF ConfigInv

LEMMA OptionsAppliedKeeps ==
  ASSUME ConfigInv, OptionsApplied
  PROVE  ConfigInv'
<1>1. stage = "options" /\ applied = Len(opts) /\ via = "NewConnector"
  BY DEF OptionsApplied, ConfigInv, ResultsInv
<1>2. CASE errs > 0
  <2>1. /\ stage' = "over" /\ results' = [results EXCEPT ![via] = Error]
        /\ UNCHANGED <<url, opts, via, applied, errs, c, scheme, host>>
    BY <1>2 DEF OptionsApplied, Fails, input
  <2>2. errs # 0 /\ opts # <<>>
    BY <1>2 DEF ConfigInv, OptionsInv, ResultsInv
  <2>3. ConfigTypes' /\ OptionsInv'
    BY <2>1, <2>2 DEF ConfigInv, ConfigTypes, OptionsInv
  <2>4. StepsInv'
    BY <2>1 DEF StepsInv, AfterScheme, AfterTls, AfterJwt, AfterOptions
  <2>5. ResultsInv'
    BY <1>1, <2>1, <2>2 DEF ConfigInv, ResultsInv
  <2>. QED BY <2>3, <2>4, <2>5 DEF ConfigInv
<1>3. CASE ~(errs > 0)
  <2>1. /\ stage' = "jwt"
        /\ UNCHANGED <<url, opts, via, applied, errs, results, c, scheme, host>>
    BY <1>3 DEF OptionsApplied, Goes, input
  <2>2. errs = 0
    BY <1>3 DEF ConfigInv, OptionsInv
  <2>3. /\ c["authToken"] = Given("authToken") /\ c["tls"] = Given("tls")
        /\ c["proxy"] = Given("proxy") /\ c["requestHeaders"] = Given("requestHeaders")
    BY <1>1, <2>2, SettingsAreGiven DEF Settings
  <2>4. scheme = url.scheme /\ host = "url"
    BY <1>1 DEF ConfigInv, ResultsInv
  <2>5. StepsInv'
    BY <2>1, <2>3, <2>4, SameInput DEF StepsInv, AfterScheme, AfterTls, AfterJwt, AfterOptions
  <2>6. ConfigTypes' /\ OptionsInv'
    BY <2>1 DEF ConfigInv, ConfigTypes, OptionsInv
  <2>7. ResultsInv'
    BY <1>1, <2>1, <2>2, SameInput DEF ConfigInv, ResultsInv, AfterOptions
  <2>. QED BY <2>5, <2>6, <2>7 DEF ConfigInv
<1>. QED BY <1>2, <1>3

(* config.connector and Driver.Open, step by step.                          *)
LEMMA JwtKeeps ==
  ASSUME ConfigInv, ExtractsJwt
  PROVE  ConfigInv'
<1>. USE DEF AfterScheme, AfterTls, AfterJwt, AfterOptions
<1>1. CASE BadTokens
  <2>1. Fails /\ stage = "jwt"
    BY <1>1 DEF ExtractsJwt, BadTokens
  <2>. QED BY <1>1, <2>1, RefusalKeeps DEF IsRefused
<1>2. CASE ~BadTokens
  <2>1. /\ stage = "jwt" /\ Goes("tls")
        /\ c' = [c EXCEPT !["authToken"] = Chosen(UrlToken, @)]
        /\ UNCHANGED <<scheme, host, url, opts>>
    BY <1>2 DEF ExtractsJwt, BadTokens, Goes, input
  <2>2. c = [s \in Settings |-> c[s]]
    BY DEF ConfigInv, ConfigTypes
  <2>3. /\ c' = [s \in Settings |-> c'[s]]
        /\ c'["authToken"] = Chosen(UrlToken, c["authToken"])
        /\ \A s \in Settings \ {"authToken"} : c'[s] = c[s]
    BY <2>1, <2>2 DEF Settings
  <2>4. c'["authToken"] = FinalToken
    BY <2>1, <2>3 DEF ConfigInv, StepsInv, Chosen, FinalToken, OptionOr
  <2>5. StepsInv'
    BY <1>2, <2>1, <2>3, <2>4, SameInput DEF ConfigInv, StepsInv, Settings, Goes
  <2>. QED BY <2>1, <2>3, <2>5, GoingOnKeeps
<1>. QED BY <1>1, <1>2

LEMMA TlsKeeps ==
  ASSUME ConfigInv, ExtractsTls
  PROVE  ConfigInv'
<1>. USE DEF AfterScheme, AfterTls, AfterJwt, AfterOptions
<1>1. CASE BadTls
  <2>1. Fails /\ stage = "tls"
    BY <1>1 DEF ExtractsTls, BadTls
  <2>. QED BY <1>1, <2>1, RefusalKeeps DEF IsRefused
<1>2. CASE ~BadTls
  <2>1. /\ stage = "tls" /\ Goes("unknown")
        /\ c' = [c EXCEPT !["tls"] = Chosen(UrlTls, @)]
        /\ UNCHANGED <<scheme, host, url, opts>>
    BY <1>2 DEF ExtractsTls, BadTls, Goes, input
  <2>2. c = [s \in Settings |-> c[s]]
    BY DEF ConfigInv, ConfigTypes
  <2>3. /\ c' = [s \in Settings |-> c'[s]]
        /\ c'["tls"] = Chosen(UrlTls, c["tls"])
        /\ \A s \in Settings \ {"tls"} : c'[s] = c[s]
    BY <2>1, <2>2 DEF Settings
  <2>4. UrlTls = TlsInUrl
    <3>1. scheme = url.scheme
      BY <2>1 DEF ConfigInv, StepsInv
    <3>. QED BY <3>1 DEF UrlTls, TlsInUrl, TlsOfScheme
  <2>5. c'["tls"] = FinalTls
    BY <2>1, <2>3, <2>4 DEF ConfigInv, StepsInv, Chosen, FinalTls, OptionOr
  <2>6. StepsInv'
    BY <1>2, <2>1, <2>3, <2>5, SameInput DEF ConfigInv, StepsInv, Settings, Goes
  <2>. QED BY <2>1, <2>3, <2>6, GoingOnKeeps
<1>. QED BY <1>1, <1>2

(* A step that goes on and leaves the settings.                             *)
LEMMA SettingsStay ==
  ASSUME ConfigInv, UNCHANGED c
  PROVE  c' = [s \in Settings |-> c'[s]]
  BY DEF ConfigInv, ConfigTypes

LEMMA UnknownKeeps ==
  ASSUME ConfigInv, RejectsUnknown
  PROVE  ConfigInv'
<1>. USE DEF AfterScheme, AfterTls, AfterJwt, AfterOptions
<1>1. CASE url.unknown
  <2>1. Fails /\ stage = "unknown"
    BY <1>1 DEF RejectsUnknown
  <2>. QED BY <1>1, <2>1, RefusalKeeps DEF IsRefused
<1>2. CASE ~url.unknown
  <2>1. /\ stage = "unknown" /\ Goes("scheme") /\ UNCHANGED <<c, scheme, host, url, opts>>
    BY <1>2 DEF RejectsUnknown, Goes, input
  <2>2. StepsInv'
    BY <1>2, <2>1, SameInput DEF ConfigInv, StepsInv, Goes
  <2>. QED BY <2>1, <2>2, SettingsStay, GoingOnKeeps
<1>. QED BY <1>1, <1>2

LEMMA SchemeKeeps ==
  ASSUME ConfigInv, ResolvesScheme
  PROVE  ConfigInv'
<1>. USE DEF AfterScheme, AfterTls, AfterJwt, AfterOptions
<1>0. stage = "scheme" /\ scheme = url.scheme /\ c["tls"] = FinalTls /\ FinalTls \in BOOLEAN
  BY TlsIsDecided DEF ResolvesScheme, ConfigInv, StepsInv, OptionsInv
<1>1. CASE BadPort
  <2>1. Fails
    BY <1>0, <1>1 DEF ResolvesScheme, BadPort
  <2>. QED BY <1>0, <1>1, <2>1, RefusalKeeps DEF IsRefused
<1>2. CASE ~BadPort
  <2>1. /\ Goes("check") /\ UNCHANGED <<c, host, url, opts>>
        /\ scheme' = UrlScheme
    BY <1>0, <1>2 DEF ResolvesScheme, BadPort, Goes, input, UrlScheme
  <2>2. StepsInv'
    BY <1>0, <1>2, <2>1, SameInput DEF ConfigInv, StepsInv, Goes
  <2>. QED BY <1>0, <2>1, <2>2, SettingsStay, GoingOnKeeps
<1>. QED BY <1>1, <1>2

LEMMA CheckKeeps ==
  ASSUME ConfigInv, ChecksTls
  PROVE  ConfigInv'
<1>. USE DEF AfterScheme, AfterTls, AfterJwt, AfterOptions
<1>0. stage = "check" /\ scheme = UrlScheme /\ c["tls"] = FinalTls /\ FinalTls \in BOOLEAN
  BY TlsIsDecided DEF ChecksTls, ConfigInv, StepsInv, OptionsInv
<1>1. CASE BadScheme
  <2>1. Fails
    BY <1>0, <1>1 DEF ChecksTls, TlsContradicts, BadScheme
  <2>. QED BY <1>0, <1>1, <2>1, RefusalKeeps DEF IsRefused
<1>2. CASE ~BadScheme
  <2>1. Goes("proxy") /\ UNCHANGED <<c, scheme, host, url, opts>>
    BY <1>0, <1>2 DEF ChecksTls, TlsContradicts, BadScheme, Goes, input
  <2>2. StepsInv'
    BY <1>0, <1>2, <2>1, SameInput DEF ConfigInv, StepsInv, Goes
  <2>. QED BY <1>0, <2>1, <2>2, SettingsStay, GoingOnKeeps
<1>. QED BY <1>1, <1>2

LEMMA ProxyKeeps ==
  ASSUME ConfigInv, UsesProxy
  PROVE  ConfigInv'
<1>. USE DEF AfterScheme, AfterTls, AfterJwt, AfterOptions
<1>0. stage = "proxy" /\ scheme = UrlScheme /\ c["proxy"] = Given("proxy") /\ host = "url"
  BY DEF UsesProxy, ConfigInv, StepsInv
<1>1. CASE BadProxy
  <2>1. Fails
    BY <1>0, <1>1 DEF UsesProxy, BadProxy
  <2>. QED BY <1>0, <1>1, <2>1, RefusalKeeps DEF IsRefused
<1>2. CASE ~BadProxy
  <2>1. /\ Goes("select") /\ UNCHANGED <<c, url, opts>>
        /\ scheme' = DialledScheme /\ host' = DialledHost
    BY <1>0, <1>2 DEF UsesProxy, BadProxy, Goes, input, ProxyScheme, DialledScheme, DialledHost
  <2>2. StepsInv'
    BY <1>0, <1>2, <2>1, SameInput DEF ConfigInv, StepsInv, Goes
  <2>. QED BY <1>0, <2>1, <2>2, SettingsStay, GoingOnKeeps
<1>. QED BY <1>1, <1>2

LEMMA SelectKeeps ==
  ASSUME ConfigInv, Selects
  PROVE  ConfigInv'
<1>. USE DEF AfterScheme, AfterTls, AfterJwt, AfterOptions
<1>0. /\ stage = "select" /\ scheme = DialledScheme /\ host = DialledHost
      /\ c["authToken"] = FinalToken /\ c["requestHeaders"] = Given("requestHeaders")
  BY DEF Selects, ConfigInv, StepsInv
<1>1. CASE BadDial
  <2>1. Fails
    BY <1>0, <1>1 DEF Selects, BadDial
  <2>. QED BY <1>0, <1>1, <2>1, RefusalKeeps DEF IsRefused
<1>2. CASE ~BadDial
  <2>1. /\ stage' = "over"
        /\ results' = [results EXCEPT ![via] = Connector(ConnectorKind)]
        /\ UNCHANGED <<url, opts, via, applied, errs, c, scheme, host>>
    BY <1>0, <1>2 DEF Selects, BadDial, input, ConnectorKind
  <2>2. ~IsRefused
    BY <1>0, <1>2 DEF IsRefused, ConfigInv, StepsInv
  <2>3. Connector(ConnectorKind) = Outcome
    BY <1>0, <2>2 DEF Connector, Outcome
  <2>4. errs = 0 /\ applied = Len(opts) /\ Outcome' = Outcome
    BY <1>0, <2>1, SameInput DEF ConfigInv, ResultsInv
  <2>5. ConfigTypes' /\ OptionsInv'
    BY <2>1, <2>4 DEF ConfigInv, ConfigTypes, OptionsInv
  <2>6. StepsInv'
    BY <2>1 DEF StepsInv
  <2>7. ResultsInv'
    BY <1>0, <2>1, <2>3, <2>4 DEF ConfigInv, ResultsInv
  <2>. QED BY <2>5, <2>6, <2>7 DEF ConfigInv
<1>. QED BY <1>1, <1>2

(* Driver.Open begins: nothing was given but the URL.                       *)
LEMMA OpensKeeps ==
  ASSUME ConfigInv, Opens
  PROVE  ConfigInv'
<1>. USE DEF AfterScheme, AfterTls, AfterJwt, AfterOptions
<1>1. /\ via = "NewConnector" /\ stage = "over" /\ opts = <<>>
      /\ via' = "Open" /\ stage' = "jwt" /\ c' = [s \in Settings |-> Unset]
      /\ scheme' = url.scheme /\ host' = "url"
      /\ UNCHANGED <<url, opts, applied, errs, results>>
  BY DEF Opens, input
<1>2. \A k : Given(k) = Unset
  <2>1. DOMAIN opts = {}
    BY <1>1
  <2>. QED BY <2>1 DEF Given
<1>3. errs = 0 /\ applied = Len(opts) /\ Outcome' = Outcome
  BY <1>1, SameInput DEF ConfigInv, ResultsInv
<1>4. ConfigTypes' /\ OptionsInv'
  BY <1>1 DEF ConfigInv, ConfigTypes, OptionsInv
<1>5. StepsInv'
  BY <1>1, <1>2, SameInput DEF StepsInv, Settings
<1>6. ResultsInv'
  BY <1>1, <1>3 DEF ConfigInv, ResultsInv
<1>. QED BY <1>4, <1>5, <1>6 DEF ConfigInv

LEMMA ConfigStep == ConfigInv /\ [ConfigNext]_configVars => ConfigInv'
<1>. SUFFICES ASSUME ConfigInv, [ConfigNext]_configVars PROVE ConfigInv'
  OBVIOUS
<1>1. CASE AppliesOption
  BY <1>1, AppliesKeeps
<1>2. CASE OptionsApplied
  BY <1>2, OptionsAppliedKeeps
<1>3. CASE ExtractsJwt
  BY <1>3, JwtKeeps
<1>4. CASE ExtractsTls
  BY <1>4, TlsKeeps
<1>5. CASE RejectsUnknown
  BY <1>5, UnknownKeeps
<1>6. CASE ResolvesScheme
  BY <1>6, SchemeKeeps
<1>7. CASE ChecksTls
  BY <1>7, CheckKeeps
<1>8. CASE UsesProxy
  BY <1>8, ProxyKeeps
<1>9. CASE Selects
  BY <1>9, SelectKeeps
<1>10. CASE Opens
  BY <1>10, OpensKeeps
<1>11. CASE UNCHANGED configVars
  <2>1. UNCHANGED <<url, opts, via, stage, applied, errs, c, scheme, host, results>>
    BY <1>11 DEF configVars, input
  <2>2. ConfigTypes' /\ OptionsInv'
    BY <2>1 DEF ConfigInv, ConfigTypes, OptionsInv
  <2>3. StepsInv' /\ ResultsInv'
    BY <2>1, SameInput DEF ConfigInv, StepsInv, ResultsInv
  <2>. QED BY <2>2, <2>3 DEF ConfigInv
<1>. QED BY <1>1, <1>2, <1>3, <1>4, <1>5, <1>6, <1>7, <1>8, <1>9, <1>10, <1>11
         DEF ConfigNext, BothReturned

LEMMA ConfigInvariance == ConfigSpec => []ConfigInv
<1>. QED BY ConfigStart, ConfigStep, PTL DEF ConfigSpec

-----------------------------------------------------------------------------
(* An option wins over what the URL says, whatever both say.                *)
THEOREM OptionsWin == ConfigSpec => []OptionWins
<1>1. ConfigInv => OptionWins
  <2>. SUFFICES ASSUME ConfigInv, Succeeded("NewConnector") PROVE OptionWins
    BY DEF OptionWins
  <2>. DEFINE r == results["NewConnector"]
  <2>1. r = Outcome /\ ~IsRefused
    <3>1. r = NotRun \/ r = Error \/ r = Outcome
      BY DEF ConfigInv, ResultsInv
    <3>2. r.kind \in {"ws", "http"} /\ NotRun.kind = "none" /\ Error.kind = "error"
      BY DEF Succeeded, NotRun, Error
    <3>3. r = Outcome /\ r # Error
      BY <3>1, <3>2
    <3>. QED BY <3>3 DEF Outcome
  <2>2. r.token = FinalToken /\ r.scheme = DialledScheme
    BY <2>1 DEF Outcome
  <2>3. r.token = IF Given("authToken") # Unset THEN Given("authToken") ELSE UrlToken
    BY <2>2 DEF FinalToken, OptionOr
  <2>4. ASSUME Given("proxy") = Unset
        PROVE  Secure(r.scheme) <=> IF Given("tls") # Unset THEN Given("tls")
                                    ELSE IF url.tls \in {"0", "1"} THEN url.tls = "1"
                                    ELSE url.scheme \in {"libsql", "https", "wss"}
    <3>1. r.scheme = UrlScheme
      BY <2>2, <2>4, ConfigAssumption DEF DialledScheme
    <3>2. FinalTls \in BOOLEAN
      BY TlsIsDecided DEF ConfigInv, OptionsInv
    <3>3. UrlScheme \in {"ws", "wss", "http", "https"}
      BY <2>1, <2>2, <3>1 DEF IsRefused, BadDial
    <3>4. Secure(UrlScheme) <=> FinalTls
      BY <2>1, <3>2, <3>3 DEF IsRefused, BadScheme, Secure
    <3>5. url.scheme \in Schemes /\ url.scheme # "ftp"
      BY <3>3 DEF ConfigInv, ConfigTypes, Url, UrlScheme
    <3>6. TlsInUrl <=> IF url.tls \in {"0", "1"} THEN url.tls = "1"
                       ELSE url.scheme \in {"libsql", "https", "wss"}
      <4>1. url.scheme \in {"libsql", "https", "wss"} <=> url.scheme \notin {"http", "ws"}
        BY <3>5 DEF Schemes
      <4>. QED BY <4>1 DEF TlsInUrl
    <3>7. CASE Given("tls") # Unset
      <4>1. FinalTls = Given("tls")
        BY <3>7 DEF FinalTls, OptionOr
      <4>. QED BY <3>1, <3>4, <3>7, <4>1, Zenon
    <3>8. CASE Given("tls") = Unset
      <4>1. FinalTls = TlsInUrl
        BY <3>8 DEF FinalTls, OptionOr
      <4>. QED BY <3>1, <3>4, <3>6, <3>8, <4>1, Zenon
    <3>. QED BY <3>7, <3>8
  <2>. QED BY <2>3, <2>4 DEF OptionWins
<1>. QED BY <1>1, ConfigInvariance, PTL

(* sql.Open with a URL makes of it what NewConnector makes of it.           *)
THEOREM EntryPointsAlike == ConfigSpec => []EntryPointsAgree
<1>1. ConfigInv => EntryPointsAgree
  <2>1. via = "Open" /\ ConfigInv => errs = 0
    BY DEF ConfigInv, ResultsInv
  <2>. QED BY <2>1 DEF ConfigInv, ResultsInv, EntryPointsAgree
<1>. QED BY <1>1, ConfigInvariance, PTL
=============================================================================
