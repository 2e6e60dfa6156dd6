---------------------------- MODULE SplitterProofs ----------------------------
(***************************************************************************)
(* For every text: the ring buffer of the tokenizer holds the next three    *)
(* visible tokens, and SplitStatement splits at every semicolon that is not *)
(* inside the body of a trigger.  The second rests on the first, which lets *)
(* a turn of the loop be read as a step from one visible place to the next; *)
(* what is left is a scan of the text by places, and counting.              *)
(***************************************************************************)
EXTENDS Splitter, FiniteSetTheorems, WellFoundedInduction, TLAPS

(* The tokens of the buffer follow each other from index on, and the lexer  *)
(* stands after the last.                                                   *)
RingInv ==
  /\ index \in Buffer
  /\ DOMAIN tokens = Buffer /\ tokens = [k \in Buffer |-> tokens[k]]
  /\ LooksAhead
  /\ source = After(Get(2).at)

(* createBufferedTokenizer fills the ring.                                 *)
LEMMA RingInit == Init => RingInv
<1>. SUFFICES ASSUME Init PROVE RingInv
  OBVIOUS
<1>1. index = 0 /\ Get(0) = tokens[0] /\ Get(1) = tokens[1] /\ Get(2) = tokens[2]
  BY DEF Init, LoadsAll, Get, Size
<1>. DEFINE a == VisibleFrom(1)
            b == VisibleFrom(After(a))
            c == VisibleFrom(After(b))
<1>2. /\ tokens[0] = TokenAt(a) /\ tokens[1] = TokenAt(b) /\ tokens[2] = TokenAt(c)
      /\ tokens = [k \in Buffer |-> tokens[k]]
      /\ source = After(c)
  BY DEF Init, LoadsAll, Buffer, Size
<1>3. /\ TokenAt(a).at = a /\ TokenAt(b).at = b /\ TokenAt(c).at = c
  BY DEF TokenAt
<1>4. ASSUME NEW k \in 0..1
      PROVE  Get(k + 1) = TokenAt(VisibleFrom(After(Get(k).at)))
  <2>1. CASE k = 0
    BY <2>1, <1>1, <1>2, <1>3
  <2>2. CASE k = 1
    BY <2>2, <1>1, <1>2, <1>3
  <2>. QED
    BY <2>1, <2>2, <1>4
<1>. QED
  BY <1>1, <1>2, <1>3, <1>4 DEF RingInv, LooksAhead, Buffer, Size

(* What the text is made of does not change. *)
LEMMA SameText ==
  ASSUME text' = text, NEW i
  PROVE  VisibleFrom(i)' = VisibleFrom(i) /\ TokenAt(i)' = TokenAt(i) /\ After(i)' = After(i)
BY DEF VisibleFrom, TokenAt, After, Type

(* Consume drops the first token and loads the one after the last. *)
LEMMA Shifts ==
  ASSUME RingInv, Consume, text' = text
  PROVE  /\ index' \in Buffer
         /\ tokens' = [k \in Buffer |-> tokens'[k]]
         /\ Get(0)' = Get(1) /\ Get(1)' = Get(2)
         /\ Get(2)' = TokenAt(VisibleFrom(source))
         /\ source' = After(VisibleFrom(source))
<1>1. index \in {0, 1, 2} /\ Buffer = {0, 1, 2} /\ tokens = [k \in Buffer |-> tokens[k]]
  BY DEF RingInv, Buffer, Size
<1>. DEFINE new == TokenAt(VisibleFrom(source))
<1>2. /\ tokens' = [tokens EXCEPT ![index] = new]
      /\ index' = (index + 1) % 3
      /\ source' = After(VisibleFrom(source))
  BY DEF Consume, NextIndex, Size
<1>. HIDE DEF new
<1>3. tokens' = [k \in {0, 1, 2} |-> IF k = index THEN new ELSE tokens[k]]
  BY <1>1, <1>2
<1>4. (0 + 1) % 3 = 1 /\ (1 + 1) % 3 = 2 /\ (2 + 1) % 3 = 0
      /\ (0 + 0) % 3 = 0 /\ (1 + 0) % 3 = 1 /\ (2 + 0) % 3 = 2 /\ (0 + 2) % 3 = 2 /\ (1 + 2) % 3 = 0
      /\ (2 + 2) % 3 = 1
  OBVIOUS
<1>5. \A k \in {0, 1, 2} : Get(k) = tokens[(index + k) % 3] /\ Get(k)' = tokens'[(index' + k) % 3]
  BY DEF Get, Size
<1>6. Get(0)' = Get(1) /\ Get(1)' = Get(2) /\ Get(2)' = new
  <2>1. CASE index = 0
    BY <1>1, <1>2, <1>3, <1>4, <1>5, <2>1
  <2>2. CASE index = 1
    BY <1>1, <1>2, <1>3, <1>4, <1>5, <2>2
  <2>3. CASE index = 2
    BY <1>1, <1>2, <1>3, <1>4, <1>5, <2>3
  <2>. QED
    BY <1>1, <2>1, <2>2, <2>3
<1>7. index' \in {0, 1, 2}
  BY <1>1, <1>2, <1>4
<1>. QED
  BY <1>1, <1>2, <1>3, <1>6, <1>7 DEF new

(* Every turn of the loop of Next keeps the ring in step with the lexer.   *)
LEMMA RingNext == RingInv /\ [Next]_vars => RingInv'
<1>. SUFFICES ASSUME RingInv, [Next]_vars PROVE RingInv'
  OBVIOUS
<1>1. ASSUME Consume, text' = text PROVE RingInv'
  <2>. USE <1>1
  <2>1. ASSUME NEW k \in 0..1
        PROVE  Get(k + 1)' = TokenAt(VisibleFrom(After(Get(k)'.at)))
    <3>1. Get(1) = TokenAt(VisibleFrom(After(Get(0).at)))
          /\ Get(2) = TokenAt(VisibleFrom(After(Get(1).at)))
          /\ source = After(Get(2).at)
      BY DEF RingInv, LooksAhead
    <3>2. k = 0 \/ k = 1
      BY <2>1
    <3>3. (k = 0 => Get(k + 1)' = Get(1)' /\ Get(k)' = Get(0)')
          /\ (k = 1 => Get(k + 1)' = Get(2)' /\ Get(k)' = Get(1)')
      OBVIOUS
    <3>. QED
      BY <3>1, <3>2, <3>3, Shifts
  <2>2. LooksAhead'
    BY <2>1, SameText DEF LooksAhead
  <2>3. source' = After(Get(2).at)'
    <3>1. Get(2)'.at = VisibleFrom(source)
      BY Shifts DEF TokenAt
    <3>2. After(Get(2).at)' = After(VisibleFrom(source))
      BY <3>1, SameText DEF After, Type
    <3>. QED
      BY <3>2, Shifts
  <2>4. DOMAIN tokens' = Buffer
    BY Shifts
  <2>. QED
    BY <2>2, <2>3, <2>4, Shifts DEF RingInv, Buffer, Size
<1>2. ASSUME UNCHANGED <<text, tokenizer>> PROVE RingInv'
  BY <1>2, SameText DEF RingInv, tokenizer, LooksAhead, Get
<1>3. ASSUME NEW type, Turn(type) PROVE RingInv'
  BY <1>1, <1>3 DEF Turn
<1>4. CASE SkipsEmpty \/ Starts \/ TriggerBegins \/ InTrigger \/ GoesOn \/ Ends
  BY <1>3, <1>4 DEF SkipsEmpty, Starts, TriggerBegins, InTrigger, GoesOn, Ends
<1>5. CASE IsOver \/ Over \/ UNCHANGED vars
  BY <1>2, <1>5 DEF IsOver, Over, vars
<1>. QED
  BY <1>4, <1>5 DEF Next

(* Three tokens of look-ahead are always the next three. *)
THEOREM Lookahead == Spec => []LooksAhead
<1>1. RingInv => LooksAhead
  BY DEF RingInv
<1>. QED
  BY RingInit, RingNext, <1>1, PTL DEF Spec

-----------------------------------------------------------------------------
(* The first place of a kind.                                               *)
LEMMA Least ==
  ASSUME NEW S \in SUBSET Nat, S # {}
  PROVE  \E m \in S : \A k \in S : m <= k
<1>. DEFINE Below == OpToRel(<, Nat)
<1>1. PICK m \in S : \A k \in S : ~(<<k, m>> \in Below)
  <2>. HIDE DEF Below
  <2>1. IsWellFoundedOn(Below, Nat)
    BY NatLessThanWellFounded DEF Below
  <2>. QED BY <2>1, WFMin
<1>2. ASSUME NEW k \in S PROVE m <= k
  <2>1. ~(<<k, m>> \in Below)
    BY <1>1
  <2>2. ~(k < m)
    BY <2>1 DEF OpToRel
  <2>. QED BY <2>2
<1>. QED BY <1>2

(* The text and its places, the end among them.                             *)
TextInv == text \in Seq(TokenType)
Places == 1..(Len(text) + 1)

(* Every place has a type, and the one after the last is the end. *)
LEMMA TypeOfPlaces ==
  ASSUME TextInv
  PROVE  /\ Len(text) \in Nat
         /\ \A i \in Places : Type(i) \in TokenType \cup {"EOF"}
         /\ \A i \in Places : Type(i) = "EOF" <=> i = Len(text) + 1
<1>1. Len(text) \in Nat /\ \A i \in 1..Len(text) : text[i] \in TokenType
  BY DEF TextInv
<1>2. "EOF" \notin TokenType
  BY DEF TokenType
<1>. QED BY <1>1, <1>2 DEF Type, Places

(* The first token of the default channel from i on. *)
LEMMA Visible ==
  ASSUME TextInv, NEW i \in Places
  PROVE  /\ VisibleFrom(i) \in i..(Len(text) + 1)
         /\ VisibleFrom(i) \in Places
         /\ Type(VisibleFrom(i)) # "hidden"
         /\ \A k \in i..(VisibleFrom(i) - 1) : Type(k) = "hidden"
<1>1. Len(text) \in Nat /\ i \in Nat
  BY TypeOfPlaces DEF Places
<1>. DEFINE S == {j \in i..(Len(text) + 1) : Type(j) # "hidden"}
<1>2. S \in SUBSET Nat
  BY <1>1
<1>3. Len(text) + 1 \in S
  BY <1>1, TypeOfPlaces DEF Places
<1>. HIDE DEF S
<1>4. PICK m \in S : \A k \in S : m <= k
  BY <1>2, <1>3, Least
<1>5. m \in i..(Len(text) + 1) /\ Type(m) # "hidden"
  BY <1>4 DEF S
<1>6. ASSUME NEW k \in i..(m - 1) PROVE Type(k) = "hidden"
  <2>1. k \notin S
    BY <1>1, <1>4, <1>5
  <2>. QED BY <1>1, <1>5, <2>1 DEF S
<1>7. \E j \in i..(Len(text) + 1) : Type(j) # "hidden" /\ \A k \in i..(j - 1) : Type(k) = "hidden"
  BY <1>5, <1>6
<1>8. /\ VisibleFrom(i) \in i..(Len(text) + 1)
      /\ Type(VisibleFrom(i)) # "hidden"
      /\ \A k \in i..(VisibleFrom(i) - 1) : Type(k) = "hidden"
  BY <1>7 DEF VisibleFrom
<1>. QED BY <1>1, <1>8 DEF Places

(* There is one place where the text stops, and none before it. *)
LEMMA TheLimit ==
  ASSUME TextInv
  PROVE  /\ Limit \in Places /\ StopsAt(Limit)
         /\ \A j \in 1..(Limit - 1) : ~StopsAt(j)
         /\ Type(Limit) \in {"EOF", "div"}
<1>1. Len(text) \in Nat
  BY TypeOfPlaces
<1>. DEFINE S == {i \in Places : StopsAt(i)}
<1>2. S \in SUBSET Nat
  BY <1>1 DEF Places
<1>3. Len(text) + 1 \in S
  BY <1>1, TypeOfPlaces DEF Places, StopsAt
<1>. HIDE DEF S
<1>4. PICK m \in S : \A k \in S : m <= k
  BY <1>2, <1>3, Least
<1>5. m \in Places /\ StopsAt(m)
  BY <1>4 DEF S
<1>6. ASSUME NEW k \in 1..(m - 1) PROVE ~StopsAt(k)
  <2>1. k \notin S
    BY <1>1, <1>4, <1>5 DEF Places
  <2>. QED BY <1>1, <1>5, <2>1 DEF S, Places
<1>7. \E i \in Places : StopsAt(i) /\ \A j \in 1..(i - 1) : ~StopsAt(j)
  BY <1>5, <1>6
<1>8. /\ Limit \in Places /\ StopsAt(Limit)
      /\ \A j \in 1..(Limit - 1) : ~StopsAt(j)
  BY <1>7 DEF Limit, Places
<1>. QED BY <1>8 DEF StopsAt

(* A statement that starts before the limit has one end. *)
LEMMA TheEnd ==
  ASSUME TextInv, NEW i \in 1..(Limit - 1)
  PROVE  /\ EndOf(i) \in (i + 1)..Limit
         /\ EndsAt(i, EndOf(i))
         /\ \A k \in (i + 1)..(EndOf(i) - 1) : ~EndsAt(i, k)
<1>1. Len(text) \in Nat /\ Limit \in Nat /\ i \in Nat /\ i < Limit
  BY TypeOfPlaces, TheLimit DEF Places
<1>. DEFINE S == {j \in (i + 1)..Limit : EndsAt(i, j)}
<1>2. S \in SUBSET Nat
  BY <1>1
<1>3. Limit \in S
  BY <1>1 DEF EndsAt
<1>. HIDE DEF S
<1>4. PICK m \in S : \A k \in S : m <= k
  BY <1>2, <1>3, Least
<1>5. m \in (i + 1)..Limit /\ EndsAt(i, m)
  BY <1>4 DEF S
<1>6. ASSUME NEW k \in (i + 1)..(m - 1) PROVE ~EndsAt(i, k)
  <2>1. k \notin S
    BY <1>1, <1>4, <1>5
  <2>. QED BY <1>1, <1>5, <2>1 DEF S
<1>7. \E j \in (i + 1)..Limit : EndsAt(i, j) /\ \A k \in (i + 1)..(j - 1) : ~EndsAt(i, k)
  BY <1>5, <1>6
<1>. QED BY <1>7 DEF EndOf

(* ... and it is the first place that ends it. *)
LEMMA EndIsFirst ==
  ASSUME TextInv, NEW i \in 1..(Limit - 1), NEW j \in (i + 1)..Limit,
         EndsAt(i, j), \A k \in (i + 1)..(j - 1) : ~EndsAt(i, k)
  PROVE  EndOf(i) = j
<1>1. Limit \in Nat
  BY TypeOfPlaces, TheLimit DEF Places
<1>. DEFINE e == EndOf(i)
<1>2. e \in (i + 1)..Limit /\ EndsAt(i, e) /\ \A k \in (i + 1)..(e - 1) : ~EndsAt(i, k)
  BY TheEnd
<1>. HIDE DEF e
<1>3. ~(e < j) /\ ~(j < e)
  BY <1>1, <1>2
<1>. QED BY <1>1, <1>2, <1>3 DEF e

-----------------------------------------------------------------------------
(* Counting tokens of a type.                                               *)
LEMMA CountIsNat ==
  ASSUME NEW t, NEW i \in Nat, NEW j \in Int
  PROVE  Count(t, i, j) \in Nat
<1>1. IsFiniteSet(i..j)
  BY FS_Interval
<1>2. {k \in i..j : Type(k) = t} \in SUBSET (i..j)
  OBVIOUS
<1>3. IsFiniteSet({k \in i..j : Type(k) = t})
  BY <1>1, <1>2, FS_Subset
<1>. QED BY <1>3, FS_CardinalityType DEF Count

(* None is counted where there is none. *)
LEMMA CountNone ==
  ASSUME NEW t, NEW i \in Nat, NEW j \in Int
  PROVE  Count(t, i, j) = 0 <=> \A k \in i..j : Type(k) # t
<1>1. IsFiniteSet(i..j)
  BY FS_Interval
<1>. DEFINE S == {k \in i..j : Type(k) = t}
<1>2. S \in SUBSET (i..j)
  OBVIOUS
<1>3. S = {} <=> \A k \in i..j : Type(k) # t
  OBVIOUS
<1>4. Count(t, i, j) = Cardinality(S)
  BY DEF Count
<1>. HIDE DEF S
<1>5. IsFiniteSet(S)
  BY <1>1, <1>2, FS_Subset
<1>. QED BY <1>3, <1>4, <1>5, FS_EmptySet

(* Other tokens do not count. *)
LEMMA CountSame ==
  ASSUME NEW t, NEW i \in Nat, NEW j \in Int, NEW m \in Int, j <= m,
         \A k \in (j + 1)..m : Type(k) # t
  PROVE  Count(t, i, m) = Count(t, i, j)
<1>1. {k \in i..m : Type(k) = t} = {k \in i..j : Type(k) = t}
  OBVIOUS
<1>. QED BY <1>1 DEF Count

(* A token counts once. *)
LEMMA CountOneMore ==
  ASSUME NEW t, NEW i \in Nat, NEW j \in Nat, i <= j, Type(j) = t
  PROVE  Count(t, i, j) = Count(t, i, j - 1) + 1
<1>1. IsFiniteSet(i..(j - 1))
  BY FS_Interval
<1>. DEFINE S == {k \in i..(j - 1) : Type(k) = t}
            T == {k \in i..j : Type(k) = t}
<1>2. S \in SUBSET (i..(j - 1)) /\ T = S \cup {j} /\ j \notin S
  OBVIOUS
<1>4. Count(t, i, j - 1) = Cardinality(S) /\ Count(t, i, j) = Cardinality(T)
  BY DEF Count
<1>. HIDE DEF S, T
<1>5. IsFiniteSet(S)
  BY <1>1, <1>2, FS_Subset
<1>. QED BY <1>2, <1>4, <1>5, FS_AddElement

-----------------------------------------------------------------------------
(* Where the iterator stands.                                               *)
At == Get(0).at

PlaceInv ==
  /\ text \in Seq(TokenType) /\ pc \in {"next", "over"}
  /\ Get(0) = TokenAt(At) /\ At \in 1..Limit /\ Type(At) # "hidden"

(* The statement that starts at s goes on at p, after the token at v: it    *)
(* has not ended before.                                                    *)
IsOpen(s, p, v) ==
  /\ s \in 1..(p - 1) /\ Type(s) \notin {"hidden", "scol"}
  /\ v \in s..(p - 1) /\ Type(v) # "hidden"
  /\ \A k \in (v + 1)..(p - 1) : Type(k) = "hidden"
  /\ \A k \in (s + 1)..(p - 1) : ~EndsAt(s, k)

(* The body of its trigger: d counts the ENDs it still needs.               *)
BodyAt(s, p, b) ==
  /\ b \in (s + 1)..(p - 1) /\ Type(b) = "begin"
  /\ \A k \in (s + 1)..(b - 1) : Type(k) # "begin"

Balanced(b, e) == Count("end", b, e) <= Count("case", b, e)

IsInBody(p, b, d) ==
  /\ d \in Nat \ {0}
  /\ d + Count("end", b, p - 1) = 1 + Count("case", b, p - 1)
  /\ \A e \in b..(p - 1) : Balanced(b, e)

IsTriggerOf(s, p, in, saw, d) ==
  /\ ~TriggerAt(s) => ~in /\ ~saw
  /\ TriggerAt(s) /\ ~saw => in /\ \A k \in (s + 1)..(p - 1) : Type(k) # "begin"
  /\ TriggerAt(s) /\ saw =>
       \E b \in (s + 1)..(p - 1) :
         /\ BodyAt(s, p, b)
         /\ in => IsInBody(p, b, d)
         /\ ~in => \E e \in b..(p - 1) : ~Balanced(b, e)

OpenInv == start # 0 => IsOpen(start, At, previous.at)

TriggerInv ==
  /\ inTrigger \in BOOLEAN /\ sawBegin \in BOOLEAN
  /\ start = 0 => ~inTrigger /\ ~sawBegin
  /\ start # 0 => IsTriggerOf(start, At, inTrigger, sawBegin, depth)

(* The statements returned, and what lies between them: r is reached.       *)
OnlyBetween(i, j) == i <= j /\ \A k \in i..(j - 1) : Type(k) \in {"hidden", "scol"}
Closes(st, m) == IF m = 0 THEN 1 ELSE EndOf(st[m][1])

IsReturned(st, m) ==
  /\ Type(st[m][1]) \notin {"hidden", "scol"} /\ st[m][1] \in 1..(Limit - 1)
  /\ st[m][2] < Closes(st, m) /\ Type(st[m][2]) # "hidden"
  /\ \A k \in (st[m][2] + 1)..(Closes(st, m) - 1) : Type(k) = "hidden"

AreDone(st, r) ==
  /\ st \in Seq(Nat \X Nat)
  /\ \A m \in 1..Len(st) : IsReturned(st, m) /\ OnlyBetween(Closes(st, m - 1), st[m][1])
  /\ OnlyBetween(Closes(st, Len(st)), r)

Reached == IF pc = "over" THEN Limit ELSE IF start = 0 THEN At ELSE start
DoneInv == AreDone(statements, Reached)

ScanInv == (pc = "next" => OpenInv /\ TriggerInv) /\ DoneInv
SplitInv == RingInv /\ PlaceInv /\ ScanInv

-----------------------------------------------------------------------------
(* What the three tokens of the buffer say of the place.                    *)
LEMMA Reads ==
  ASSUME RingInv, PlaceInv
  PROVE  /\ This = Type(At)
         /\ (IsEOF \/ AtIncompleteCommentStart) <=> StopsAt(At)
         /\ AtCreateTriggerStart <=> TriggerAt(At)
         /\ Get(1) = TokenAt(VisibleFrom(After(At)))
<1>. DEFINE a == VisibleFrom(After(At))
            b == VisibleFrom(After(a))
<1>1. Get(0) = TokenAt(At)
  BY DEF PlaceInv
<1>2. Get(1) = TokenAt(a)
  <2>1. Get(0 + 1) = TokenAt(VisibleFrom(After(Get(0).at)))
    BY DEF RingInv, LooksAhead
  <2>. QED BY <2>1 DEF At
<1>3. Get(2) = TokenAt(b)
  <2>1. Get(1 + 1) = TokenAt(VisibleFrom(After(Get(1).at)))
    BY DEF RingInv, LooksAhead
  <2>2. Get(1).at = a
    BY <1>2 DEF TokenAt
  <2>. QED BY <2>1, <2>2
<1>4. Get(0).type = Type(At) /\ Get(1).type = Type(a) /\ Get(2).type = Type(b)
  BY <1>1, <1>2, <1>3 DEF TokenAt
<1>5. (IsEOF \/ AtIncompleteCommentStart) <=> StopsAt(At)
  BY <1>4 DEF IsEOF, AtIncompleteCommentStart, StopsAt
<1>6. AtCreateTriggerStart <=> TriggerAt(At)
  BY <1>4 DEF AtCreateTriggerStart, TriggerAt
<1>. QED BY <1>2, <1>4, <1>5, <1>6 DEF This

(* One turn moves to the next visible token, and not past the limit. *)
Moves(p, q) ==
  /\ p \in 1..(Limit - 1) /\ Type(p) # "hidden"
  /\ q \in (p + 1)..Limit /\ Type(q) # "hidden"
  /\ \A k \in (p + 1)..(q - 1) : Type(k) = "hidden"

(* What a text is made of does not change. *)
LEMMA SameMeaning ==
  ASSUME text' = text, NEW i, NEW j
  PROVE  /\ (Type(i))' = Type(i) /\ Limit' = Limit /\ (EndOf(i))' = EndOf(i)
         /\ (StopsAt(i))' <=> StopsAt(i)
         /\ (TriggerAt(i))' <=> TriggerAt(i)
         /\ (EndsAt(i, j))' <=> EndsAt(i, j)
<1>1. (Type(i))' = Type(i)
  BY DEF Type
<1>2. Limit' = Limit /\ ((StopsAt(i))' <=> StopsAt(i))
  BY DEF Limit, StopsAt, VisibleFrom, After, Type
<1>3. (TriggerAt(i))' <=> TriggerAt(i)
  BY DEF TriggerAt, VisibleFrom, After, Type
<1>4. (EndsAt(i, j))' <=> EndsAt(i, j)
  BY DEF EndsAt, Limit, StopsAt, TriggerAt, IsWhole, Count, VisibleFrom, After, Type
<1>5. (EndOf(i))' = EndOf(i)
  BY SMTT(30) DEF EndOf, EndsAt, Limit, StopsAt, TriggerAt, IsWhole, Count,
                  VisibleFrom, After, Type
<1>. QED BY <1>1, <1>2, <1>3, <1>4, <1>5

(* ... nor what is counted in it. *)
LEMMA SameCount ==
  ASSUME text' = text, NEW t, NEW i, NEW j
  PROVE  (Count(t, i, j))' = Count(t, i, j)
  BY DEF Count, Type

(* A turn of the loop of Next leaves the iterator at the next token. *)
LEMMA TurnMoves ==
  ASSUME RingInv, PlaceInv, NEW type, Turn(type)
  PROVE  /\ text' = text /\ pc = "next" /\ pc' = "next" /\ type
         /\ Moves(At, At') /\ PlaceInv'
<1>1. text' = text /\ pc = "next" /\ pc' = "next" /\ type /\ Consume
  BY DEF Turn
<1>2. ~StopsAt(At)
  BY Reads DEF Turn
<1>3. TextInv /\ At \in 1..Limit /\ Type(At) # "hidden"
  BY DEF PlaceInv, TextInv
<1>4. PICK n \in Nat : n = Len(text)
  BY <1>3, TypeOfPlaces
<1>5. PICK l \in 1..(n + 1) : l = Limit
  BY <1>3, <1>4, TheLimit DEF Places
<1>6. StopsAt(l) /\ Type(l) # "hidden"
  BY <1>3, <1>5, TheLimit
<1>7. PICK p \in 1..(l - 1) : p = At
  BY <1>2, <1>3, <1>5, <1>6
<1>8. After(p) = p + 1 /\ p + 1 \in Places
  BY <1>4, <1>5, <1>7 DEF After, Places
<1>9. PICK q \in (p + 1)..(n + 1) : q = VisibleFrom(p + 1)
  BY <1>3, <1>4, <1>8, Visible
<1>10. Type(q) # "hidden" /\ \A k \in (p + 1)..(q - 1) : Type(k) = "hidden"
  BY <1>3, <1>8, <1>9, Visible
<1>11. q \in (p + 1)..l
  BY <1>5, <1>6, <1>7, <1>9, <1>10
<1>12. (Get(0))' = TokenAt(q)
  BY <1>1, <1>7, <1>8, <1>9, Reads, Shifts
<1>13. At' = q
  BY <1>12 DEF At, TokenAt
<1>14. Moves(At, At')
  BY <1>3, <1>5, <1>7, <1>10, <1>11, <1>13 DEF Moves
<1>15. PlaceInv'
  <2>1. (Get(0))' = (TokenAt(At))'
    BY <1>1, <1>12, <1>13, SameText
  <2>2. At' \in 1..Limit' /\ (Type(At))' # "hidden"
    <3>1. (Type(At))' = Type(q) /\ Limit' = Limit
      BY <1>1, <1>13, SameMeaning
    <3>. QED BY <1>5, <1>7, <1>10, <1>11, <1>13, <3>1
  <2>. QED BY <1>1, <2>1, <2>2 DEF PlaceInv
<1>. QED BY <1>1, <1>14, <1>15

-----------------------------------------------------------------------------
(* A turn, on the text alone.                                               *)
LEMMA MovesTypes ==
  ASSUME TextInv, NEW p, NEW q, Moves(p, q)
  PROVE  /\ Limit \in Nat /\ p \in Nat /\ q \in Nat /\ 1 <= p /\ p < q /\ q <= Limit
         /\ Type(p) # "hidden" /\ Type(q) # "hidden"
         /\ \A k \in (p + 1)..(q - 1) : Type(k) = "hidden"
  BY TypeOfPlaces, TheLimit DEF Moves, Places

(* A token that is no semicolon starts a statement. *)
LEMMA OpenStarts ==
  ASSUME TextInv, NEW p, NEW q, Moves(p, q), Type(p) # "scol"
  PROVE  IsOpen(p, q, p)
<1>. USE MovesTypes
<1>1. ASSUME NEW k \in (p + 1)..(q - 1) PROVE ~EndsAt(p, k)
  <2>1. Type(k) = "hidden" /\ k # Limit
    OBVIOUS
  <2>. QED BY <2>1 DEF EndsAt
<1>. QED BY <1>1 DEF IsOpen

(* A token that does not end a statement belongs to it. *)
LEMMA OpenGoesOn ==
  ASSUME TextInv, NEW s, NEW p, NEW q, NEW v, Moves(p, q), IsOpen(s, p, v), ~EndsAt(s, p)
  PROVE  IsOpen(s, q, p)
<1>. USE MovesTypes
<1>0. s \in 1..(p - 1) /\ Type(s) \notin {"hidden", "scol"}
      /\ \A k \in (s + 1)..(p - 1) : ~EndsAt(s, k)
  BY DEF IsOpen
<1>1. ASSUME NEW k \in (p + 1)..(q - 1) PROVE ~EndsAt(s, k)
  <2>1. Type(k) = "hidden" /\ k # Limit
    OBVIOUS
  <2>. QED BY <2>1 DEF EndsAt
<1>2. ASSUME NEW k \in (s + 1)..(q - 1) PROVE ~EndsAt(s, k)
  <2>1. k \in (s + 1)..(p - 1) \/ k = p \/ k \in (p + 1)..(q - 1)
    BY <1>0
  <2>. QED BY <1>0, <1>1, <2>1
<1>3. s \in 1..(q - 1) /\ p \in s..(q - 1)
  BY <1>0
<1>. QED BY <1>0, <1>2, <1>3 DEF IsOpen

(* A trigger is whole when its body is out of balance somewhere. *)
LEMMA WholeMeans ==
  ASSUME NEW s \in Nat, NEW j \in Nat, TriggerAt(s)
  PROVE  IsWhole(s, j) <=>
           \E b \in (s + 1)..(j - 1) :
             BodyAt(s, j, b) /\ \E e \in b..(j - 1) : ~Balanced(b, e)
<1>1. Type(s) # "begin"
  BY DEF TriggerAt
<1>2. ASSUME NEW b \in (s + 1)..(j - 1)
      PROVE  Count("begin", s, b - 1) = 0 <=> \A k \in (s + 1)..(b - 1) : Type(k) # "begin"
  <2>1. Count("begin", s, b - 1) = 0 <=> \A k \in s..(b - 1) : Type(k) # "begin"
    BY CountNone
  <2>2. \A k \in s..(b - 1) : k = s \/ k \in (s + 1)..(b - 1)
    OBVIOUS
  <2>3. \A k \in (s + 1)..(b - 1) : k \in s..(b - 1)
    OBVIOUS
  <2>. QED BY <1>1, <2>1, <2>2, <2>3
<1>3. ASSUME NEW b \in (s + 1)..(j - 1), NEW e \in b..(j - 1)
      PROVE  Count("end", b, e) > Count("case", b, e) <=> ~Balanced(b, e)
  <2>1. Count("end", b, e) \in Nat /\ Count("case", b, e) \in Nat
    BY CountIsNat
  <2>. QED BY <2>1 DEF Balanced
<1>. QED BY <1>2, <1>3 DEF IsWhole, BodyAt

(* The body of a trigger starts at its first BEGIN. *)
LEMMA OneBody ==
  ASSUME NEW s \in Nat, NEW p \in Nat, NEW b \in Nat, NEW c \in Nat,
         BodyAt(s, p, b), BodyAt(s, p, c)
  PROVE  b = c
<1>1. ~(b < c) /\ ~(c < b)
  BY DEF BodyAt
<1>. QED BY <1>1

(* Inside a trigger no semicolon ends the statement. *)
LEMMA InsideIsNotWhole ==
  ASSUME TextInv, NEW s \in Nat, NEW p \in Nat, NEW saw, NEW d,
         IsTriggerOf(s, p, TRUE, saw, d)
  PROVE  TriggerAt(s) /\ ~IsWhole(s, p)
<1>1. TriggerAt(s)
  BY DEF IsTriggerOf
<1>2. SUFFICES ASSUME NEW b \in (s + 1)..(p - 1), BodyAt(s, p, b),
                      NEW e \in b..(p - 1), ~Balanced(b, e)
               PROVE  FALSE
  BY <1>1, WholeMeans
<1>3. CASE ~saw
  BY <1>1, <1>2, <1>3 DEF IsTriggerOf, BodyAt
<1>4. CASE saw
  <2>1. PICK c \in (s + 1)..(p - 1) : BodyAt(s, p, c) /\ IsInBody(p, c, d)
    BY <1>1, <1>4 DEF IsTriggerOf
  <2>2. b = c
    BY <1>2, <2>1, OneBody
  <2>. QED BY <1>2, <2>1, <2>2 DEF IsInBody
<1>. QED BY <1>3, <1>4

(* Outside a trigger, or after its END, every semicolon does. *)
LEMMA OutsideEnds ==
  ASSUME TextInv, NEW s \in Nat, NEW p \in Nat, NEW saw, NEW d,
         IsTriggerOf(s, p, FALSE, saw, d), Type(p) = "scol"
  PROVE  EndsAt(s, p)
<1>1. ASSUME TriggerAt(s) PROVE IsWhole(s, p)
  BY <1>1, WholeMeans DEF IsTriggerOf
<1>. QED BY <1>1 DEF EndsAt

-----------------------------------------------------------------------------
(* A turn, and the body of the trigger.  The look-ahead finds its head.     *)
LEMMA TriggerStarts ==
  ASSUME TextInv, NEW p, NEW q, Moves(p, q), NEW in \in BOOLEAN, NEW d, in <=> TriggerAt(p)
  PROVE  IsTriggerOf(p, q, in, FALSE, d)
<1>1. \A k \in (p + 1)..(q - 1) : Type(k) # "begin"
  BY MovesTypes
<1>. QED BY <1>1 DEF IsTriggerOf

(* The first BEGIN stays the first. *)
LEMMA BodyGoesOn ==
  ASSUME NEW s \in Nat, NEW p \in Nat, NEW q \in Nat, p < q, NEW b, BodyAt(s, p, b)
  PROVE  b \in (s + 1)..(q - 1) /\ BodyAt(s, q, b)
  BY DEF BodyAt

(* The first BEGIN opens the body. *)
LEMMA TriggerBody ==
  ASSUME TextInv, NEW p, NEW q, Moves(p, q), NEW s \in 1..(p - 1), NEW d,
         IsTriggerOf(s, p, TRUE, FALSE, d), Type(p) = "begin"
  PROVE  IsTriggerOf(s, q, TRUE, TRUE, 1)
<1>. USE MovesTypes
<1>1. TriggerAt(s) /\ \A k \in (s + 1)..(p - 1) : Type(k) # "begin"
  BY DEF IsTriggerOf
<1>2. p \in (s + 1)..(q - 1) /\ BodyAt(s, q, p)
  BY <1>1 DEF BodyAt
<1>3. ASSUME NEW e \in p..(q - 1)
      PROVE  Count("end", p, e) = 0 /\ Count("case", p, e) = 0
  <2>1. \A k \in p..e : Type(k) = "begin" \/ Type(k) = "hidden"
    <3>1. ASSUME NEW k \in p..e PROVE Type(k) = "begin" \/ Type(k) = "hidden"
      <4>1. k = p \/ k \in (p + 1)..(q - 1)
        OBVIOUS
      <4>. QED BY <4>1
    <3>. QED BY <3>1
  <2>. QED BY <2>1, CountNone
<1>4. q - 1 \in p..(q - 1)
  OBVIOUS
<1>5. IsInBody(q, p, 1)
  BY <1>3, <1>4 DEF IsInBody, Balanced
<1>. QED BY <1>1, <1>2, <1>5 DEF IsTriggerOf

(* Before it the trigger is at its head. *)
LEMMA TriggerHead ==
  ASSUME TextInv, NEW p, NEW q, Moves(p, q), NEW s \in 1..(p - 1), NEW d,
         IsTriggerOf(s, p, TRUE, FALSE, d), Type(p) # "begin"
  PROVE  IsTriggerOf(s, q, TRUE, FALSE, d)
<1>. USE MovesTypes
<1>1. TriggerAt(s) /\ \A k \in (s + 1)..(p - 1) : Type(k) # "begin"
  BY DEF IsTriggerOf
<1>2. ASSUME NEW k \in (s + 1)..(q - 1) PROVE Type(k) # "begin"
  <2>1. k \in (s + 1)..(p - 1) \/ k = p \/ k \in (p + 1)..(q - 1)
    OBVIOUS
  <2>. QED BY <1>1, <2>1
<1>. QED BY <1>1, <1>2 DEF IsTriggerOf

(* What a turn adds to the counts of a body that is open. *)
LEMMA CountsOfTurn ==
  ASSUME TextInv, NEW p, NEW q, Moves(p, q), NEW b \in 1..(p - 1), NEW t, t # "hidden"
  PROVE  /\ Count(t, b, p - 1) \in Nat
         /\ Type(p) # t => \A e \in p..(q - 1) : Count(t, b, e) = Count(t, b, p - 1)
         /\ Type(p) = t => \A e \in p..(q - 1) : Count(t, b, e) = Count(t, b, p - 1) + 1
<1>. USE MovesTypes
<1>1. Count(t, b, p - 1) \in Nat
  BY CountIsNat
<1>2. ASSUME NEW e \in p..(q - 1)
      PROVE  Count(t, b, e) = Count(t, b, p)
  <2>1. \A k \in (p + 1)..e : Type(k) # t
    OBVIOUS
  <2>. QED BY <2>1, CountSame
<1>3. Type(p) = t => Count(t, b, p) = Count(t, b, p - 1) + 1
  BY CountOneMore
<1>4. Type(p) # t => Count(t, b, p) = Count(t, b, p - 1)
  <2>1. SUFFICES ASSUME Type(p) # t PROVE Count(t, b, p) = Count(t, b, p - 1)
    OBVIOUS
  <2>2. \A k \in ((p - 1) + 1)..p : Type(k) # t
    BY <2>1
  <2>. QED BY <2>2, CountSame
<1>. QED BY <1>1, <1>2, <1>3, <1>4

(* The depth after one more token of the body. *)
DepthAfter(type, d) == CASE type = "case" -> d + 1 [] type = "end" -> d - 1 [] OTHER -> d

(* depth follows the counts, and is spent at the first place out of balance. *)
LEMMA TriggerDepth ==
  ASSUME TextInv, NEW p, NEW q, Moves(p, q), NEW s \in 1..(p - 1), NEW d,
         IsTriggerOf(s, p, TRUE, TRUE, d), 
         NEW d2, d2 = DepthAfter(Type(p), d), NEW in \in BOOLEAN, in <=> ~(Type(p) = "end" /\ d = 1)
  PROVE  IsTriggerOf(s, q, in, TRUE, d2)
<1>. USE MovesTypes
<1>1. TriggerAt(s)
  BY DEF IsTriggerOf
<1>2. PICK b \in (s + 1)..(p - 1) : BodyAt(s, p, b) /\ IsInBody(p, b, d)
  BY <1>1 DEF IsTriggerOf
<1>3. b \in (s + 1)..(q - 1) /\ BodyAt(s, q, b) /\ b \in 1..(p - 1)
  BY <1>2, BodyGoesOn
<1>4. PICK x \in Nat : x = Count("end", b, p - 1)
  BY <1>3, CountsOfTurn
<1>5. PICK y \in Nat : y = Count("case", b, p - 1)
  BY <1>3, CountsOfTurn
<1>6. d \in Nat \ {0} /\ d + x = 1 + y /\ \A e \in b..(p - 1) : Balanced(b, e)
  BY <1>2, <1>4, <1>5 DEF IsInBody
<1>. DEFINE xx == IF Type(p) = "end" THEN x + 1 ELSE x
            yy == IF Type(p) = "case" THEN y + 1 ELSE y
<1>7. \A e \in p..(q - 1) : Count("end", b, e) = xx /\ Count("case", b, e) = yy
  BY <1>3, <1>4, <1>5, CountsOfTurn
<1>8. p \in p..(q - 1) /\ q - 1 \in p..(q - 1) /\ p \in b..(q - 1)
  BY <1>3
<1>9. ASSUME in PROVE IsInBody(q, b, d2)
  <2>1. d2 \in Nat \ {0} /\ d2 + xx = 1 + yy /\ xx <= yy
    BY <1>6, <1>9 DEF DepthAfter
  <2>2. ASSUME NEW e \in b..(q - 1) PROVE Balanced(b, e)
    <3>1. e \in b..(p - 1) \/ e \in p..(q - 1)
      BY <1>3
    <3>. QED BY <1>6, <1>7, <2>1, <3>1 DEF Balanced
  <2>. QED BY <1>7, <1>8, <2>1, <2>2 DEF IsInBody
<1>10. ASSUME ~in PROVE \E e \in b..(q - 1) : ~Balanced(b, e)
  <2>1. xx = yy + 1 /\ yy \in Nat
    BY <1>6, <1>10
  <2>2. ~Balanced(b, p)
    BY <1>7, <1>8, <2>1 DEF Balanced
  <2>. QED BY <1>8, <2>2
<1>. QED BY <1>1, <1>3, <1>9, <1>10 DEF IsTriggerOf

(* A trigger that is over stays over. *)
LEMMA TriggerOver ==
  ASSUME TextInv, NEW p, NEW q, Moves(p, q), NEW s \in 1..(p - 1), NEW saw, NEW d,
         IsTriggerOf(s, p, FALSE, saw, d)
  PROVE  IsTriggerOf(s, q, FALSE, saw, d)
<1>. USE MovesTypes
<1>1. TriggerAt(s) => saw
  BY DEF IsTriggerOf
<1>2. ASSUME TriggerAt(s), saw
      PROVE  \E b \in (s + 1)..(q - 1) : BodyAt(s, q, b) /\ \E e \in b..(q - 1) : ~Balanced(b, e)
  <2>1. PICK b \in (s + 1)..(p - 1) : BodyAt(s, p, b) /\ \E e \in b..(p - 1) : ~Balanced(b, e)
    BY <1>2 DEF IsTriggerOf
  <2>2. \A e \in b..(p - 1) : e \in b..(q - 1)
    OBVIOUS
  <2>. QED BY <2>1, <2>2, BodyGoesOn
<1>. QED BY <1>1, <1>2 DEF IsTriggerOf

-----------------------------------------------------------------------------
(* The statements returned.  Between them there may be more that is empty.  *)
LEMMA DoneGoesOn ==
  ASSUME TextInv, NEW st, NEW r \in Nat, NEW q \in Nat, AreDone(st, r), r <= q,
         \A k \in r..(q - 1) : Type(k) \in {"hidden", "scol"}
  PROVE  AreDone(st, q)
<1>. DEFINE c == Closes(st, Len(st))
<1>1. OnlyBetween(c, r)
  BY DEF AreDone
<1>2. c \in Nat
  <2>1. CASE Len(st) = 0
    BY <2>1 DEF Closes
  <2>2. CASE Len(st) # 0
    <3>1. Len(st) \in 1..Len(st)
      BY <2>2 DEF AreDone
    <3>2. st[Len(st)][1] \in 1..(Limit - 1) /\ c = EndOf(st[Len(st)][1])
      BY <2>2, <3>1 DEF AreDone, IsReturned, Closes
    <3>. QED BY <3>2, TheEnd, TheLimit, TypeOfPlaces DEF Places
  <2>. QED BY <2>1, <2>2
<1>. HIDE DEF c
<1>3. ASSUME NEW k \in c..(q - 1) PROVE Type(k) \in {"hidden", "scol"}
  <2>1. k \in c..(r - 1) \/ k \in r..(q - 1)
    BY <1>2
  <2>. QED BY <1>1, <2>1 DEF OnlyBetween
<1>4. OnlyBetween(c, q)
  BY <1>1, <1>2, <1>3 DEF OnlyBetween
<1>. QED BY <1>4 DEF AreDone, c

(* A semicolon where the scan stands is passed over. *)
LEMMA DonePassesSemicolon ==
  ASSUME TextInv, NEW st, NEW p, NEW q, Moves(p, q), Type(p) = "scol", AreDone(st, p)
  PROVE  AreDone(st, q)
<1>. USE MovesTypes
<1>1. ASSUME NEW k \in p..(q - 1) PROVE Type(k) \in {"hidden", "scol"}
  <2>1. k = p \/ k \in (p + 1)..(q - 1)
    OBVIOUS
  <2>. QED BY <2>1
<1>. QED BY <1>1, DoneGoesOn

(* A statement that ends where the scan stands is returned. *)
LEMMA DoneReturns ==
  ASSUME TextInv, NEW st, NEW s, NEW p \in 1..Limit, NEW v,
         AreDone(st, s), IsOpen(s, p, v), EndsAt(s, p)
  PROVE  AreDone(st \o <<<<s, v>>>>, p)
<1>1. Limit \in Nat /\ p \in Nat /\ s \in 1..(p - 1) /\ s \in Nat /\ v \in Nat
      /\ s \in 1..(Limit - 1) /\ p \in (s + 1)..Limit /\ v < p
  BY TheLimit, TypeOfPlaces DEF IsOpen, Places
<1>2. EndOf(s) = p
  BY <1>1, EndIsFirst DEF IsOpen
<1>3. PICK n \in Nat : n = Len(st)
  BY DEF AreDone
<1>. DEFINE new == st \o <<<<s, v>>>>
<1>4. /\ new \in Seq(Nat \X Nat) /\ Len(new) = n + 1
      /\ \A m \in 1..n : new[m] = st[m]
      /\ new[n + 1] = <<s, v>>
  BY <1>1, <1>3 DEF AreDone
<1>. HIDE DEF new
<1>5. new[n + 1][1] = s /\ new[n + 1][2] = v
  BY <1>4
<1>6. \A m \in 0..n : Closes(new, m) = Closes(st, m)
  BY <1>4 DEF Closes
<1>7. Closes(new, n + 1) = p
  BY <1>2, <1>5 DEF Closes
<1>8. ASSUME NEW m \in 1..n
      PROVE  IsReturned(new, m) /\ OnlyBetween(Closes(new, m - 1), new[m][1])
  <2>1. IsReturned(st, m) /\ OnlyBetween(Closes(st, m - 1), st[m][1])
    BY <1>3 DEF AreDone
  <2>2. new[m] = st[m] /\ Closes(new, m) = Closes(st, m) /\ Closes(new, m - 1) = Closes(st, m - 1)
    BY <1>4, <1>6
  <2>. QED BY <2>1, <2>2 DEF IsReturned
<1>9. IsReturned(new, n + 1)
  BY <1>1, <1>5, <1>7 DEF IsReturned, IsOpen
<1>10. OnlyBetween(Closes(new, (n + 1) - 1), new[n + 1][1])
  <2>1. Closes(new, (n + 1) - 1) = Closes(st, n)
    BY <1>6
  <2>. QED BY <1>3, <1>5, <2>1 DEF AreDone
<1>11. OnlyBetween(p, p)
  BY <1>1 DEF OnlyBetween
<1>12. \A m \in 1..(n + 1) : m \in 1..n \/ m = n + 1
  OBVIOUS
<1>13. AreDone(new, p)
  BY <1>4, <1>7, <1>8, <1>9, <1>10, <1>11, <1>12 DEF AreDone
<1>. QED BY <1>13 DEF new

(* At the end nothing is left but what SplitsAtEveryEnd says. *)
LEMMA DoneSplits ==
  ASSUME TextInv, SplitInv
  PROVE  SplitsAtEveryEnd
<1>1. SUFFICES ASSUME pc = "over" PROVE SplitsAtEveryEnd
  BY DEF SplitsAtEveryEnd
<1>2. AreDone(statements, Limit)
  BY <1>1 DEF SplitInv, ScanInv, DoneInv, Reached
<1>. DEFINE n == Len(statements)
            From(m) == IF m > n THEN Limit ELSE statements[m][1]
            To(m) == IF m = 0 THEN 1 ELSE EndOf(From(m))
<1>3. n \in Nat
  BY <1>2 DEF AreDone
<1>4. \A m \in 0..n : To(m) = Closes(statements, m)
  BY <1>3 DEF Closes
<1>5. ASSUME NEW m \in 1..n
      PROVE  /\ Type(From(m)) \notin {"hidden", "scol"}
             /\ statements[m][2] < To(m) /\ Type(statements[m][2]) # "hidden"
             /\ \A k \in (statements[m][2] + 1)..(To(m) - 1) : Type(k) = "hidden"
  BY <1>2, <1>3, <1>4 DEF AreDone, IsReturned
<1>6. ASSUME NEW m \in 0..n
      PROVE  /\ To(m) <= From(m + 1)
             /\ \A k \in To(m)..(From(m + 1) - 1) : Type(k) \in {"hidden", "scol"}
  <2>1. CASE m = n
    BY <1>2, <1>3, <1>4, <2>1 DEF AreDone, OnlyBetween
  <2>2. CASE m < n
    <3>1. m + 1 \in 1..n /\ From(m + 1) = statements[m + 1][1] /\ (m + 1) - 1 = m
      BY <1>3, <2>2
    <3>2. OnlyBetween(Closes(statements, (m + 1) - 1), statements[m + 1][1])
      BY <1>2, <3>1 DEF AreDone
    <3>. QED BY <1>4, <3>1, <3>2 DEF OnlyBetween
  <2>. QED BY <1>3, <2>1, <2>2
<1>. QED BY <1>5, <1>6 DEF SplitsAtEveryEnd

-----------------------------------------------------------------------------
(* The invariant of the scan.  What it says of a text stays true of it.     *)
LEMMA SameScan ==
  ASSUME text' = text, NEW s, NEW p, NEW v, NEW in, NEW saw, NEW d, NEW st
  PROVE  /\ (IsOpen(s, p, v))' <=> IsOpen(s, p, v)
         /\ (IsTriggerOf(s, p, in, saw, d))' <=> IsTriggerOf(s, p, in, saw, d)
         /\ (AreDone(st, p))' <=> AreDone(st, p)
<1>1. (IsOpen(s, p, v))' <=> IsOpen(s, p, v)
  BY SameMeaning DEF IsOpen
<1>2. (IsTriggerOf(s, p, in, saw, d))' <=> IsTriggerOf(s, p, in, saw, d)
  <2>1. \A b : (BodyAt(s, p, b))' <=> BodyAt(s, p, b)
    BY SameMeaning DEF BodyAt
  <2>2. \A b, e : (Balanced(b, e))' <=> Balanced(b, e)
    BY SameCount DEF Balanced
  <2>3. \A b : (IsInBody(p, b, d))' <=> IsInBody(p, b, d)
    BY SameCount, <2>2 DEF IsInBody
  <2>. QED BY SameMeaning, <2>1, <2>2, <2>3 DEF IsTriggerOf
<1>3. (AreDone(st, p))' <=> AreDone(st, p)
  <2>1. \A i : (Type(i))' = Type(i) /\ (EndOf(i))' = EndOf(i)
    BY SameMeaning
  <2>2. Limit' = Limit
    BY SameMeaning
  <2>3. \A m : (Closes(st, m))' = Closes(st, m)
    BY <2>1 DEF Closes
  <2>4. \A m : (IsReturned(st, m))' <=> IsReturned(st, m)
    BY <2>1, <2>2, <2>3 DEF IsReturned
  <2>5. \A i, j : (OnlyBetween(i, j))' <=> OnlyBetween(i, j)
    BY <2>1 DEF OnlyBetween
  <2>. QED BY <2>3, <2>4, <2>5 DEF AreDone
<1>. QED BY <1>1, <1>2, <1>3

(* SplitStatement starts at the first visible token. *)
LEMMA SplitInit == ASSUME Init PROVE SplitInv
<1>1. TextInv /\ text \in Seq(TokenType) /\ pc = "next" /\ start = 0
      /\ statements = <<>> /\ inTrigger = FALSE /\ sawBegin = FALSE
  BY SplitterAssumption DEF Init, TextInv
<1>2. Get(0) = TokenAt(VisibleFrom(1))
  BY DEF Init, LoadsAll, Get, Size, Buffer
<1>3. At = VisibleFrom(1) /\ Get(0) = TokenAt(At)
  BY <1>2 DEF At, TokenAt
<1>4. PICK n \in Nat : n = Len(text)
  BY <1>1, TypeOfPlaces
<1>5. PICK l \in 1..(n + 1) : l = Limit /\ Type(l) # "hidden"
  BY <1>1, <1>4, TheLimit DEF Places
<1>6. PICK p \in 1..(n + 1) : p = At
  BY <1>1, <1>3, <1>4, Visible DEF Places
<1>7. Type(p) # "hidden" /\ \A k \in 1..(p - 1) : Type(k) = "hidden"
  BY <1>1, <1>3, <1>4, <1>6, Visible DEF Places
<1>8. p \in 1..l
  BY <1>5, <1>6, <1>7
<1>9. PlaceInv
  BY <1>1, <1>3, <1>5, <1>6, <1>7, <1>8 DEF PlaceInv
<1>10. AreDone(<<>>, p)
  BY <1>7 DEF AreDone, Closes, OnlyBetween
<1>11. ScanInv
  BY <1>1, <1>6, <1>10 DEF ScanInv, OpenInv, TriggerInv, DoneInv, Reached
<1>. QED BY <1>9, <1>11, RingInit DEF SplitInv

(* What holds after a turn, said of the places before it and after it. *)
LEMMA TurnKeeps ==
  ASSUME RingInv, PlaceInv, NEW type, Turn(type),
         (start' # 0 => IsOpen(start', At', previous'.at)),
         inTrigger' \in BOOLEAN, sawBegin' \in BOOLEAN,
         (start' = 0 => ~inTrigger' /\ ~sawBegin'),
         (start' # 0 => IsTriggerOf(start', At', inTrigger', sawBegin', depth')),
         AreDone(statements', IF start' = 0 THEN At' ELSE start')
  PROVE  ScanInv'
<1>1. text' = text /\ pc' = "next"
  BY TurnMoves
<1>2. OpenInv'
  <2>1. start' # 0 => (IsOpen(start, At, previous.at))'
    BY <1>1, SameScan
  <2>. QED BY <2>1 DEF OpenInv
<1>3. TriggerInv'
  <2>1. start' # 0 => (IsTriggerOf(start, At, inTrigger, sawBegin, depth))'
    BY <1>1, SameScan
  <2>. QED BY <2>1 DEF TriggerInv
<1>4. DoneInv'
  <2>1. Reached' = IF start' = 0 THEN At' ELSE start'
    BY <1>1 DEF Reached
  <2>2. (AreDone(statements, Reached))'
    BY <1>1, <2>1, SameScan
  <2>. QED BY <2>2 DEF DoneInv
<1>. QED BY <1>2, <1>3, <1>4 DEF ScanInv

(* What holds before a turn. *)
LEMMA BeforeTurn ==
  ASSUME SplitInv, NEW type, Turn(type)
  PROVE  /\ TextInv /\ RingInv /\ PlaceInv /\ type
         /\ Moves(At, At') /\ At \in Nat /\ At' \in Nat /\ At \in 1..Limit /\ At # Limit
         /\ This = Type(At) /\ Get(0).at = At
         /\ AtCreateTriggerStart <=> TriggerAt(At)
         /\ AreDone(statements, IF start = 0 THEN At ELSE start)
         /\ inTrigger \in BOOLEAN /\ sawBegin \in BOOLEAN
         /\ start = 0 => ~inTrigger /\ ~sawBegin
         /\ start # 0 => /\ IsOpen(start, At, previous.at)
                         /\ start \in 1..(At - 1)
                         /\ IsTriggerOf(start, At, inTrigger, sawBegin, depth)
<1>1. TextInv /\ RingInv /\ PlaceInv /\ type /\ pc = "next" /\ Moves(At, At')
  BY TurnMoves DEF SplitInv, PlaceInv, TextInv
<1>2. At \in Nat /\ At' \in Nat /\ At \in 1..Limit /\ At # Limit
  BY <1>1, MovesTypes DEF PlaceInv
<1>3. This = Type(At) /\ (AtCreateTriggerStart <=> TriggerAt(At))
  BY <1>1, Reads
<1>4. OpenInv /\ TriggerInv /\ AreDone(statements, IF start = 0 THEN At ELSE start)
  BY <1>1 DEF SplitInv, ScanInv, DoneInv, Reached
<1>. QED BY <1>1, <1>2, <1>3, <1>4 DEF OpenInv, TriggerInv, IsOpen, At

(* The turns, one by one. *)
LEMMA AfterEmpty == ASSUME SplitInv, SkipsEmpty PROVE ScanInv'
<1>1. Turn(start = 0 /\ This = "scol") /\ UNCHANGED <<locals, statements>>
  BY DEF SkipsEmpty
<1>2. start = 0 /\ Type(At) = "scol" /\ AreDone(statements, At) /\ ~inTrigger /\ ~sawBegin
  BY <1>1, BeforeTurn
<1>3. TextInv /\ Moves(At, At') /\ At \in Nat /\ At' \in Nat
  BY <1>1, BeforeTurn
<1>5. AreDone(statements, At')
  BY <1>2, <1>3, DonePassesSemicolon
<1>6. UNCHANGED <<start, inTrigger, sawBegin, statements>>
  BY <1>1 DEF locals
<1>7. inTrigger' \in BOOLEAN /\ sawBegin' \in BOOLEAN
  BY <1>1, <1>6, BeforeTurn
<1>. QED BY <1>1, <1>2, <1>5, <1>6, <1>7, BeforeTurn, TurnKeeps

(* A statement starts, with the head of a trigger or without. *)
LEMMA AfterStart == ASSUME SplitInv, Starts PROVE ScanInv'
<1>1. /\ Turn(start = 0 /\ This # "scol")
      /\ inTrigger' = AtCreateTriggerStart /\ start' = Get(0).at /\ previous' = Get(0)
      /\ UNCHANGED <<sawBegin, depth, statements>>
  BY DEF Starts
<1>2. start = 0 /\ Type(At) # "scol" /\ AreDone(statements, At) /\ ~sawBegin
  BY <1>1, BeforeTurn
<1>3. TextInv /\ Moves(At, At') /\ At \in Nat /\ At' \in Nat /\ Get(0).at = At /\ At \in 1..Limit
  BY <1>1, BeforeTurn
<1>4. start' = At /\ previous'.at = At /\ At # 0 /\ start' # 0
  BY <1>1, <1>3, MovesTypes
<1>5. IsOpen(At, At', At)
  BY <1>2, <1>3, OpenStarts
<1>6. inTrigger' \in BOOLEAN
  BY <1>1 DEF AtCreateTriggerStart
<1>7. inTrigger' <=> TriggerAt(At)
  BY <1>1, BeforeTurn
<1>8. IsTriggerOf(At, At', inTrigger', FALSE, depth')
  BY <1>3, <1>6, <1>7, TriggerStarts
<1>9. sawBegin' = FALSE
  BY <1>1, <1>2, BeforeTurn
<1>10. RingInv /\ PlaceInv
  BY <1>1, BeforeTurn
<1>. QED BY <1>1, <1>2, <1>4, <1>5, <1>6, <1>8, <1>9, <1>10, TurnKeeps

(* Turns inside a statement leave the ones returned alone. *)
LEMMA AfterInner ==
  ASSUME SplitInv, NEW type, Turn(type), start # 0, ~EndsAt(start, At),
         previous' = Get(0), UNCHANGED <<start, statements>>,
         inTrigger' \in BOOLEAN, sawBegin' \in BOOLEAN,
         IsTriggerOf(start, At', inTrigger', sawBegin', depth')
  PROVE  ScanInv'
<1>1. TextInv /\ Moves(At, At') /\ Get(0).at = At /\ RingInv /\ PlaceInv
      /\ IsOpen(start, At, previous.at) /\ AreDone(statements, start)
  BY BeforeTurn
<1>2. IsOpen(start, At', At)
  BY <1>1, OpenGoesOn
<1>3. previous'.at = At /\ start' = start /\ statements' = statements
  BY <1>1
<1>. QED BY <1>1, <1>2, <1>3, TurnKeeps

(* The body of a trigger begins. *)
LEMMA AfterBegin == ASSUME SplitInv, TriggerBegins PROVE ScanInv'
<1>1. /\ Turn(start # 0 /\ inTrigger /\ ~sawBegin /\ This = "begin")
      /\ sawBegin' = TRUE /\ depth' = 1 /\ previous' = Get(0)
      /\ UNCHANGED <<inTrigger, start, statements>>
  BY DEF TriggerBegins
<1>2. start # 0 /\ inTrigger = TRUE /\ sawBegin = FALSE /\ Type(At) = "begin"
  BY <1>1, BeforeTurn
<1>3. TextInv /\ Moves(At, At') /\ start \in 1..(At - 1) /\ At # Limit
      /\ IsTriggerOf(start, At, TRUE, FALSE, depth)
  BY <1>1, <1>2, BeforeTurn
<1>4. IsTriggerOf(start, At', TRUE, TRUE, 1)
  BY <1>2, <1>3, TriggerBody
<1>5. ~EndsAt(start, At)
  BY <1>2, <1>3 DEF EndsAt
<1>. QED BY <1>1, <1>2, <1>4, <1>5, AfterInner

(* In the head of a trigger, or in its body. *)
LEMMA AfterTrigger == ASSUME SplitInv, InTrigger PROVE ScanInv'
<1>1. /\ Turn(start # 0 /\ inTrigger /\ ~(~sawBegin /\ This = "begin"))
      /\ depth' = CASE sawBegin /\ This = "case" -> depth + 1
                    [] sawBegin /\ This = "end"  -> depth - 1
                    [] OTHER -> depth
      /\ inTrigger' = ~(sawBegin /\ This = "end" /\ depth = 1)
      /\ previous' = Get(0) /\ UNCHANGED <<sawBegin, start, statements>>
  BY DEF InTrigger, AfterCase
<1>2. start # 0 /\ inTrigger = TRUE /\ sawBegin \in BOOLEAN /\ This = Type(At)
      /\ (sawBegin \/ Type(At) # "begin")
  BY <1>1, BeforeTurn
<1>3. TextInv /\ Moves(At, At') /\ start \in 1..(At - 1) /\ At # Limit
      /\ IsTriggerOf(start, At, TRUE, sawBegin, depth)
  BY <1>1, <1>2, BeforeTurn
<1>4. ~EndsAt(start, At)
  <2>1. start \in Nat /\ At \in Nat
    BY <1>1, <1>3, BeforeTurn
  <2>2. TriggerAt(start) /\ ~IsWhole(start, At)
    BY <1>3, <2>1, InsideIsNotWhole
  <2>. QED BY <1>3, <2>2 DEF EndsAt
<1>5. inTrigger' \in BOOLEAN
  BY <1>1
<1>6. IsTriggerOf(start, At', inTrigger', sawBegin', depth')
  <2>1. CASE sawBegin
    <3>1. /\ depth' = DepthAfter(Type(At), depth)
          /\ inTrigger' <=> ~(Type(At) = "end" /\ depth = 1)
          /\ sawBegin = TRUE /\ sawBegin' = TRUE
      BY <1>1, <1>2, <2>1 DEF DepthAfter
    <3>. QED BY <1>3, <1>5, <3>1, TriggerDepth
  <2>2. CASE ~sawBegin
    <3>1. depth' = depth /\ inTrigger' = TRUE /\ sawBegin = FALSE /\ sawBegin' = FALSE
      BY <1>1, <1>2, <2>2
    <3>. QED BY <1>2, <1>3, <2>2, <3>1, TriggerHead
  <2>. QED BY <2>1, <2>2
<1>7. sawBegin' \in BOOLEAN
  BY <1>1, <1>2
<1>. QED BY <1>1, <1>2, <1>4, <1>5, <1>6, <1>7, AfterInner

(* A statement goes on outside a trigger. *)
LEMMA AfterWord == ASSUME SplitInv, GoesOn PROVE ScanInv'
<1>1. /\ Turn(start # 0 /\ ~inTrigger /\ This # "scol")
      /\ previous' = Get(0) /\ UNCHANGED <<inTrigger, sawBegin, depth, start, statements>>
  BY DEF GoesOn
<1>2. start # 0 /\ inTrigger = FALSE /\ sawBegin \in BOOLEAN /\ Type(At) # "scol"
  BY <1>1, BeforeTurn
<1>3. TextInv /\ Moves(At, At') /\ start \in 1..(At - 1) /\ At # Limit
      /\ IsTriggerOf(start, At, FALSE, sawBegin, depth)
  BY <1>1, <1>2, BeforeTurn
<1>4. ~EndsAt(start, At)
  BY <1>2, <1>3 DEF EndsAt
<1>5. IsTriggerOf(start, At', FALSE, sawBegin, depth)
  BY <1>3, TriggerOver
<1>. QED BY <1>1, <1>2, <1>4, <1>5, AfterInner

(* A semicolon returns the statement. *)
LEMMA AfterEnd == ASSUME SplitInv, Ends PROVE ScanInv'
<1>1. /\ Turn(start # 0 /\ ~inTrigger /\ This = "scol")
      /\ statements' = statements \o Returned
      /\ start' = 0 /\ sawBegin' = FALSE /\ inTrigger' = inTrigger
  BY DEF Ends
<1>2. start # 0 /\ inTrigger = FALSE /\ Type(At) = "scol"
  BY <1>1, BeforeTurn
<1>3. TextInv /\ Moves(At, At') /\ start \in 1..(At - 1) /\ At \in 1..Limit
      /\ At \in Nat /\ At' \in Nat /\ RingInv /\ PlaceInv
      /\ IsTriggerOf(start, At, FALSE, sawBegin, depth)
      /\ IsOpen(start, At, previous.at) /\ AreDone(statements, start)
  BY <1>1, <1>2, BeforeTurn
<1>4. EndsAt(start, At)
  <2>1. start \in Nat
    BY <1>3
  <2>. QED BY <1>2, <1>3, <2>1, OutsideEnds
<1>5. AreDone(statements', At)
  <2>1. statements' = statements \o <<<<start, previous.at>>>>
    BY <1>1, <1>2 DEF Returned
  <2>. QED BY <1>3, <1>4, <2>1, DoneReturns
<1>7. AreDone(statements', At')
  BY <1>2, <1>3, <1>5, DonePassesSemicolon
<1>. QED BY <1>1, <1>2, <1>3, <1>7, TurnKeeps

(* The end of the text returns what is left. *)
LEMMA AfterOver == ASSUME SplitInv, IsOver PROVE PlaceInv' /\ ScanInv'
<1>1. /\ pc = "next" /\ pc' = "over" /\ (IsEOF \/ AtIncompleteCommentStart)
      /\ statements' = statements \o Returned
      /\ text' = text /\ UNCHANGED <<tokenizer, locals>>
  BY DEF IsOver
<1>2. TextInv /\ RingInv /\ PlaceInv /\ OpenInv /\ AreDone(statements, IF start = 0 THEN At ELSE start)
  BY <1>1 DEF SplitInv, ScanInv, DoneInv, Reached, PlaceInv, TextInv
<1>3. (Get(0))' = Get(0) /\ At' = At
  BY <1>1 DEF Get, At, tokenizer
<1>4. PlaceInv'
  <2>1. (TokenAt(At))' = TokenAt(At) /\ (Type(At))' = Type(At) /\ Limit' = Limit
    BY <1>1, <1>3, SameText, SameMeaning
  <2>. QED BY <1>1, <1>2, <1>3, <2>1 DEF PlaceInv
<1>5. At \in 1..Limit /\ At = Limit /\ Limit \in Nat
  <2>1. StopsAt(At) /\ At \in 1..Limit
    BY <1>1, <1>2, Reads DEF PlaceInv
  <2>2. Limit \in Nat /\ \A j \in 1..(Limit - 1) : ~StopsAt(j)
    BY <1>2, TheLimit, TypeOfPlaces DEF Places
  <2>. QED BY <2>1, <2>2
<1>6. AreDone(statements', Limit)
  <2>1. CASE start = 0
    <3>1. statements \in Seq(Nat \X Nat) /\ statements' = statements
      BY <1>1, <1>2, <2>1 DEF Returned, AreDone
    <3>. QED BY <1>2, <1>5, <2>1, <3>1
  <2>2. CASE start # 0
    <3>1. statements' = statements \o <<<<start, previous.at>>>>
      BY <1>1, <2>2 DEF Returned
    <3>2. IsOpen(start, At, previous.at) /\ EndsAt(start, At) /\ AreDone(statements, start)
      BY <1>2, <1>5, <2>2 DEF OpenInv, EndsAt
    <3>. QED BY <1>2, <1>5, <3>1, <3>2, DoneReturns
  <2>. QED BY <2>1, <2>2
<1>7. DoneInv'
  <2>1. Reached' = Limit
    BY <1>1, SameMeaning DEF Reached
  <2>2. (AreDone(statements, Reached))'
    BY <1>1, <1>6, <2>1, SameScan
  <2>. QED BY <2>2 DEF DoneInv
<1>. QED BY <1>1, <1>4, <1>7 DEF ScanInv

(* Every step keeps the invariant of the scan. *)
LEMMA SplitNext == SplitInv /\ [Next]_vars => SplitInv'
<1>. SUFFICES ASSUME SplitInv, [Next]_vars PROVE SplitInv'
  OBVIOUS
<1>1. RingInv'
  BY RingNext DEF SplitInv
<1>2. ASSUME NEW type, Turn(type) PROVE PlaceInv'
  BY <1>2, TurnMoves DEF SplitInv
<1>3. CASE SkipsEmpty
  BY <1>1, <1>2, <1>3, AfterEmpty DEF SkipsEmpty, SplitInv
<1>4. CASE Starts
  BY <1>1, <1>2, <1>4, AfterStart DEF Starts, SplitInv
<1>5. CASE TriggerBegins
  BY <1>1, <1>2, <1>5, AfterBegin DEF TriggerBegins, SplitInv
<1>6. CASE InTrigger
  BY <1>1, <1>2, <1>6, AfterTrigger DEF InTrigger, SplitInv
<1>7. CASE GoesOn
  BY <1>1, <1>2, <1>7, AfterWord DEF GoesOn, SplitInv
<1>8. CASE Ends
  BY <1>1, <1>2, <1>8, AfterEnd DEF Ends, SplitInv
<1>9. CASE IsOver
  BY <1>1, <1>9, AfterOver DEF SplitInv
<1>10. CASE Over \/ UNCHANGED vars
  <2>1. UNCHANGED <<text, tokens, index, start, previous, inTrigger, sawBegin, depth, statements, pc>>
    BY <1>10 DEF Over, vars, tokenizer, locals
  <2>2. (Get(0))' = Get(0) /\ At' = At
    BY <2>1 DEF Get, At
  <2>3. PlaceInv'
    <3>1. (TokenAt(At))' = TokenAt(At) /\ (Type(At))' = Type(At) /\ Limit' = Limit
      BY <2>1, <2>2, SameText, SameMeaning
    <3>. QED BY <2>1, <2>2, <3>1 DEF PlaceInv, SplitInv
  <2>4. (pc = "next" => OpenInv /\ TriggerInv) => (pc' = "next" => OpenInv' /\ TriggerInv')
    <3>1. ((IsOpen(start, At, previous.at))' <=> IsOpen(start, At, previous.at))
          /\ ((IsTriggerOf(start, At, inTrigger, sawBegin, depth))'
                <=> IsTriggerOf(start, At, inTrigger, sawBegin, depth))
      BY <2>1, <2>2, SameScan
    <3>. QED BY <2>1, <3>1 DEF OpenInv, TriggerInv
  <2>5. DoneInv => DoneInv'
    <3>1. Reached' = Reached
      BY <2>1, <2>2, SameMeaning DEF Reached
    <3>2. (AreDone(statements, Reached))' <=> AreDone(statements, Reached)
      BY <2>1, <3>1, SameScan
    <3>. QED BY <3>2 DEF DoneInv
  <2>. QED BY <1>1, <2>3, <2>4, <2>5 DEF SplitInv, ScanInv
<1>. QED
  BY <1>3, <1>4, <1>5, <1>6, <1>7, <1>8, <1>9, <1>10 DEF Next

(* A text is split at every semicolon that is not inside the body of a      *)
(* trigger, up to a comment that does not end, and nothing between the      *)
(* statements is lost (SplitStatement, StatementIterator.Next).             *)
THEOREM Splits == Spec => []SplitsAtEveryEnd
<1>1. SplitInv => SplitsAtEveryEnd
  BY DoneSplits DEF SplitInv, PlaceInv, TextInv
<1>. QED
  BY SplitInit, SplitNext, <1>1, PTL DEF Spec
===============================================================================
