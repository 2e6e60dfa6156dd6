-------------------------------- MODULE Params --------------------------------
(***************************************************************************)
(* How ParseStatementAndArgs (libsql/internal/http/shared/statement.go)     *)
(* deals the arguments of a call out to the statements of its text.         *)
(*                                                                          *)
(* A statement is what extractParameters sees of it: its bind parameters in *)
(* order, each "plain" (?), a number (?1), a name (:a, @a or $a) or "bad"   *)
(* (?1x), and whether it is an EXPLAIN.  An argument is its name, NoName if *)
(* positional, and its value the place at which it was given; database/sql  *)
(* gives them in the order of their ordinals, by which ConvertArgs sorts.   *)
(***************************************************************************)
EXTENDS Integers, Sequences, FiniteSets, SequencesExt

CONSTANTS
  Name, NoName,
  MaxStmts,    \* bound: statements of the text
  MaxParams,   \* bound: parameters of a statement, and the largest ?n
  MaxArgs,     \* bound: positional arguments
  MaxNamed     \* bound: arguments when some have names

ASSUME ParamsAssumption ==
  /\ NoName \notin Name
  /\ MaxStmts \in Nat /\ MaxParams \in Nat /\ MaxArgs \in Nat /\ MaxNamed \in Nat

Number == [kind : {"number"}, key : 1..MaxParams]
Named == [kind : {"name"}, key : Name]
Plain == [kind |-> "plain", key |-> 0]
Bad == [kind |-> "bad", key |-> 0]
Parameter == Number \cup Named \cup {Plain, Bad}
Statement == [params : BoundedSeq(Parameter, MaxParams), explain : BOOLEAN]

VARIABLES
  stmts,   \* the statements
  args,    \* the name of each argument
  alreadyUsed,    \* totalParametersAlreadyUsed
  dealt,   \* the arguments of each statement so far: their places in order,
           \* or the place of each name
  result   \* "none" until the call returns

paramsVars == <<stmts, args, alreadyUsed, dealt, result>>

Place == 1..Len(args)
ArgsAreNamed == args[1] # NoName

ParamsInit ==
  /\ stmts \in BoundedSeq(Statement, MaxStmts)
  /\ args \in BoundedSeq({NoName}, MaxArgs) \cup BoundedSeq(Name \cup {NoName}, MaxNamed)
  /\ alreadyUsed = 0
  /\ dealt = <<>>
  /\ result = "none"

-----------------------------------------------------------------------------
(* extractParameters.                                                       *)
Keys(stmt, kind) ==
  {stmt.params[i].key : i \in {j \in DOMAIN stmt.params : stmt.params[j].kind = kind}}

NameParams(stmt) == Keys(stmt, "name")

Occurrences(stmt, kinds) ==
  Cardinality({i \in DOMAIN stmt.params : stmt.params[i].kind \in kinds})

CountWithRepeats(stmt) == Occurrences(stmt, {"plain", "number"})   \* mutant
PositionalParamsCount(stmt) ==
  Occurrences(stmt, {"plain"}) + Cardinality(Keys(stmt, "number"))

IsMalformed(stmt) == Occurrences(stmt, {"bad"}) > 0

-----------------------------------------------------------------------------
(* ConvertArgs: the first argument tells the type of them all; of two with  *)
(* the same name the later counts.                                          *)
ArgsAreMixed == \E i \in Place : (args[i] = NoName) = ArgsAreNamed

PlaceOf(name) ==
  CHOOSE i \in Place : args[i] = name /\ \A j \in Place : args[j] = name => j <= i

NoParams == [positional |-> <<>>, named |-> <<>>]

(* generateStatementParameters, for the next statement.                     *)
NextStatement == stmts[Len(dealt) + 1]

Slice(from, n) == [i \in 1..n |-> from + i]
Left == Len(args) - alreadyUsed

Positional ==
  LET n == PositionalParamsCount(NextStatement)
  IN  IF n <= Left THEN [NoParams EXCEPT !.positional = Slice(alreadyUsed, n)]
      ELSE IF NextStatement.explain THEN NoParams
      ELSE [NoParams EXCEPT !.positional = Slice(alreadyUsed, Left)]

GivenNames == {args[i] : i \in Place}
NamesGiven == GivenNames       \* mutant: every statement gets every name
NamesNeeded == GivenNames \cap NameParams(NextStatement)
ByName == [NoParams EXCEPT !.named = [n \in NamesNeeded |-> PlaceOf(n)]]

ParamsLen(p) == IF ArgsAreNamed THEN Cardinality(DOMAIN p.named) ELSE Len(p.positional)

UsedByLast(p) == ParamsLen(p)  \* mutant: set, not added
UsedAfter(p) == alreadyUsed + ParamsLen(p)

-----------------------------------------------------------------------------
Returns(what) == result' = what /\ UNCHANGED <<stmts, args, alreadyUsed, dealt>>

NoArgs ==
  /\ result = "none" /\ args = <<>>
  /\ Returns("ok")

RefusesArgs ==
  /\ result = "none" /\ args # <<>> /\ ArgsAreMixed
  /\ Returns("error")

Dealing ==
  /\ result = "none" /\ args # <<>> /\ ~ArgsAreMixed
  /\ Len(dealt) < Len(stmts)

RefusesStatement ==
  /\ Dealing /\ IsMalformed(NextStatement)
  /\ Returns("error")

Deals ==
  /\ Dealing /\ ~IsMalformed(NextStatement)
  /\ LET p == IF ArgsAreNamed THEN ByName ELSE Positional
     IN  dealt' = Append(dealt, p) /\ alreadyUsed' = UsedAfter(p)
  /\ UNCHANGED <<stmts, args, result>>

IsDone ==
  /\ result = "none" /\ args # <<>> /\ ~ArgsAreMixed
  /\ Len(dealt) = Len(stmts)
  /\ Returns("ok")

ArgsReturned == result # "none" /\ UNCHANGED paramsVars

ParamsNext ==
  \/ NoArgs \/ RefusesArgs \/ RefusesStatement \/ Deals \/ IsDone \/ ArgsReturned

ParamsSpec == ParamsInit /\ [][ParamsNext]_paramsVars

-----------------------------------------------------------------------------
(* The positional arguments are dealt out in their order, none of them      *)
(* twice, none left out between two statements, and none that was not given *)
(* (a slice out of range).                                                  *)
DealtOnceInOrder ==
  args # <<>> /\ ~ArgsAreNamed =>
    /\ UNION {Range(dealt[m].positional) : m \in DOMAIN dealt} = 1..alreadyUsed
    /\ \A m, n \in DOMAIN dealt :
         \A i \in DOMAIN dealt[m].positional, j \in DOMAIN dealt[n].positional :
           m < n \/ (m = n /\ i < j) =>
             dealt[m].positional[i] < dealt[n].positional[j]
    /\ alreadyUsed <= Len(args)

(* How SQLite numbers the parameters of a statement: ?n is number n, any    *)
(* other one the next after the largest so far.                             *)
ParametersOf(stmt) ==
  LET largest[i \in 0..Len(stmt.params)] ==
        IF i = 0 THEN 0
        ELSE LET p == stmt.params[i]
             IN  IF p.kind = "number" /\ p.key <= largest[i - 1] THEN largest[i - 1]
                 ELSE IF p.kind = "number" THEN p.key
                 ELSE largest[i - 1] + 1
  IN  largest[Len(stmt.params)]

(* A statement that numbers its parameters without gaps, and not after      *)
(* parameters without a number.                                             *)
IsTidy(stmt) ==
  LET numbers == Keys(stmt, "number")
      ps == stmt.params
  IN  /\ NameParams(stmt) = {}
      /\ numbers = 1..Cardinality(numbers)
      /\ \A i, j \in DOMAIN ps : i < j /\ ps[i].kind = "plain" => ps[j].kind = "plain"

(* Each of the first statements of a text, if they are tidy and there are   *)
(* arguments enough, gets the next as many as SQLite has parameters for.    *)
NeededBefore(m) ==
  LET sum[i \in 0..Len(stmts)] ==
        IF i = 0 THEN 0 ELSE sum[i - 1] + ParametersOf(stmts[i])
  IN  sum[m - 1]

TidyTextsBindAsInSqlite ==
  args # <<>> /\ ~ArgsAreNamed =>
    \A m \in DOMAIN dealt :
      /\ \A k \in 1..m : IsTidy(stmts[k])
      /\ NeededBefore(m) + ParametersOf(stmts[m]) <= Len(args)
      => dealt[m].positional =
           [i \in 1..ParametersOf(stmts[m]) |-> NeededBefore(m) + i]

(* A named argument reaches every statement that names it, and no other,    *)
(* with the value given last.                                               *)
NamesReachTheirStatements ==
  args # <<>> /\ ~ArgsAreMixed /\ ArgsAreNamed =>
    \A m \in DOMAIN dealt, i \in Place :
      /\ args[i] \in DOMAIN dealt[m].named
           <=> \E j \in DOMAIN stmts[m].params :
                 stmts[m].params[j] = [kind |-> "name", key |-> args[i]]
      /\ args[i] \in DOMAIN dealt[m].named => dealt[m].named[args[i]] >= i
=============================================================================
