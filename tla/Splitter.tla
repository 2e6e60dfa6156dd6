------------------------------- MODULE Splitter -------------------------------
(***************************************************************************)
(* StatementIterator and SplitStatement (sqliteparserutils/utils.go) on     *)
(* their tokenizer with three tokens of look-ahead (buffered_tokenizer.go). *)
(* A text is a sequence of token types; a token is its type and its place.  *)
(* Tokens of the hidden channel (white space, comments) are "hidden"; the   *)
(* lexer gives an unfinished comment as "div" and "star".                   *)
(***************************************************************************)
EXTENDS Naturals, Sequences, FiniteSets

CONSTANT Texts

TokenType == {"hidden", "scol", "create", "temp", "trigger", "begin", "case",
              "end", "div", "star", "word"}

ASSUME SplitterAssumption == Texts \subseteq Seq(TokenType)

VARIABLES
  text,
  source,        \* the place of the token the lexer gives next
  tokens, index, \* bufferedTokenizer
  current,       \* StatementIterator.currentToken
  inTrigger, sawBegin, depth, start, previous,  \* locals of Next
  inComment,     \* insideMultilineComment
  statements,    \* SplitStatement's result: the first and last place of each
  pc             \* "next" or "over"

tokenizer == <<source, tokens, index>>
locals == <<inTrigger, sawBegin, depth, start, previous>>
vars == <<text, tokenizer, current, locals, inComment, statements, pc>>

Size == 3
Buffer == 0..(Size - 1)

Type(i) == IF i <= Len(text) THEN text[i] ELSE "EOF"
NoToken == [type |-> "none", at |-> 0]

-----------------------------------------------------------------------------
(* The tokenizer.  The place of the first token of the default channel from *)
(* i on; at the end the lexer gives EOF again and again.                    *)
VisibleFrom(i) ==
  CHOOSE j \in i..(Len(text) + 1) :
    /\ Type(j) # "hidden"
    /\ \A k \in i..(j - 1) : Type(k) = "hidden"

TokenAt(i) == [type |-> Type(i), at |-> i]
After(i) == IF i <= Len(text) THEN i + 1 ELSE i

(* createBufferedTokenizer: load(3). *)
LoadsAll ==
  LET a == VisibleFrom(1)
      b == VisibleFrom(After(a))
      c == VisibleFrom(After(b))
  IN  /\ tokens = [k \in Buffer |-> TokenAt(IF k = 0 THEN a ELSE IF k = 1 THEN b ELSE c)]
      /\ source = After(c)
      /\ index = 0

NextIndexKept == index           \* mutant
NextIndex == (index + 1) % Size

(* load(1). *)
Consume ==
  LET i == VisibleFrom(source)
  IN  /\ tokens' = [tokens EXCEPT ![index] = TokenAt(i)]
      /\ source' = After(i)
      /\ index' = NextIndex

Get(k) == tokens[(index + k) % Size]
IsEOF == Get(0).type = "EOF"

-----------------------------------------------------------------------------
Init ==
  /\ text \in Texts
  /\ LoadsAll
  /\ current = NoToken /\ previous = NoToken
  /\ inTrigger = FALSE /\ sawBegin = FALSE /\ depth = 0 /\ start = 0
  /\ inComment = FALSE
  /\ statements = <<>>
  /\ pc = "next"

AtCreateTriggerOnly ==           \* mutant: CREATE TEMP TRIGGER is forgotten
  Get(0).type = "create" /\ Get(1).type = "trigger"
AtCreateTriggerStart ==
  /\ Get(0).type = "create"
  /\ \/ Get(1).type = "trigger"
     \/ Get(1).type = "temp" /\ Get(2).type = "trigger"

AtIncompleteCommentStart == Get(0).type = "div" /\ Get(1).type = "star"

(* One turn of Next's loop, by what the token is.                           *)
Turn(type) ==
  /\ pc = "next" /\ ~IsEOF /\ ~AtIncompleteCommentStart
  /\ type
  /\ current' = Get(0)
  /\ Consume
  /\ UNCHANGED <<text, inComment, pc>>

This == Get(0).type

SkipsEmpty ==
  /\ Turn(start = 0 /\ This = "scol")
  /\ UNCHANGED <<locals, statements>>

Starts ==
  /\ Turn(start = 0 /\ This # "scol")
  /\ inTrigger' = AtCreateTriggerStart
  /\ start' = Get(0).at
  /\ previous' = Get(0)
  /\ UNCHANGED <<sawBegin, depth, statements>>

TriggerBegins ==
  /\ Turn(start # 0 /\ inTrigger /\ ~sawBegin /\ This = "begin")
  /\ sawBegin' = TRUE /\ depth' = 1
  /\ previous' = Get(0)
  /\ UNCHANGED <<inTrigger, start, statements>>

AfterCaseIgnored == depth        \* mutant: the END of a CASE ends the trigger
AfterCase == depth + 1

InTrigger ==
  /\ Turn(start # 0 /\ inTrigger /\ ~(~sawBegin /\ This = "begin"))
  /\ depth' = CASE sawBegin /\ This = "case" -> AfterCase
                [] sawBegin /\ This = "end"  -> depth - 1
                [] OTHER -> depth
  /\ inTrigger' = ~(sawBegin /\ This = "end" /\ depth = 1)
  /\ previous' = Get(0)
  /\ UNCHANGED <<sawBegin, start, statements>>

GoesOn ==
  /\ Turn(start # 0 /\ ~inTrigger /\ This # "scol")
  /\ previous' = Get(0)
  /\ UNCHANGED <<inTrigger, sawBegin, depth, start, statements>>

(* The statement Next returns: from its start to the token before.          *)
Returned == IF start = 0 THEN <<>> ELSE <<<<start, previous.at>>>>

Ends ==
  /\ Turn(start # 0 /\ ~inTrigger /\ This = "scol")
  /\ statements' = statements \o Returned
  /\ start' = 0 /\ sawBegin' = FALSE /\ depth' = 0
  /\ UNCHANGED <<inTrigger, previous>>

(* The last Next: the end of the text, or a comment that does not end.      *)
IsOver ==
  /\ pc = "next" /\ (IsEOF \/ AtIncompleteCommentStart)
  /\ inComment' = ~IsEOF
  /\ statements' = statements \o Returned
  /\ pc' = "over"
  /\ UNCHANGED <<text, tokenizer, current, locals>>

Over == pc = "over" /\ UNCHANGED vars

Next ==
  \/ SkipsEmpty \/ Starts \/ TriggerBegins \/ InTrigger \/ GoesOn \/ Ends
  \/ IsOver \/ Over

Spec == Init /\ [][Next]_vars

-----------------------------------------------------------------------------
(* The look-ahead is over the next three tokens that are not hidden, in     *)
(* their order, however often the buffer has gone round.                    *)
LooksAhead ==
  \A k \in 0..1 : Get(k + 1) = TokenAt(VisibleFrom(After(Get(k).at)))

(* What a text is made of, in terms of its tokens alone.                    *)
TriggerAt(i) ==
  LET j == VisibleFrom(After(i))
  IN  /\ Type(i) = "create"
      /\ \/ Type(j) = "trigger"
         \/ Type(j) = "temp" /\ Type(VisibleFrom(After(j))) = "trigger"

Count(type, i, j) == Cardinality({k \in i..j : Type(k) = type})

(* The trigger that starts at i has its END before j. *)
IsWhole(i, j) ==
  \E b \in (i + 1)..(j - 1) :
    /\ Type(b) = "begin" /\ Count("begin", i, b - 1) = 0
    /\ \E e \in b..(j - 1) : Count("end", b, e) > Count("case", b, e)

(* Where the text ends, or what is left of it is a comment.                 *)
StopsAt(i) ==
  \/ Type(i) = "EOF"
  \/ Type(i) = "div" /\ Type(VisibleFrom(After(i))) = "star"

Limit ==
  CHOOSE i \in 1..(Len(text) + 1) :
    StopsAt(i) /\ \A j \in 1..(i - 1) : ~StopsAt(j)

(* Where the statement that starts at i ends.                               *)
EndsAt(i, j) ==
  \/ j = Limit
  \/ Type(j) = "scol" /\ (TriggerAt(i) => IsWhole(i, j))

EndOf(i) ==
  CHOOSE j \in (i + 1)..Limit :
    EndsAt(i, j) /\ \A k \in (i + 1)..(j - 1) : ~EndsAt(i, k)

(* A text is split at every semicolon that is not inside the body of a      *)
(* trigger, up to a comment that does not end; and nothing between the      *)
(* statements is lost but semicolons and hidden tokens.                     *)
SplitsAtEveryEnd ==
  pc = "over" =>
    LET n == Len(statements)
        From(m) == IF m > n THEN Limit ELSE statements[m][1]
        To(m) == IF m = 0 THEN 1 ELSE EndOf(From(m))
    IN  /\ \A m \in 1..n :
             /\ Type(From(m)) \notin {"hidden", "scol"}
             /\ statements[m][2] < To(m) /\ Type(statements[m][2]) # "hidden"
             /\ \A k \in (statements[m][2] + 1)..(To(m) - 1) : Type(k) = "hidden"
        /\ \A m \in 0..n :
             To(m) <= From(m + 1) /\
             \A k \in To(m)..(From(m + 1) - 1) : Type(k) \in {"hidden", "scol"}
=============================================================================
