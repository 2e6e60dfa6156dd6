---------------------------- MODULE MCSequential ----------------------------
(* The parts of the driver that share no state with any other: a text to     *)
(* split, arguments to deal out, a URL with options, or the pool of request  *)
(* ids.  A behaviour is about one of them, and leaves the others alone.      *)
EXTENDS Splitter, Params, Config, IdPool

CONSTANTS
  MaxPieces,   \* bound: pieces in a text
  MaxInner     \* bound: pieces between the head of a trigger and its end

(* Texts: pieces put together in every order, and more of them after the     *)
(* head of a trigger.                                                        *)
Heads == {<<"create", "hidden", "trigger">>, <<"create", "temp", "trigger">>}
Inner == {<<"scol">>, <<"begin">>, <<"case">>, <<"hidden", "end">>}
Pieces == Heads \cup Inner \cup {<<"word">>, <<"div", "star">>}

Joined(pieces, n) == {FlattenSeq(ps) : ps \in BoundedSeq(pieces, n)}

MCTexts ==
  Joined(Pieces, MaxPieces)
    \cup {h \o t \o <<"scol", "word">> : h \in Heads, t \in Joined(Inner, MaxInner)}

VARIABLE subject

NoText == text = <<>>
NoCall == stmts = <<>> /\ args = <<>>
PlainUrl ==
  /\ url = [scheme |-> "libsql", port |-> FALSE, tokens |-> [p \in TokenParams |-> Unset],
            tls |-> "absent", unknown |-> FALSE]
  /\ opts = <<>>

SequentialInit ==
  \/ subject = "text" /\ NoCall /\ PlainUrl /\ ParamsInit /\ ConfigInit /\ IdInit /\ Init
  \/ subject = "args" /\ NoText /\ PlainUrl /\ Init /\ ConfigInit /\ IdInit /\ ParamsInit
  \/ subject = "url" /\ NoText /\ NoCall /\ Init /\ ParamsInit /\ IdInit /\ ConfigInit
  \/ subject = "ids" /\ NoText /\ NoCall /\ PlainUrl /\ Init /\ ParamsInit /\ ConfigInit /\ IdInit

SequentialNext ==
  \/ subject = "text" /\ Next /\ UNCHANGED <<subject, paramsVars, configVars, idVars>>
  \/ subject = "args" /\ ParamsNext /\ UNCHANGED <<subject, vars, configVars, idVars>>
  \/ subject = "url" /\ ConfigNext /\ UNCHANGED <<subject, vars, paramsVars, idVars>>
  \/ subject = "ids" /\ IdNext /\ UNCHANGED <<subject, vars, paramsVars, configVars>>

SequentialSpec ==
  SequentialInit /\ [][SequentialNext]_<<subject, vars, paramsVars, configVars, idVars>>
=============================================================================
