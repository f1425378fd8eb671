----------------------------- MODULE JsonParser -----------------------------
(***************************************************************************)
(* _pop_value of controllers/json_validator.py and the end of is_valid:    *)
(* do the tokens of a posted text form one JSON array or object?           *)
(*                                                                         *)
(* The code pops the tokens from the end of the list and calls itself for  *)
(* the values inside a value.  Its calls are the frames of stack, each     *)
(* step goes from one look at tokens[-1] to the next.  The list is unknown *)
(* at first and chosen as it is popped, so that the steps of a rejected    *)
(* list stand for those of every list with the same end.                   *)
(***************************************************************************)
EXTENDS Integers, Sequences, SequencesExt

CONSTANT MaxTokens   \* bound: the length of the list

ASSUME JsonParserAssumption == MaxTokens \in Nat \ {0}

Tokens == {"ARRAYSTART", "ARRAYEND", "OBJECTSTART", "OBJECTEND",
           "COLON", "COMMA", "STRVALUE", "VALUE"}
Empty == "empty"
Start(kind) == IF kind = "array" THEN "ARRAYSTART" ELSE "OBJECTSTART"

VARIABLES
  top,       \* tokens[-1], or Empty
  popped,    \* the tokens popped so far, in the order of the text
  stack,     \* the arrays and objects being popped, the innermost last
  pc,        \* where the innermost call of _pop_value is
  verdict    \* what is_valid returns

vars == <<top, popped, stack, pc, verdict>>

Frame == [kind : {"array", "object"}, has_value : BOOLEAN]

TypeOK ==
  /\ top \in Tokens \cup {Empty}
  /\ popped \in Seq(Tokens) /\ Len(popped) <= MaxTokens
  /\ stack \in Seq(Frame) /\ Len(stack) <= Len(popped)
  /\ pc \in {"call", "loop", "colon", "name", "done"}
  /\ pc \in {"loop", "colon", "name"} => stack # <<>>
  /\ pc \in {"colon", "name"} => Last(stack).kind = "object"
  /\ verdict \in BOOLEAN

Init ==
  /\ top \in Tokens \cup {Empty}
  /\ popped = <<>>
  /\ stack = <<>>
  /\ pc = "call"
  /\ verdict = FALSE
-----------------------------------------------------------------------------
\* --- _pop_value -----------------------------------------------------------

\* tokens.pop(): the token below becomes visible.
Pop ==
  /\ popped' = <<top>> \o popped
  /\ top' \in IF Len(popped) + 1 < MaxTokens THEN Tokens \cup {Empty} ELSE {Empty}

\* return False: every caller returns False in turn, and so does is_valid.
Reject ==
  /\ pc' = "done"
  /\ verdict' = FALSE
  /\ UNCHANGED stack

Callers == Front(stack)

\* mutant: a value in an array is taken for one in an object
AcceptAsMember(callers) ==
  IF callers = <<>>
  THEN pc' = "done" /\ verdict' = (top' = Empty) /\ UNCHANGED stack
  ELSE pc' = "colon" /\ stack' = callers /\ UNCHANGED verdict

\* mutant: has_value is not set
AcceptForgetful(callers) ==
  IF callers = <<>>
  THEN /\ pc' = "done"
       /\ verdict' = (top' = Empty /\ popped'[1] \in {"ARRAYSTART", "OBJECTSTART"})
       /\ UNCHANGED stack
  ELSE /\ stack' = callers
       /\ pc' = IF Last(callers).kind = "array" THEN "loop" ELSE "colon"
       /\ UNCHANGED verdict

\* return True, to a caller that has collected its first or another value; the
\* outermost call returns to is_valid, which wants no tokens left over and an
\* array or object.
Accept(callers) ==
  IF callers = <<>>
  THEN /\ pc' = "done"
       /\ verdict' = (top' = Empty /\ popped'[1] \in {"ARRAYSTART", "OBJECTSTART"})
       /\ UNCHANGED stack
  ELSE /\ stack' = [callers EXCEPT ![Len(callers)].has_value = TRUE]
       /\ pc' = IF Last(callers).kind = "array" THEN "loop" ELSE "colon"
       /\ UNCHANGED verdict

Enter(kind) ==
  /\ stack' = Append(stack, [kind |-> kind, has_value |-> FALSE])
  /\ pc' = "loop"
  /\ UNCHANGED verdict

\* token = tokens.pop(), and the tests of what it is.
Call ==
  /\ pc = "call"
  /\ \/ top = Empty /\ Reject /\ UNCHANGED <<top, popped>>
     \/ top \in {"VALUE", "STRVALUE"} /\ Pop /\ Accept(stack)
     \/ top = "ARRAYEND" /\ Pop /\ Enter("array")
     \/ top = "OBJECTEND" /\ Pop /\ Enter("object")
     \/ top \in {"COMMA", "COLON", "ARRAYSTART", "OBJECTSTART"} /\ Pop /\ Reject

\* mutant: the start of the other kind closes the value as well
CloseAny ==
  /\ top \in {"ARRAYSTART", "OBJECTSTART"}
  /\ Pop
  /\ Accept(Callers)

Close ==
  /\ top = Start(Last(stack).kind)
  /\ Pop
  /\ Accept(Callers)

\* mutant: "continue" where a missing comma should end the call
CommaAwaited ==
  /\ top \notin {Empty, Start(Last(stack).kind)}
  /\ IF Last(stack).has_value /\ top = "COMMA" THEN Pop ELSE UNCHANGED <<top, popped>>
  /\ pc' = IF Last(stack).has_value /\ top # "COMMA" THEN "loop" ELSE "call"
  /\ UNCHANGED <<stack, verdict>>

\* Another value, after a comma unless it is the first.
Another ==
  /\ top \notin {Empty, Start(Last(stack).kind)}
  /\ \/ ~Last(stack).has_value
        /\ pc' = "call"
        /\ UNCHANGED <<top, popped, stack, verdict>>
     \/ Last(stack).has_value /\ top = "COMMA"
        /\ Pop
        /\ pc' = "call"
        /\ UNCHANGED <<stack, verdict>>
     \/ Last(stack).has_value /\ top # "COMMA"
        /\ Reject
        /\ UNCHANGED <<top, popped>>

\* One round of "while tokens".
Loop ==
  /\ pc = "loop"
  /\ \/ top = Empty /\ Reject /\ UNCHANGED <<top, popped>>
     \/ Close
     \/ Another

\* In an object the value is followed, towards the front, by a colon ...
Colon ==
  /\ pc = "colon"
  /\ \/ top = "COLON"
        /\ Pop
        /\ pc' = "name"
        /\ UNCHANGED <<stack, verdict>>
     \/ top # "COLON"
        /\ Reject
        /\ UNCHANGED <<top, popped>>

\* ... and a string.
Name ==
  /\ pc = "name"
  /\ \/ top = "STRVALUE"
        /\ Pop
        /\ pc' = "loop"
        /\ UNCHANGED <<stack, verdict>>
     \/ top # "STRVALUE"
        /\ Reject
        /\ UNCHANGED <<top, popped>>

Next == Call \/ Loop \/ Colon \/ Name

\* Python runs the function to its end.
Spec == Init /\ [][Next]_vars /\ WF_vars(Next)
-----------------------------------------------------------------------------
\* --- the grammar of RFC 4627, section 2, over tokens ----------------------

Enclosed(open, S, close) == {<<open>> \o s \o <<close>> : s \in S}
Separated(S, T) == {s \o <<"COMMA">> \o t : s \in S, t \in T}
Named(S) == {<<"STRVALUE", "COLON">> \o s : s \in S}

\* For each nonterminal its sequences of n tokens, put together from the shorter
\* ones in g.
Productions(g, n) ==
  LET scalar == IF n = 1 THEN {<<"VALUE">>, <<"STRVALUE">>} ELSE {}
      array == IF n < 2 THEN {} ELSE IF n = 2 THEN {<<"ARRAYSTART", "ARRAYEND">>}
               ELSE Enclosed("ARRAYSTART", g[n - 2].values, "ARRAYEND")
      object == IF n < 2 THEN {} ELSE IF n = 2 THEN {<<"OBJECTSTART", "OBJECTEND">>}
                ELSE Enclosed("OBJECTSTART", g[n - 2].members, "OBJECTEND")
      value == scalar \cup array \cup object
      member == IF n < 3 THEN {} ELSE Named(g[n - 2].value)
  IN  [ value |-> value,
        root |-> array \cup object,
        values |-> value \cup UNION {Separated(g[k].value, g[n - 1 - k].values)
                                       : k \in 1 .. n - 2},
        members |-> member \cup UNION {Separated(Named(g[k].value), g[n - 3 - k].members)
                                         : k \in 1 .. n - 4} ]

Grammar[n \in 0 .. MaxTokens] == Productions(Grammar, n)

JsonTexts == UNION {Grammar[n].root : n \in 0 .. MaxTokens}

Endings == UNION {Suffixes(t) : t \in JsonTexts}
-----------------------------------------------------------------------------
\* --- properties -----------------------------------------------------------

\* What is accepted is a JSON array or object, popped to the last token.
AcceptsOnlyJson ==
  pc = "done" /\ verdict => top = Empty /\ popped \in JsonTexts

\* What is rejected is no array or object: no JSON text is the list, and none
\* ends with the tokens looked at.
RejectsNoJson ==
  pc = "done" /\ ~verdict =>
    IF top = Empty THEN popped \notin JsonTexts
                   ELSE <<top>> \o popped \notin Endings

\* The recursion and its loops end for every list.
Terminates == <>(pc = "done")

=============================================================================
