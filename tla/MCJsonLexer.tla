---------------------------- MODULE MCJsonLexer ----------------------------
(***************************************************************************)
(* Small texts for JsonLexer: all bodies of a few characters each, between *)
(* brackets.                                                               *)
(***************************************************************************)
EXTENDS JsonLexer, SequencesExt

Around(before, bodies, after) == {before \o b \o after : b \in bodies}
InArray(bodies) == Around(<<"[">>, bodies, <<"]">>)
InString(bodies) == Around(<<"{", Quote>>, bodies, <<Quote, "}">>)

SmallTexts ==
  InArray(BoundedSeq({"-", "+", "0", "1", ".", "e"}, 5))
    \cup InString(BoundedSeq({Quote, Backslash, "u", "c"}, 6))
    \cup InString(BoundedSeq({Quote, Backslash, "/", "n", "nl", "bf", "ctl", "tab"}, 3))
    \cup InArray(BoundedSeq({"t", "r", "u", "e"}, 5))
    \cup InArray(BoundedSeq({"f", "a", "l", "s", "e"}, 5))
    \cup InArray(BoundedSeq({"n", "u", "l", ","}, 5))
    \cup BoundedSeq({"[", "]", "{", "}", ",", ":", " ", "tab", "1", Quote}, 4)

=============================================================================
