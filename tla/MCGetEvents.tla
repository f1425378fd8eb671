---------------------------- MODULE MCGetEvents ----------------------------
(***************************************************************************)
(* Constants of GetEvents for TLC.  The channels are /a, its sub channel   *)
(* /a/b, and /ab, whose name begins with that of /a.                       *)
(***************************************************************************)
EXTENDS GetEvents

MCLonger == {<<"a", "ab">>}
MCPayloads == {[channel |-> <<"a">>, uuid |-> "other"],
               [channel |-> <<"a", "b">>, uuid |-> "other"],
               [channel |-> <<"a", "b">>, uuid |-> "me"],
               [channel |-> <<"ab">>, uuid |-> "other"]}
Ask(ch, how, order, n) ==
  [channel |-> ch, events |-> how, sort |-> order, max_events |-> n,
   echo |-> FALSE, uuid |-> "me"]

\* Descending order only without an effective limit.
MCRequests == {Ask(<<"a">>, "exact", 1, 1), Ask(<<"a", "b">>, "unknown", 0, Cap + 1),
               Ask(<<"a">>, "all", 1, 2), Ask(<<"a">>, "all", -1, 0),
               [Ask(<<"a", "b">>, "exact", 1, 0) EXCEPT !.echo = TRUE],
               Ask(<<"a", "b">>, "parent", 1, 1), Ask(<<"a", "b", "">>, "parent", 1, 0)}

\* events=parent, "most common case" in the code.
WithParents == {Ask(<<"a", "b">>, "parent", 1, 0)}
=============================================================================
