----------------------------- MODULE JsonLexer -----------------------------
(***************************************************************************)
(* The first half of is_valid in controllers/json_validator.py: the table  *)
(* TRANSFORMATIONS reads a posted text character by character into tokens, *)
(* which JsonParser takes from there.                                      *)
(*                                                                         *)
(* Characters the table does not tell apart are one member of Chars:       *)
(* "1" stands for 1 to 9, "c" for the hex digits cdABCDF, "nl" for \r and   *)
(* \n, "bf" for \b and \f, "ctl" for the control characters without a     *)
(* rule, "x" for the rest.                                                 *)
(***************************************************************************)
EXTENDS Integers, Sequences, FiniteSets

CONSTANT Texts   \* bound: the texts

Quote == "\""
Backslash == "\\"
Space == {" ", "nl"}
Digits == {"0", "1"}
Hex == Digits \cup {"a", "b", "e", "f", "E", "c"}
Chars == Space \cup Hex \cup {"[", "]", "{", "}", ",", ":", Quote, Backslash, "/",
          "t", "r", "u", "l", "s", "n", "-", "+", ".", "bf", "tab", "ctl", "x"}

ASSUME JsonLexerAssumption == \A t \in Texts : t \in Seq(Chars)

VARIABLES
  text,       \* the text posted
  read,       \* how many of its characters have been read
  state,      \* the state of the table, or "rejected" after return False
  tokens      \* the list of tokens

vars == <<text, read, state, tokens>>

Structure == [ARRAYSTART |-> "[", ARRAYEND |-> "]", OBJECTSTART |-> "{",
              OBJECTEND |-> "}", COMMA |-> ",", COLON |-> ":"]
Tokens == DOMAIN Structure \cup {"STRVALUE", "VALUE"}
None == "none"
-----------------------------------------------------------------------------
\* --- the table: start state, characters, end state, token -----------------

Structural(starts, names) ==
  {<<s, {Structure[t]}, "GROUND", t>> : s \in starts, t \in names}

\* A word of letters: one state after each letter but the last.
Word(states, letters) ==
  {<<IF i = 1 THEN "GROUND" ELSE states[i - 1], {letters[i]},
     IF i = Len(letters) THEN "GROUND" ELSE states[i],
     IF i = Len(letters) THEN "VALUE" ELSE None>> : i \in 1 .. Len(letters)}

InNumberButExponent == {"DECIMALOK", "NUMBER", "ZERO"}   \* mutant: a state forgotten

InNumber == {"EXPONENT3", "DECIMALOK", "NUMBER", "ZERO"}

WordRules ==
  Word(<<"TRUE1", "TRUE2", "TRUE3">>, <<"t", "r", "u", "e">>)
    \cup Word(<<"FALSE1", "FALSE2", "FALSE3", "FALSE4">>, <<"f", "a", "l", "s", "e">>)
    \cup Word(<<"NULL1", "NULL2", "NULL3">>, <<"n", "u", "l", "l">>)

StringRules ==
  { <<"GROUND", {Quote}, "STRING", None>>,
    <<"STRING", {Quote}, "GROUND", "STRVALUE">>,
    <<"STRING", {Backslash}, "STRINGSLASH", None>>,
    <<"STRINGSLASH", {Quote, Backslash, "/", "b", "f", "n", "r", "t"}, "STRING", None>>,
    <<"STRINGSLASH", {"u"}, "UNICODE1", None>>,
    <<"UNICODE1", Hex, "UNICODE2", None>>,
    <<"UNICODE2", Hex, "UNICODE3", None>>,
    <<"UNICODE3", Hex, "UNICODE4", None>>,
    <<"UNICODE4", Hex, "STRING", None>>,
    <<"STRING", {"bf", "nl"}, "ERROR", None>> }

NumberRules ==
  { <<"GROUND", {"-"}, "NEGATIVE", None>>,
    <<"GROUND", {"0"}, "ZERO", "VALUE">>,
    <<"GROUND", {"1"}, "NUMBER", "VALUE">>,
    <<"NEGATIVE", {"0"}, "NUMBER", "VALUE">>,
    <<"NEGATIVE", {"1"}, "NUMBER", "VALUE">>,
    <<"NUMBER", Digits, "NUMBER", None>>,
    <<"NUMBER", {"."}, "DECIMALBAD", None>>,
    <<"ZERO", {"."}, "DECIMALBAD", None>>,
    <<"DECIMALBAD", Digits, "DECIMALOK", None>>,
    <<"DECIMALOK", Digits, "DECIMALOK", None>>,
    <<"NUMBER", {"e", "E"}, "EXPONENT1", None>>,
    <<"ZERO", {"e", "E"}, "EXPONENT1", None>>,
    <<"DECIMALOK", {"e", "E"}, "EXPONENT1", None>>,
    <<"EXPONENT1", {"+", "-"}, "EXPONENT2", None>>,
    <<"EXPONENT1", Digits, "EXPONENT3", None>>,
    <<"EXPONENT2", Digits, "EXPONENT3", None>>,
    <<"EXPONENT3", Digits, "EXPONENT3", None>> }

TRANSFORMATIONS ==
  {<<s, Space, "GROUND", None>> : s \in InNumber \cup {"GROUND"}}
    \cup Structural({"GROUND"}, DOMAIN Structure)
    \cup Structural(InNumber, {"COMMA", "COLON", "ARRAYEND", "OBJECTEND"})
    \cup StringRules \cup WordRules \cup NumberRules

\* The rules for a state and a character; the wildcard, which only STRING has,
\* is for the characters without a rule of their own.
RulesFor(s, c) ==
  LET own == {r \in TRANSFORMATIONS : r[1] = s /\ c \in r[2]}
  IN  IF own = {} /\ s = "STRING" THEN {<<s, {c}, "STRING", None>>} ELSE own

\* The states a text may end in.  DECIMALOK is missing: no array ends there.
EXITSTATES == {"GROUND", "NUMBER", "ZERO", "EXPONENT3"}
-----------------------------------------------------------------------------
TypeOK ==
  /\ text \in Seq(Chars)
  /\ read \in 0 .. Len(text)
  /\ state \in {r[3] : r \in TRANSFORMATIONS} \cup {"rejected"}
  /\ tokens \in Seq(Tokens) /\ Len(tokens) <= read

Init ==
  /\ text \in Texts
  /\ read = 0
  /\ state = "GROUND"
  /\ tokens = <<>>

\* mutant: None is appended like a token
EmitNone(token) == Append(tokens, token)

Emit(token) == IF token = None THEN tokens ELSE Append(tokens, token)

\* One round of "for char in string".
Read ==
  /\ state # "rejected"
  /\ read < Len(text)
  /\ read' = read + 1
  /\ LET rules == RulesFor(state, text[read + 1])
     IN  \/ \E r \in rules :
              /\ state' = r[3]
              /\ tokens' = Emit(r[4])
         \/ /\ rules = {}
            /\ state' = "rejected"
            /\ UNCHANGED tokens
  /\ UNCHANGED text

Next == Read

Spec == Init /\ [][Next]_vars
-----------------------------------------------------------------------------
\* --- what the characters mean by RFC 4627, section 2 -----------------------
\* Each definition is about the characters of s from the i-th up to the j-th, which
\* is not among them any more.

AllIn(s, i, j, S) == \A k \in i .. j - 1 : s[k] \in S

IsDigits(s, i, j) == i < j /\ AllIn(s, i, j, Digits)
IsInt(s, i, j) == IsDigits(s, i, j) /\ (s[i] = "0" => j = i + 1)
IsFrac(s, i, j) == i < j => s[i] = "." /\ IsDigits(s, i + 1, j)
IsExp(s, i, j) == i < j =>
  /\ s[i] \in {"e", "E"}
  /\ \/ IsDigits(s, i + 1, j)
     \/ i + 1 < j /\ s[i + 1] \in {"+", "-"} /\ IsDigits(s, i + 2, j)

\* [frac] [exp], and int before them
IsTail(s, i, j) == \E k \in i .. j : IsFrac(s, i, k) /\ IsExp(s, k, j)
IsUnsigned(s, i, j) == \E k \in i .. j : IsInt(s, i, k) /\ IsTail(s, k, j)

IsNumber(s, i, j) ==
  IsUnsigned(s, i, j) \/ (s[i] = "-" /\ IsUnsigned(s, i + 1, j))

Words == {<<"t", "r", "u", "e">>, <<"f", "a", "l", "s", "e">>, <<"n", "u", "l", "l">>}
IsWord(s, i, j) ==
  \E w \in Words : j = i + Len(w) /\ \A k \in DOMAIN w : s[i + k - 1] = w[k]

\* Where a string may end, by the character from which on it is read, given the
\* characters that may stand for themselves in it.
Escapes == {Quote, Backslash, "/", "b", "f", "n", "r", "t"}
StringEnds(s, plain) ==
  LET n == Len(s)
      ends[k \in 1 .. n + 1] ==
        IF k > n THEN {}
        ELSE IF s[k] = Quote THEN {k + 1}
        ELSE IF s[k] \in plain THEN ends[k + 1]
        ELSE IF s[k] # Backslash \/ k = n THEN {}
        ELSE IF s[k + 1] \in Escapes THEN ends[k + 2]
        ELSE IF s[k + 1] = "u" /\ k + 5 <= n /\ AllIn(s, k + 2, k + 6, Hex) THEN ends[k + 6]
        ELSE {}
  IN  ends

Plain == Chars \ {Quote, Backslash, "nl", "bf", "tab", "ctl"}
IsString(s, i, j, plain) == s[i] = Quote /\ j \in StringEnds(s, plain)[i + 1]

\* One lexeme of JSON and its token: none for white space.
IsLexeme(s, i, j, t) ==
  \/ t = None /\ j = i + 1 /\ s[i] \in Space \cup {"tab"}
  \/ t \in DOMAIN Structure /\ j = i + 1 /\ s[i] = Structure[t]
  \/ t = "VALUE" /\ (IsNumber(s, i, j) \/ IsWord(s, i, j))
  \/ t = "STRVALUE" /\ IsString(s, i, j, Plain)

\* The same for what the table reads instead: no tab between lexemes (line 81),
\* control characters in strings (line 98), and -0 with more digits (line 115).
IsLaxLexeme(s, i, j, t) ==
  \/ IsLexeme(s, i, j, t) /\ s[i] # "tab"
  \/ t = "VALUE" /\ s[i] = "-" /\ \E k \in i + 1 .. j : IsDigits(s, i + 1, k) /\ IsTail(s, k, j)
  \/ t = "STRVALUE" /\ IsString(s, i, j, Plain \cup {"tab", "ctl"})

\* The token lists that a text can be taken apart into, from each character on.
TokenOf(t) == IF t = None THEN <<>> ELSE <<t>>
Readings(s) ==
  LET n == Len(s)
      from[i \in 1 .. n + 1] ==
        IF i > n THEN {<<>>}
        ELSE UNION { {TokenOf(lexeme[2]) \o rest : rest \in from[lexeme[1]]} :
                       lexeme \in {l \in (i + 1 .. n + 1) \X (Tokens \cup {None}) :
                                     IsLaxLexeme(s, i, l[1], l[2])} }
  IN  from

Ends == {"VALUE", "STRVALUE", "ARRAYEND", "OBJECTEND"}
Begins == {"VALUE", "STRVALUE", "ARRAYSTART", "OBJECTSTART"}

\* Lists that may come from an array or object: a value never follows a value.
MayBeJson(list) ==
  /\ Len(list) >= 2
  /\ list[1] \in {"ARRAYSTART", "OBJECTSTART"}
  /\ list[Len(list)] \in {"ARRAYEND", "OBJECTEND"}
  /\ \A i \in 1 .. Len(list) - 1 : ~(list[i] \in Ends /\ list[i + 1] \in Begins)

Done == state = "rejected" \/ read = Len(text)

\* The token list that _pop_value gets to see, if any.
Accepted == IF state \in EXITSTATES /\ MayBeJson(tokens) THEN {tokens} ELSE {}

JsonReadings(s) == {list \in Readings(s)[1] : MayBeJson(list)}
-----------------------------------------------------------------------------
\* --- properties -----------------------------------------------------------

\* The table hands on exactly the tokens that IsLaxLexeme finds in the text, wherever
\* they may form an array or object, and rejects every other text (is_valid's loop).
\* "True iff JSON string is valid" (line 161) holds of it up to the three deviations.
ReadsTheTokens == Done => Accepted = JsonReadings(text)
=============================================================================
