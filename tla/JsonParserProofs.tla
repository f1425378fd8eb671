-------------------------- MODULE JsonParserProofs --------------------------
(***************************************************************************)
(* Theorems about JsonParser, for token lists of any length: the stack of  *)
(* calls is never higher than the number of tokens popped, and is_valid    *)
(* accepts exactly what the grammar of RFC 4627 derives.                   *)
(*                                                                         *)
(* The grammar is a recursive function.  That the recursion has a solution *)
(* is proved from the well-founded order of Nat (GrammarUnfolds); after    *)
(* that only its rules are used.  What is accepted follows from the tokens *)
(* popped, cut into one segment for each call underway (Chain); what is    *)
(* rejected from the tokens left, cut in the same places (LeftChain).      *)
(***************************************************************************)
EXTENDS JsonParser, SequenceTheorems, WellFoundedInduction, TLAPS

\* What the grammar derives.
Derived == {s \in Seq(Tokens) : Len(s) \in 1 .. MaxTokens}
Root == {s \in Derived : s \in Grammar[Len(s)].root}
Value == {s \in Derived : s \in Grammar[Len(s)].value}
Values == {s \in Derived : s \in Grammar[Len(s)].values}
Members == {s \in Derived : s \in Grammar[Len(s)].members}

ListOf(kind) == IF kind = "array" THEN Values ELSE Members
Item(kind) == IF kind = "array" THEN Value ELSE Named(Value)
End(kind) == IF kind = "array" THEN "ARRAYEND" ELSE "OBJECTEND"

\* The tokens that a call of _pop_value has popped itself: when it waits for
\* another value, and where pc says in the innermost call.
Waiting(kind) ==
  {<<End(kind)>>} \cup {<<"COMMA">> \o (l \o <<End(kind)>>) : l \in ListOf(kind)}

Collected(frame) ==
  IF frame.has_value THEN {l \o <<End(frame.kind)>> : l \in ListOf(frame.kind)}
                     ELSE {<<End(frame.kind)>>}

Unnamed == {v \o w : v \in Value, w \in Waiting("object")}

\* t[i] is what the outermost i calls of frames have popped, each of the first n
\* waiting for a value.
Chain(t, frames, n) ==
  /\ \A i \in 0 .. n : t[i] \in Seq(Tokens)
  /\ t[0] = <<>>
  /\ \A i \in 1 .. n : \E w \in Waiting(frames[i].kind) : t[i] = w \o t[i - 1]

\* The innermost call has popped a segment of S, on top of what its callers have.
Popping(S) ==
  \E t : /\ Chain(t, stack, Len(stack) - 1)
         /\ \E p \in S : popped = p \o t[Len(stack) - 1]

\* The tokens popped so far are those that the calls underway account for.
Accounted ==
  /\ pc = "call" => \E t : Chain(t, stack, Len(stack)) /\ popped = t[Len(stack)]
  /\ pc = "loop" => Popping(Collected(Last(stack)))
  /\ pc = "colon" => Last(stack).has_value /\ Popping(Unnamed)
  /\ pc = "name" => Last(stack).has_value /\ Popping({<<"COLON">> \o u : u \in Unnamed})

\* A token is left only where there is room for it.
Bounded == top # Empty => Len(popped) < MaxTokens

ParserInv == TypeOK /\ Bounded /\ Accounted /\ AcceptsOnlyJson
-----------------------------------------------------------------------------
\* --- the recursion of the grammar -----------------------------------------

\* The sequences of a length are put together from shorter ones only.
LEMMA ProductionsLocal ==
  ASSUME NEW n \in Nat, NEW g, NEW h, \A k \in 0 .. n - 1 : g[k] = h[k]
  PROVE  Productions(g, n) = Productions(h, n)
<1>1. /\ n >= 3 => g[n - 2] = h[n - 2]
      /\ \A k \in 1 .. n - 2 : g[k] = h[k] /\ g[n - 1 - k] = h[n - 1 - k]
      /\ \A k \in 1 .. n - 4 : g[k] = h[k] /\ g[n - 3 - k] = h[n - 3 - k]
  OBVIOUS
<1>2. {Separated(g[k].value, g[n - 1 - k].values) : k \in 1 .. n - 2}
        = {Separated(h[k].value, h[n - 1 - k].values) : k \in 1 .. n - 2}
  BY <1>1
<1>3. {Separated(Named(g[k].value), g[n - 3 - k].members) : k \in 1 .. n - 4}
        = {Separated(Named(h[k].value), h[n - 3 - k].members) : k \in 1 .. n - 4}
  BY <1>1
<1>4. CASE n < 2
  <2>1. n < 2 /\ n # 2 /\ n < 3
    BY <1>4
  <2> QED
    BY <1>2, <1>3, <2>1 DEF Productions
<1>5. CASE n = 2
  <2>1. ~(n < 2) /\ n < 3 /\ n # 1
    BY <1>5
  <2> QED
    BY <1>2, <1>3, <1>5, <2>1 DEF Productions
<1>6. CASE n >= 3
  <2>1. n # 1 /\ n # 2 /\ ~(n < 2) /\ ~(n < 3) /\ g[n - 2] = h[n - 2]
    BY <1>1, <1>6
  <2> QED
    BY <1>2, <1>3, <2>1 DEF Productions
<1> QED
  BY <1>4, <1>5, <1>6

\* So the recursion has a solution for every bound: a least bound without one would
\* have the solution of the bound before it, and one sequence length more.
LEMMA GrammarExists ==
  ASSUME NEW m \in Nat
  PROVE  \E g : g = [n \in 0 .. m |-> Productions(g, n)]
<1> DEFINE Exists(k) == \E g : g = [n \in 0 .. k |-> Productions(g, n)]
           none == {k \in Nat : ~Exists(k)}
<1> SUFFICES ASSUME none # {} PROVE FALSE
  OBVIOUS
<1>1. PICK k \in none : \A j \in none : ~(<<j, k>> \in OpToRel(<, Nat))
  BY NatLessThanWellFounded, WFMin
<1>2. k \in Nat /\ ~Exists(k) /\ \A j \in Nat : j < k => Exists(j)
  BY <1>1 DEF OpToRel
<1>3. CASE k = 0
  <2> DEFINE g == [n \in 0 .. 0 |-> Productions(<<>>, n)]
  <2>1. \A n \in 0 .. 0 : Productions(g, n) = Productions(<<>>, n)
    BY ProductionsLocal
  <2>2. g = [n \in 0 .. k |-> Productions(g, n)]
    BY <1>3, <2>1
  <2> QED
    BY <1>2, <2>2
<1>4. CASE k # 0
  <2>1. PICK f : f = [n \in 0 .. k - 1 |-> Productions(f, n)]
    BY <1>2, <1>4
  <2> DEFINE g == [n \in 0 .. k |-> IF n < k THEN f[n] ELSE Productions(f, k)]
  <2>2. \A n \in 0 .. k : Productions(g, n) = Productions(f, n)
    BY <1>2, ProductionsLocal
  <2>3. \A n \in 0 .. k : (IF n < k THEN f[n] ELSE Productions(f, k)) = Productions(g, n)
    <3>1. \A n \in 0 .. k - 1 : f[n] = Productions(f, n)
      BY <2>1
    <3>2. \A n \in 0 .. k : (IF n < k THEN f[n] ELSE Productions(f, k)) = Productions(f, n)
      BY <1>2, <3>1
    <3> HIDE DEF g
    <3> QED
      BY <2>2, <3>2
  <2>4. \A q : q = g => q = [n \in 0 .. k |-> Productions(q, n)]
    BY <2>3
  <2> QED
    BY <1>2, <2>4
<1> QED
  BY <1>2, <1>3, <1>4

\* And Grammar is one.
LEMMA GrammarUnfolds ==
  ASSUME NEW n \in 0 .. MaxTokens
  PROVE  Grammar[n] = Productions(Grammar, n)
<1>1. PICK g : g = [k \in 0 .. MaxTokens |-> Productions(g, k)]
  BY JsonParserAssumption, GrammarExists
<1>2. Grammar = [k \in 0 .. MaxTokens |-> Productions(Grammar, k)]
  BY <1>1 DEF Grammar
<1> QED
  BY <1>2
-----------------------------------------------------------------------------
\* --- the rules of the grammar ----------------------------------------------

LEMMA Joined ==
  ASSUME NEW s \in Seq(Tokens), NEW t \in Seq(Tokens)
  PROVE  s \o t \in Seq(Tokens) /\ Len(s \o t) = Len(s) + Len(t)
         /\ Len(s) \in Nat /\ Len(t) \in Nat
BY ConcatProperties, LenProperties

LEMMA Shorter ==
  ASSUME NEW s \in Seq(Tokens), NEW t \in Seq(Tokens), Len(s \o t) <= MaxTokens
  PROVE  Len(s) <= MaxTokens
<1>1. Len(s \o t) = Len(s) + Len(t) /\ Len(s) \in Nat /\ Len(t) \in Nat
  BY Joined
<1> QED
  BY <1>1, JsonParserAssumption

LEMMA Associative ==
  ASSUME NEW s \in Seq(Tokens), NEW t \in Seq(Tokens), NEW u \in Seq(Tokens)
  PROVE  (s \o t) \o u = s \o (t \o u)
BY ConcatAssociative

LEMMA Regrouped ==
  ASSUME NEW a \in Seq(Tokens), NEW b \in Seq(Tokens), NEW c \in Seq(Tokens),
         NEW d \in Seq(Tokens)
  PROVE  a \o ((b \o c) \o d) = ((a \o b) \o c) \o d
<1>1. PICK bc \in Seq(Tokens) : bc = b \o c
  BY Joined
<1>2. (a \o bc) \o d = a \o (bc \o d)
  BY Associative, Zenon
<1>3. (a \o b) \o c = a \o (b \o c)
  BY Associative, Zenon
<1> QED
  BY <1>1, <1>2, <1>3, Zenon

LEMMA OneToken ==
  ASSUME NEW x \in Tokens
  PROVE  <<x>> \in Seq(Tokens) /\ Len(<<x>>) = 1
OBVIOUS

LEMMA TwoTokens ==
  ASSUME NEW x \in Tokens, NEW y \in Tokens
  PROVE  <<x>> \o <<y>> = <<x, y>>
<1> DEFINE s == <<x>> \o <<y>>
<1>1. /\ <<x>> \in Seq(Tokens) /\ Len(<<x>>) = 1 /\ <<x>>[1] = x
      /\ <<y>> \in Seq(Tokens) /\ Len(<<y>>) = 1 /\ <<y>>[1] = y
      /\ <<x, y>> \in Seq(Tokens) /\ Len(<<x, y>>) = 2 /\ <<x, y>>[1] = x /\ <<x, y>>[2] = y
  OBVIOUS
<1>2. /\ s \in Seq(Tokens) /\ Len(s) = 2
      /\ \A i \in 1 .. 2 : s[i] = IF i <= 1 THEN <<x>>[i] ELSE <<y>>[i - 1]
  BY <1>1, ConcatProperties
<1>3. s[1] = x /\ s[2] = y
  BY <1>1, <1>2
<1>4. \A i \in 1 .. 2 : s[i] = <<x, y>>[i]
  BY <1>1, <1>3
<1> HIDE DEF s
<1>5. s = <<x, y>>
  BY <1>1, <1>2, <1>4, SeqEqual
<1> QED
  BY <1>5 DEF s

LEMMA FirstToken ==
  ASSUME NEW x \in Tokens, NEW s \in Seq(Tokens)
  PROVE  (<<x>> \o s)[1] = x
BY OneToken, ConcatProperties, LenProperties

\* The equations of the grammar, as the rules they stand for.
LEMMA Rules ==
  ASSUME NEW n \in 1 .. MaxTokens
  PROVE  /\ Grammar[n].root \subseteq Grammar[n].value
         /\ Grammar[n].value \subseteq Grammar[n].values
         /\ n = 1 => {<<"VALUE">>, <<"STRVALUE">>} \subseteq Grammar[n].value
         /\ n = 2 => {<<"ARRAYSTART", "ARRAYEND">>, <<"OBJECTSTART", "OBJECTEND">>}
                       \subseteq Grammar[n].root
         /\ n > 2 =>
              /\ Enclosed("ARRAYSTART", Grammar[n - 2].values, "ARRAYEND") \subseteq Grammar[n].root
              /\ Enclosed("OBJECTSTART", Grammar[n - 2].members, "OBJECTEND") \subseteq Grammar[n].root
              /\ Named(Grammar[n - 2].value) \subseteq Grammar[n].members
         /\ \A k \in 1 .. n - 2 :
              Separated(Grammar[k].value, Grammar[n - 1 - k].values) \subseteq Grammar[n].values
         /\ \A k \in 1 .. n - 4 :
              Separated(Named(Grammar[k].value), Grammar[n - 3 - k].members)
                \subseteq Grammar[n].members
<1>1. n \in 0 .. MaxTokens /\ MaxTokens \in Nat
  BY JsonParserAssumption
<1>2. Grammar[n] = Productions(Grammar, n)
  BY <1>1, GrammarUnfolds
<1>3. /\ Grammar[n].root \subseteq Grammar[n].value
      /\ Grammar[n].value \subseteq Grammar[n].values
  BY <1>2 DEF Productions
<1>4. n = 1 => {<<"VALUE">>, <<"STRVALUE">>} \subseteq Grammar[n].value
  BY <1>2 DEF Productions
<1>5. n = 2 => {<<"ARRAYSTART", "ARRAYEND">>, <<"OBJECTSTART", "OBJECTEND">>}
                 \subseteq Grammar[n].root
  BY <1>2 DEF Productions
<1>6. n > 2 =>
        /\ Enclosed("ARRAYSTART", Grammar[n - 2].values, "ARRAYEND") \subseteq Grammar[n].root
        /\ Enclosed("OBJECTSTART", Grammar[n - 2].members, "OBJECTEND") \subseteq Grammar[n].root
        /\ Named(Grammar[n - 2].value) \subseteq Grammar[n].members
  <2> SUFFICES ASSUME n > 2
               PROVE  /\ Enclosed("ARRAYSTART", Grammar[n - 2].values, "ARRAYEND") \subseteq Grammar[n].root
                      /\ Enclosed("OBJECTSTART", Grammar[n - 2].members, "OBJECTEND") \subseteq Grammar[n].root
                      /\ Named(Grammar[n - 2].value) \subseteq Grammar[n].members
    OBVIOUS
  <2>1. n # 2 /\ ~(n < 2) /\ ~(n < 3) /\ n # 1
    OBVIOUS
  <2> QED
    BY <1>2, <2>1 DEF Productions
<1>7. ASSUME NEW k \in 1 .. n - 2
      PROVE  Separated(Grammar[k].value, Grammar[n - 1 - k].values) \subseteq Grammar[n].values
  BY <1>2 DEF Productions
<1>8. ASSUME NEW k \in 1 .. n - 4
      PROVE  Separated(Named(Grammar[k].value), Grammar[n - 3 - k].members)
               \subseteq Grammar[n].members
  BY <1>2 DEF Productions
<1> QED
  BY <1>3, <1>4, <1>5, <1>6, <1>7, <1>8

LEMMA DerivedIn ==
  ASSUME NEW s \in Seq(Tokens), Len(s) \in 1 .. MaxTokens
  PROVE  /\ s \in Grammar[Len(s)].root => s \in Root
         /\ s \in Grammar[Len(s)].value => s \in Value
         /\ s \in Grammar[Len(s)].values => s \in Values
         /\ s \in Grammar[Len(s)].members => s \in Members
BY DEF Derived, Root, Value, Values, Members

LEMMA Scalars ==
  ASSUME NEW x \in {"VALUE", "STRVALUE"}
  PROVE  <<x>> \in Value
<1>1. x \in Tokens /\ 1 \in 1 .. MaxTokens
  BY JsonParserAssumption DEF Tokens
<1>2. <<x>> \in Seq(Tokens) /\ Len(<<x>>) = 1
  BY <1>1, OneToken
<1>3. <<x>> \in Grammar[1].value
  BY <1>1, Rules
<1> QED
  BY <1>1, <1>2, <1>3, DerivedIn

LEMMA RootIsValue == Root \subseteq Value /\ Value \subseteq Values
BY Rules DEF Root, Value, Values, Derived

LEMMA RootIsText == Root \subseteq JsonTexts
<1> SUFFICES ASSUME NEW s \in Root PROVE s \in JsonTexts
  OBVIOUS
<1>1. Len(s) \in 0 .. MaxTokens /\ s \in Grammar[Len(s)].root
  BY DEF Root, Derived
<1> QED
  BY <1>1 DEF JsonTexts

LEMMA SeparatedIn ==
  ASSUME NEW S, NEW T, NEW s \in S, NEW t \in T
  PROVE  (s \o <<"COMMA">>) \o t \in Separated(S, T)
BY DEF Separated

\* A list is a single item, or an item, a comma and a list.
LEMMA ListRules ==
  ASSUME NEW kind \in {"array", "object"}, NEW item \in Item(kind)
  PROVE  /\ item \in Seq(Tokens)
         /\ Len(item) <= MaxTokens => item \in ListOf(kind)
         /\ \A l \in ListOf(kind) :
              Len((item \o <<"COMMA">>) \o l) <= MaxTokens
                => (item \o <<"COMMA">>) \o l \in ListOf(kind)
<1>1. CASE kind = "array"
  <2>1. /\ item \in Value /\ ListOf(kind) = Values
        /\ item \in Seq(Tokens) /\ Len(item) \in 1 .. MaxTokens /\ item \in Grammar[Len(item)].value
    BY <1>1 DEF Item, ListOf, Value, Derived
  <2>2. ASSUME NEW l \in Values, Len((item \o <<"COMMA">>) \o l) <= MaxTokens
        PROVE  (item \o <<"COMMA">>) \o l \in Values
    <3> DEFINE k == Len(item)
               n == Len((item \o <<"COMMA">>) \o l)
    <3>1. /\ l \in Seq(Tokens) /\ Len(l) \in 1 .. MaxTokens /\ l \in Grammar[Len(l)].values
          /\ "COMMA" \in Tokens
      BY DEF Values, Derived, Tokens
    <3>2. <<"COMMA">> \in Seq(Tokens) /\ Len(<<"COMMA">>) = 1
      BY <3>1, OneToken
    <3>3. item \o <<"COMMA">> \in Seq(Tokens) /\ Len(item \o <<"COMMA">>) = k + 1
      BY <2>1, <3>2, Joined
    <3>4. (item \o <<"COMMA">>) \o l \in Seq(Tokens) /\ n = k + 1 + Len(l)
      BY <3>1, <3>3, Joined
    <3>5. n \in 1 .. MaxTokens /\ k \in 1 .. n - 2 /\ n - 1 - k = Len(l)
      BY <2>1, <2>2, <3>1, <3>4, JsonParserAssumption
    <3>6. (item \o <<"COMMA">>) \o l \in Separated(Grammar[k].value, Grammar[n - 1 - k].values)
      <4>1. item \in Grammar[k].value /\ l \in Grammar[n - 1 - k].values
        BY <2>1, <3>1, <3>5
      <4> HIDE DEF k, n
      <4> QED
        BY <4>1, SeparatedIn
    <3>7. (item \o <<"COMMA">>) \o l \in Grammar[n].values
      BY <3>5, <3>6, Rules
    <3> QED
      BY <3>4, <3>5, <3>7, DerivedIn
  <2> QED
    BY <2>1, <2>2, RootIsValue
<1>2. CASE kind = "object"
  <2> DEFINE two == <<"STRVALUE", "COLON">>
  <2>0. Item(kind) = Named(Value) /\ ListOf(kind) = Members
    BY <1>2 DEF Item, ListOf
  <2>1. PICK v \in Value : item = two \o v
    BY <2>0 DEF Named
  <2>2. two \in Seq(Tokens) /\ Len(two) = 2
    BY DEF Tokens
  <2>3. v \in Seq(Tokens) /\ Len(v) \in 1 .. MaxTokens /\ v \in Grammar[Len(v)].value
    BY DEF Value, Derived
  <2>4. item \in Seq(Tokens) /\ Len(item) = 2 + Len(v)
    BY <2>1, <2>2, <2>3, Joined
  <2>5. ASSUME Len(item) <= MaxTokens
        PROVE  item \in Members
    <3>1. Len(item) \in 1 .. MaxTokens /\ Len(item) > 2 /\ Len(item) - 2 = Len(v)
      BY <2>3, <2>4, <2>5, JsonParserAssumption
    <3>2. item \in Named(Grammar[Len(item) - 2].value)
      BY <2>1, <2>3, <3>1 DEF Named
    <3> QED
      BY <2>4, <3>1, <3>2, Rules, DerivedIn
  <2>6. ASSUME NEW l \in Members, Len((item \o <<"COMMA">>) \o l) <= MaxTokens
        PROVE  (item \o <<"COMMA">>) \o l \in Members
    <3> DEFINE k == Len(v)
               n == Len((item \o <<"COMMA">>) \o l)
    <3>1. /\ l \in Seq(Tokens) /\ Len(l) \in 1 .. MaxTokens /\ l \in Grammar[Len(l)].members
          /\ "COMMA" \in Tokens
      BY DEF Members, Derived, Tokens
    <3>2. <<"COMMA">> \in Seq(Tokens) /\ Len(<<"COMMA">>) = 1
      BY <3>1, OneToken
    <3>3. item \o <<"COMMA">> \in Seq(Tokens) /\ Len(item \o <<"COMMA">>) = k + 3
      BY <2>3, <2>4, <3>2, Joined
    <3>4. (item \o <<"COMMA">>) \o l \in Seq(Tokens) /\ n = k + 3 + Len(l)
      BY <3>1, <3>3, <2>3, Joined
    <3>5. n \in 1 .. MaxTokens /\ k \in 1 .. n - 4 /\ n - 3 - k = Len(l)
      BY <2>3, <2>6, <3>1, <3>4, JsonParserAssumption
    <3>6. item \in Named(Grammar[k].value)
      BY <2>1, <2>3 DEF Named
    <3>7. (item \o <<"COMMA">>) \o l
            \in Separated(Named(Grammar[k].value), Grammar[n - 3 - k].members)
      <4>1. l \in Grammar[n - 3 - k].members
        BY <3>1, <3>5
      <4> HIDE DEF k, n
      <4> QED
        BY <3>6, <4>1, SeparatedIn
    <3>8. (item \o <<"COMMA">>) \o l \in Grammar[n].members
      BY <3>5, <3>7, Rules
    <3> QED
      BY <3>4, <3>5, <3>8, DerivedIn
  <2> QED
    BY <2>0, <2>4, <2>5, <2>6
<1> QED
  BY <1>1, <1>2

LEMMA Brackets ==
  ASSUME NEW kind \in {"array", "object"}
  PROVE  /\ End(kind) \in Tokens /\ Start(kind) \in Tokens
         /\ MaxTokens >= 2 => <<Start(kind), End(kind)>> \in Root
         /\ \A l \in ListOf(kind) :
              Len((<<Start(kind)>> \o l) \o <<End(kind)>>) <= MaxTokens
                => (<<Start(kind)>> \o l) \o <<End(kind)>> \in Root
<1>1. End(kind) \in Tokens /\ Start(kind) \in Tokens
  BY DEF End, Start, Tokens
<1>2. ASSUME MaxTokens >= 2
      PROVE  <<Start(kind), End(kind)>> \in Root
  <2>1. 2 \in 1 .. MaxTokens
    BY <1>2, JsonParserAssumption
  <2>2. /\ <<Start(kind), End(kind)>> \in Seq(Tokens)
        /\ Len(<<Start(kind), End(kind)>>) = 2
    BY <1>1
  <2>3. <<Start(kind), End(kind)>> \in Grammar[2].root
    BY <2>1, Rules DEF Start, End
  <2> QED
    BY <2>1, <2>2, <2>3, DerivedIn
<1>3. ASSUME NEW l \in ListOf(kind),
             Len((<<Start(kind)>> \o l) \o <<End(kind)>>) <= MaxTokens
      PROVE  (<<Start(kind)>> \o l) \o <<End(kind)>> \in Root
  <2> DEFINE text == (<<Start(kind)>> \o l) \o <<End(kind)>>
             n == Len(text)
  <2>1. /\ l \in Seq(Tokens) /\ Len(l) \in 1 .. MaxTokens
        /\ l \in IF kind = "array" THEN Grammar[Len(l)].values ELSE Grammar[Len(l)].members
    BY DEF ListOf, Values, Members, Derived
  <2>2. /\ <<Start(kind)>> \in Seq(Tokens) /\ Len(<<Start(kind)>>) = 1
        /\ <<End(kind)>> \in Seq(Tokens) /\ Len(<<End(kind)>>) = 1
    BY <1>1, OneToken
  <2>3. <<Start(kind)>> \o l \in Seq(Tokens) /\ Len(<<Start(kind)>> \o l) = 1 + Len(l)
    BY <2>1, <2>2, Joined
  <2>4. text \in Seq(Tokens) /\ n = Len(l) + 2
    BY <2>1, <2>2, <2>3, Joined
  <2>5. n \in 1 .. MaxTokens /\ n > 2 /\ n - 2 = Len(l)
    BY <1>3, <2>1, <2>4, JsonParserAssumption
  <2>6. text \in Enclosed("ARRAYSTART", Grammar[n - 2].values, "ARRAYEND")
        \/ text \in Enclosed("OBJECTSTART", Grammar[n - 2].members, "OBJECTEND")
    <3>1. IF kind = "array" THEN l \in Grammar[n - 2].values ELSE l \in Grammar[n - 2].members
      BY <2>1, <2>5
    <3> HIDE DEF n
    <3> QED
      BY <3>1 DEF Enclosed, Start, End
  <2>7. text \in Grammar[n].root
    <3> HIDE DEF text
    <3> QED
      BY <2>5, <2>6, Rules
  <2> QED
    BY <2>4, <2>5, <2>7, DerivedIn
<1> QED
  BY <1>1, <1>2, <1>3, JsonParserAssumption
-----------------------------------------------------------------------------
\* --- what a call has popped -------------------------------------------------

LEMMA Segments ==
  ASSUME NEW kind \in {"array", "object"}
  PROVE  /\ Value \subseteq Seq(Tokens) /\ ListOf(kind) \subseteq Seq(Tokens)
         /\ Waiting(kind) \subseteq Seq(Tokens)
         /\ \A frame \in Frame : Collected(frame) \subseteq Seq(Tokens)
         /\ Unnamed \subseteq Seq(Tokens)
<1>1. /\ Value \subseteq Seq(Tokens)
      /\ \A k \in {"array", "object"} : ListOf(k) \subseteq Seq(Tokens)
  BY DEF Value, ListOf, Values, Members, Derived
<1>2. ASSUME NEW k \in {"array", "object"}
      PROVE  /\ <<End(k)>> \in Seq(Tokens)
             /\ \A l \in ListOf(k) : l \o <<End(k)>> \in Seq(Tokens)
             /\ Waiting(k) \subseteq Seq(Tokens)
  <2>1. <<End(k)>> \in Seq(Tokens) /\ <<"COMMA">> \in Seq(Tokens)
    BY Brackets, OneToken DEF Tokens
  <2>2. \A l \in ListOf(k) : l \o <<End(k)>> \in Seq(Tokens)
    BY <1>1, <2>1, Joined
  <2>3. \A l \in ListOf(k) : <<"COMMA">> \o (l \o <<End(k)>>) \in Seq(Tokens)
    BY <2>1, <2>2, Joined
  <2> QED
    BY <2>1, <2>2, <2>3 DEF Waiting
<1>3. \A frame \in Frame : Collected(frame) \subseteq Seq(Tokens)
  <2> SUFFICES ASSUME NEW frame \in Frame PROVE Collected(frame) \subseteq Seq(Tokens)
    OBVIOUS
  <2>1. frame.kind \in {"array", "object"} /\ frame.has_value \in BOOLEAN
    BY DEF Frame
  <2> QED
    BY <1>2, <2>1 DEF Collected
<1>4. Unnamed \subseteq Seq(Tokens)
  <2>1. \A v \in Value, w \in Waiting("object") : v \o w \in Seq(Tokens)
    BY <1>1, <1>2, Joined
  <2> SUFFICES ASSUME NEW u \in Unnamed PROVE u \in Seq(Tokens)
    OBVIOUS
  <2>2. PICK v \in Value, w \in Waiting("object") : u = v \o w
    BY DEF Unnamed
  <2> QED
    BY <2>1, <2>2
<1> QED
  BY <1>1, <1>2, <1>3, <1>4

LEMMA UnnamedIn ==
  ASSUME NEW v \in Value, NEW w \in Waiting("object")
  PROVE  v \o w \in Unnamed
BY DEF Unnamed

\* An item put before what a waiting call has popped makes a longer list.
LEMMA Joining ==
  ASSUME NEW kind \in {"array", "object"}, NEW item \in Item(kind),
         NEW w \in Waiting(kind), Len(item \o w) <= MaxTokens
  PROVE  item \o w \in {l \o <<End(kind)>> : l \in ListOf(kind)}
<1>1. /\ item \in Seq(Tokens) /\ w \in Seq(Tokens) /\ ListOf(kind) \subseteq Seq(Tokens)
      /\ <<End(kind)>> \in Seq(Tokens) /\ Len(<<End(kind)>>) = 1
      /\ <<"COMMA">> \in Seq(Tokens)
  BY ListRules, Segments, Brackets, OneToken DEF Tokens
<1>2. CASE w = <<End(kind)>>
  <2>1. Len(item) <= MaxTokens
    <3>1. Len(item \o w) = Len(item) + 1 /\ Len(item) \in Nat
      BY <1>1, <1>2, Joined
    <3> QED
      BY <3>1, JsonParserAssumption
  <2> QED
    BY <1>2, <2>1, ListRules
<1>3. ASSUME NEW l \in ListOf(kind), w = <<"COMMA">> \o (l \o <<End(kind)>>)
      PROVE  item \o w \in {k \o <<End(kind)>> : k \in ListOf(kind)}
  <2> DEFINE longer == (item \o <<"COMMA">>) \o l
  <2>1. /\ l \in Seq(Tokens) /\ l \o <<End(kind)>> \in Seq(Tokens)
        /\ item \o <<"COMMA">> \in Seq(Tokens)
    BY <1>1, Joined
  <2>2. longer \in Seq(Tokens)
    BY <2>1, Joined
  <2>3. item \o w = longer \o <<End(kind)>>
    <3>1. item \o w = (item \o <<"COMMA">>) \o (l \o <<End(kind)>>)
      BY <1>1, <1>3, <2>1, Associative
    <3> QED
      BY <1>1, <2>1, <3>1, Associative
  <2>4. Len(longer) <= MaxTokens
    <3>1. Len(item \o w) = Len(longer) + 1 /\ Len(longer) \in Nat
      BY <1>1, <2>2, <2>3, Joined
    <3> QED
      BY <3>1, JsonParserAssumption
  <2>5. longer \in ListOf(kind)
    BY <2>4, ListRules
  <2> HIDE DEF longer
  <2> QED
    BY <2>3, <2>5
<1> QED
  BY <1>2, <1>3 DEF Waiting

\* An opening bracket completes what it closes.
LEMMA Closing ==
  ASSUME NEW frame \in Frame, NEW p \in Collected(frame),
         Len(<<Start(frame.kind)>> \o p) <= MaxTokens
  PROVE  <<Start(frame.kind)>> \o p \in Root
<1> DEFINE kind == frame.kind
<1>0. kind \in {"array", "object"} /\ frame.has_value \in BOOLEAN
  BY DEF Frame
<1>1. /\ <<Start(kind)>> \in Seq(Tokens) /\ <<End(kind)>> \in Seq(Tokens)
      /\ ListOf(kind) \subseteq Seq(Tokens)
  BY <1>0, Brackets, OneToken, Segments
<1>2. CASE frame.has_value
  <2>1. PICK l \in ListOf(kind) : p = l \o <<End(kind)>>
    BY <1>0, <1>2 DEF Collected
  <2>2. <<Start(kind)>> \o p = (<<Start(kind)>> \o l) \o <<End(kind)>>
    BY <1>1, <2>1, Associative
  <2> QED
    BY <1>0, <2>1, <2>2, Brackets
<1>3. CASE ~frame.has_value
  <2>1. p = <<End(kind)>>
    BY <1>3 DEF Collected
  <2>2. <<Start(kind)>> \o p = <<Start(kind), End(kind)>>
    BY <1>0, <2>1, Brackets, TwoTokens
  <2>3. MaxTokens >= 2
    BY <1>3, <2>2, JsonParserAssumption
  <2> QED
    BY <2>2, <2>3, <1>0, Brackets
<1> QED
  BY <1>0, <1>2, <1>3

LEMMA LastFrame ==
  ASSUME NEW frames \in Seq(Frame), frames # <<>>
  PROVE  /\ Len(frames) \in Nat \ {0} /\ Last(frames) = frames[Len(frames)]
         /\ Last(frames) \in Frame /\ Last(frames).has_value \in BOOLEAN
         /\ Last(frames).kind \in {"array", "object"}
<1>1. Len(frames) \in Nat \ {0} /\ Last(frames) = frames[Len(frames)]
  BY EmptySeq DEF Last
<1>2. frames[Len(frames)] \in Frame
  BY <1>1, ElementOfSeq
<1> QED
  BY <1>1, <1>2 DEF Frame

LEMMA ChainShrinks ==
  ASSUME NEW frames, NEW t, NEW n \in Nat, Chain(t, frames, n)
  PROVE  /\ t[n] \in Seq(Tokens)
         /\ n = 0 => t[n] = <<>>
         /\ n # 0 => /\ Chain(t, frames, n - 1)
                     /\ \E w \in Waiting(frames[n].kind) : t[n] = w \o t[n - 1]
<1>1. n \in 0 .. n /\ (n # 0 => n \in 1 .. n)
  OBVIOUS
<1>2. t[n] \in Seq(Tokens) /\ (n = 0 => t[n] = <<>>)
  BY <1>1 DEF Chain
<1>3. n # 0 => \E w \in Waiting(frames[n].kind) : t[n] = w \o t[n - 1]
  BY <1>1 DEF Chain
<1>4. (0 .. n - 1) \subseteq (0 .. n) /\ (1 .. n - 1) \subseteq (1 .. n)
  OBVIOUS
<1>5. Chain(t, frames, n - 1)
  BY <1>4 DEF Chain
<1> QED
  BY <1>2, <1>3, <1>5

LEMMA ChainGrows ==
  ASSUME NEW frames, NEW t, NEW n \in Nat, Chain(t, frames, n),
         frames[n + 1].kind \in {"array", "object"}, NEW w \in Waiting(frames[n + 1].kind)
  PROVE  \E u : Chain(u, frames, n + 1) /\ u[n + 1] = w \o t[n]
<1> DEFINE u == [i \in 0 .. n + 1 |-> IF i = n + 1 THEN w \o t[n] ELSE t[i]]
<1>1. t[n] \in Seq(Tokens) /\ w \in Seq(Tokens)
  BY ChainShrinks, Segments
<1>2. w \o t[n] \in Seq(Tokens)
  BY <1>1, Joined
<1>3. /\ \A i \in 0 .. n : u[i] = t[i]
      /\ u[n + 1] = w \o t[n]
  OBVIOUS
<1> HIDE DEF u
<1>4. \A i \in 0 .. n + 1 : u[i] \in Seq(Tokens)
  <2>1. ASSUME NEW i \in 0 .. n PROVE u[i] \in Seq(Tokens)
    BY <1>3 DEF Chain
  <2>2. \A i \in 0 .. n + 1 : i \in 0 .. n \/ i = n + 1
    OBVIOUS
  <2> QED
    BY <1>2, <1>3, <2>1, <2>2
<1>5. u[0] = <<>>
  BY <1>3 DEF Chain
<1>6. ASSUME NEW i \in 1 .. n + 1
      PROVE  \E x \in Waiting(frames[i].kind) : u[i] = x \o u[i - 1]
  <2>1. CASE i = n + 1
    <3>1. u[i - 1] = t[n]
      BY <1>3, <2>1
    <3> QED
      BY <1>3, <2>1, <3>1
  <2>2. CASE i # n + 1
    <3>1. i \in 1 .. n /\ u[i] = t[i] /\ u[i - 1] = t[i - 1]
      BY <1>3, <2>2
    <3> QED
      BY <3>1 DEF Chain
  <2> QED
    BY <2>1, <2>2
<1> QED
  BY <1>3, <1>4, <1>5, <1>6 DEF Chain

\* A chain depends on the kinds of the frames only.
LEMMA ChainOfKinds ==
  ASSUME NEW frames, NEW others, NEW t, NEW n \in Nat,
         Chain(t, frames, n), \A i \in 1 .. n : others[i].kind = frames[i].kind
  PROVE  Chain(t, others, n)
BY DEF Chain

\* The caller that a complete value returns to.
LEMMA Returning ==
  ASSUME NEW callers \in Seq(Frame), callers # <<>>, Accept(callers)
  PROVE  /\ stack' \in Seq(Frame) /\ Len(stack') = Len(callers) /\ stack' # <<>>
         /\ \A i \in 1 .. Len(callers) : stack'[i].kind = callers[i].kind
         /\ Last(stack').kind = Last(callers).kind /\ Last(stack').has_value
         /\ pc' = IF Last(callers).kind = "array" THEN "loop" ELSE "colon"
         /\ verdict' = verdict
<1> DEFINE n == Len(callers)
           e == [callers[n] EXCEPT !.has_value = TRUE]
<1>1. n \in Nat \ {0} /\ n \in 1 .. n /\ Last(callers) = callers[n] /\ callers[n] \in Frame
  BY LastFrame
<1>2. e \in Frame /\ e.kind = callers[n].kind /\ e.has_value
  BY <1>1 DEF Frame
<1>3. /\ stack' = [callers EXCEPT ![n] = e] /\ verdict' = verdict
      /\ pc' = IF Last(callers).kind = "array" THEN "loop" ELSE "colon"
  BY <1>1 DEF Accept
<1> HIDE DEF n, e
<1>4. /\ Len([callers EXCEPT ![n] = e]) = Len(callers)
      /\ [callers EXCEPT ![n] = e] \in Seq(Frame)
      /\ \A j \in 1 .. Len(callers) :
           [callers EXCEPT ![n] = e][j] = IF j = n THEN e ELSE callers[j]
  <2>1. n \in 1 .. Len(callers)
    BY <1>1 DEF n
  <2> QED
    BY <1>2, <2>1, ExceptSeq
<1>5. stack' \in Seq(Frame) /\ Len(stack') = n /\ n = Len(callers) /\ stack'[n] = e
      /\ \A i \in 1 .. n : stack'[i] = IF i = n THEN e ELSE callers[i]
  BY <1>1, <1>3, <1>4 DEF n
<1>6. stack' # <<>> /\ Last(stack') = e
  BY <1>1, <1>5 DEF Last
<1> QED
  BY <1>1, <1>2, <1>3, <1>5, <1>6

\* A value is complete: the call returns, and its caller, if there is one, has it.
LEMMA Accepting ==
  ASSUME NEW callers \in Seq(Frame), NEW t, Chain(t, callers, Len(callers)),
         NEW v \in Value, v[1] \in {"ARRAYSTART", "OBJECTSTART"} => v \in Root,
         popped' = v \o t[Len(callers)], Len(popped') <= MaxTokens, Accept(callers)
  PROVE  Accounted' /\ AcceptsOnlyJson'
<1>1. v \in Seq(Tokens)
  BY Segments
<1>2. CASE callers = <<>>
  <2>1. popped' = v
    <3>1. Len(callers) = 0
      BY <1>2
    <3>2. t[Len(callers)] = <<>>
      BY <3>1, ChainShrinks
    <3> QED
      BY <1>1, <3>2, ConcatEmptySeq
  <2>2. pc' = "done" /\ verdict' = (top' = Empty /\ v[1] \in {"ARRAYSTART", "OBJECTSTART"})
    BY <1>2, <2>1 DEF Accept
  <2>3. Accounted'
    BY <2>2 DEF Accounted
  <2>4. ASSUME verdict' PROVE top' = Empty /\ popped' \in JsonTexts
    BY <2>1, <2>2, <2>4, RootIsText
  <2> QED
    BY <2>3, <2>4 DEF AcceptsOnlyJson
<1>3. CASE callers # <<>>
  <2> DEFINE kind == Last(callers).kind
  <2>1. PICK n \in Nat \ {0} : n = Len(callers)
    BY <1>3, LastFrame
  <2>2. /\ Last(callers) = callers[n] /\ callers[n] \in Frame
        /\ kind \in {"array", "object"}
    BY <1>3, <2>1, LastFrame
  <2>3. pc' = IF kind = "array" THEN "loop" ELSE "colon"
    BY <1>3, Returning
  <2>5. /\ Len(stack') = n /\ stack' \in Seq(Frame)
        /\ \A i \in 1 .. n : stack'[i].kind = callers[i].kind
    BY <1>3, <2>1, Returning
  <2>6. Last(stack').kind = kind /\ Last(stack').has_value
    BY <1>3, Returning
  <2>7. kind = callers[n].kind
    BY <2>2
  <2> HIDE DEF kind
  <2>8. Chain(t, callers, n) /\ t[n] \in Seq(Tokens) /\ n \in Nat /\ n # 0
    BY <2>1, ChainShrinks
  <2>9. Chain(t, callers, n - 1) /\ \E x \in Waiting(kind) : t[n] = x \o t[n - 1]
    BY <2>7, <2>8, ChainShrinks
  <2>10. PICK w \in Waiting(kind) : t[n] = w \o t[n - 1]
    BY <2>9
  <2>11. Chain(t, stack', n - 1) /\ t[n - 1] \in Seq(Tokens)
    <3>1. n - 1 \in Nat /\ \A i \in 1 .. n - 1 : stack'[i].kind = callers[i].kind
      BY <2>5, <2>8
    <3>2. t[n - 1] \in Seq(Tokens)
      BY <2>9, <3>1, ChainShrinks
    <3> QED
      BY <2>9, <3>1, <3>2, ChainOfKinds
  <2>a. w \in Seq(Tokens) /\ v \o w \in Seq(Tokens)
    BY <1>1, <2>2, Segments, Joined
  <2>b. popped' = (v \o w) \o t[n - 1]
    <3>1. popped' = v \o (w \o t[n - 1])
      BY <2>1, <2>10
    <3> QED
      BY <1>1, <2>11, <2>a, <3>1, Associative
  <2>12. CASE kind = "array"
    <3>1. Len(v \o w) <= MaxTokens
      <4>1. Len((v \o w) \o t[n - 1]) <= MaxTokens
        BY <2>b
      <4> QED
        BY <2>11, <2>a, <4>1, Shorter
    <3>2. v \in Item(kind)
      BY <2>12 DEF Item
    <3>3. v \o w \in {l \o <<End(kind)>> : l \in ListOf(kind)}
      BY <2>2, <3>1, <3>2, Joining
    <3>4. v \o w \in Collected(Last(stack'))
      BY <2>6, <3>3 DEF Collected
    <3>5. Popping(Collected(Last(stack)))'
      BY <2>5, <2>11, <2>b, <3>4 DEF Popping
    <3> QED
      BY <2>3, <2>12, <3>5 DEF Accounted, AcceptsOnlyJson
  <2>13. CASE kind = "object"
    <3>1. v \o w \in Unnamed
      <4>1. w \in Waiting("object")
        BY <2>10, <2>13
      <4> QED
        BY <4>1, UnnamedIn
    <3>2. Popping(Unnamed)'
      BY <2>5, <2>11, <2>b, <3>1 DEF Popping
    <3> QED
      BY <2>3, <2>6, <2>13, <3>2 DEF Accounted, AcceptsOnlyJson
  <2> QED
    BY <2>2, <2>12, <2>13
<1> QED
  BY <1>2, <1>3
-----------------------------------------------------------------------------
\* --- types -------------------------------------------------------------------

LEMMA Popped ==
  ASSUME TypeOK, Bounded, top \in Tokens, Pop
  PROVE  /\ top' \in Tokens \cup {Empty}
         /\ popped' = <<top>> \o popped /\ popped' \in Seq(Tokens)
         /\ Len(popped') = Len(popped) + 1 /\ Len(popped') <= MaxTokens
         /\ Bounded'
<1>1. popped \in Seq(Tokens) /\ Len(popped) \in Nat /\ top # Empty
  BY DEF TypeOK, Tokens, Empty
<1>2. <<top>> \in Seq(Tokens) /\ Len(<<top>>) = 1
  BY OneToken
<1>3. popped' = <<top>> \o popped
  BY DEF Pop
<1>4. popped' \in Seq(Tokens) /\ Len(popped') = Len(popped) + 1
  <2>1. <<top>> \o popped \in Seq(Tokens) /\ Len(<<top>> \o popped) = 1 + Len(popped)
    BY <1>1, <1>2, Joined
  <2> QED
    BY <1>1, <1>3, <2>1
<1>5. Len(popped') <= MaxTokens
  BY <1>1, <1>4, JsonParserAssumption DEF Bounded
<1>6. top' \in Tokens \cup {Empty} /\ (top' # Empty => Len(popped) + 1 < MaxTokens)
  BY DEF Pop
<1> QED
  BY <1>3, <1>4, <1>5, <1>6 DEF Bounded

LEMMA AcceptTypes ==
  ASSUME TypeOK, NEW callers \in Seq(Frame), Len(callers) <= Len(stack), Accept(callers)
  PROVE  /\ stack' \in Seq(Frame) /\ Len(stack') <= Len(stack)
         /\ pc' \in {"loop", "colon", "done"}
         /\ pc' \in {"loop", "colon"} => stack' # <<>>
         /\ pc' = "colon" => Last(stack').kind = "object"
         /\ verdict' \in BOOLEAN
<1>1. CASE callers = <<>>
  BY <1>1 DEF Accept, TypeOK
<1>2. CASE callers # <<>>
  BY <1>2, Returning, LastFrame DEF TypeOK
<1> QED
  BY <1>1, <1>2

LEMMA CallersTyped ==
  ASSUME NEW frames \in Seq(Frame), frames # <<>>
  PROVE  /\ Front(frames) \in Seq(Frame) /\ Len(Front(frames)) = Len(frames) - 1
         /\ \A i \in 1 .. Len(frames) - 1 : Front(frames)[i] = frames[i]
<1>1. Len(frames) \in Nat \ {0}
  BY EmptySeq
<1>2. \A i \in 1 .. Len(frames) - 1 : i \in 1 .. Len(frames)
  BY <1>1
<1>3. \A i \in 1 .. Len(frames) - 1 : frames[i] \in Frame
  BY <1>2, ElementOfSeq
<1>4. /\ Front(frames) \in Seq(Frame)
      /\ Len(Front(frames)) = IF 1 <= Len(frames) - 1 THEN Len(frames) - 1 - 1 + 1 ELSE 0
      /\ \A i \in 1 .. Len(frames) - 1 - 1 + 1 : Front(frames)[i] = frames[1 + i - 1]
  <2>1. 1 \in Int /\ Len(frames) - 1 \in Int
    BY <1>1
  <2> QED
    BY <1>3, <2>1, SubSeqProperties DEF Front
<1>5. Len(Front(frames)) = Len(frames) - 1
  <2>1. \A n \in Nat \ {0} : (IF 1 <= n - 1 THEN n - 1 - 1 + 1 ELSE 0) = n - 1
    OBVIOUS
  <2> QED
    BY <1>1, <1>4, <2>1, Zenon
<1>6. ASSUME NEW i \in 1 .. Len(frames) - 1 PROVE Front(frames)[i] = frames[i]
  <2>1. i \in 1 .. Len(frames) - 1 - 1 + 1 /\ 1 + i - 1 = i
    BY <1>1
  <2> QED
    BY <1>4, <2>1
<1> QED
  BY <1>4, <1>5, <1>6

LEMMA CallTypes ==
  ASSUME TypeOK, Bounded, Call
  PROVE  TypeOK' /\ Bounded'
<1>1. CASE top = Empty /\ Reject /\ UNCHANGED <<top, popped>>
  BY <1>1 DEF Reject, TypeOK, Bounded
<1>2. CASE top \in {"VALUE", "STRVALUE"} /\ Pop /\ Accept(stack)
  <2>1. top \in Tokens /\ stack \in Seq(Frame) /\ Len(stack) \in Nat /\ Len(popped) \in Nat
    BY <1>2 DEF Tokens, TypeOK
  <2>2. /\ stack' \in Seq(Frame) /\ Len(stack') <= Len(stack)
        /\ pc' \in {"loop", "colon", "done"}
        /\ pc' \in {"loop", "colon"} => stack' # <<>>
        /\ pc' = "colon" => Last(stack').kind = "object"
        /\ verdict' \in BOOLEAN
    BY <1>2, <2>1, AcceptTypes
  <2> QED
    BY <1>2, <2>1, <2>2, Popped DEF TypeOK
<1>3. ASSUME NEW kind \in {"array", "object"}, top \in Tokens, Pop, Enter(kind)
      PROVE  TypeOK' /\ Bounded'
  <2>1. /\ stack \in Seq(Frame) /\ Len(stack) <= Len(popped)
        /\ Len(stack) \in Nat /\ Len(popped) \in Nat /\ verdict \in BOOLEAN
    BY DEF TypeOK
  <2>2. stack' = Append(stack, [kind |-> kind, has_value |-> FALSE])
        /\ pc' = "loop" /\ verdict' = verdict
    BY <1>3 DEF Enter
  <2>3. stack' \in Seq(Frame) /\ Len(stack') = Len(stack) + 1 /\ stack' # <<>>
    <3>1. [kind |-> kind, has_value |-> FALSE] \in Frame
      BY DEF Frame
    <3> QED
      BY <2>1, <2>2, <3>1, AppendProperties
  <2> QED
    BY <1>3, <2>1, <2>2, <2>3, Popped DEF TypeOK
<1>4. CASE top \in {"COMMA", "COLON", "ARRAYSTART", "OBJECTSTART"} /\ Pop /\ Reject
  <2>1. /\ top \in Tokens /\ stack \in Seq(Frame) /\ Len(stack) \in Nat
        /\ Len(popped) \in Nat /\ Len(stack) <= Len(popped)
    BY <1>4 DEF Tokens, TypeOK
  <2>2. /\ top' \in Tokens \cup {Empty} /\ popped' \in Seq(Tokens) /\ Len(popped') <= MaxTokens
        /\ Len(popped') \in Nat /\ Len(stack) <= Len(popped') /\ Bounded'
    BY <1>4, <2>1, Popped
  <2>3. stack' = stack /\ pc' = "done" /\ verdict' = FALSE
    BY <1>4 DEF Reject
  <2> QED
    BY <2>1, <2>2, <2>3 DEF TypeOK
<1> QED
  BY <1>1, <1>2, <1>3, <1>4 DEF Call, Tokens

LEMMA LoopTypes ==
  ASSUME TypeOK, Bounded, Loop
  PROVE  TypeOK' /\ Bounded'
<1>1. /\ stack \in Seq(Frame) /\ stack # <<>> /\ Len(stack) \in Nat \ {0}
      /\ Len(popped) \in Nat /\ Len(stack) <= Len(popped)
  BY EmptySeq DEF Loop, TypeOK
<1>2. CASE top = Empty /\ Reject /\ UNCHANGED <<top, popped>>
  BY <1>2 DEF Reject, TypeOK, Bounded
<1>3. CASE Close
  <2>1. top \in Tokens /\ Pop /\ Accept(Callers)
    BY <1>3 DEF Close, Start, Tokens
  <2>2. Callers \in Seq(Frame) /\ Len(Callers) <= Len(stack)
    BY <1>1, CallersTyped DEF Callers
  <2>3. /\ stack' \in Seq(Frame) /\ Len(stack') <= Len(stack)
        /\ pc' \in {"loop", "colon", "done"}
        /\ pc' \in {"loop", "colon"} => stack' # <<>>
        /\ pc' = "colon" => Last(stack').kind = "object"
        /\ verdict' \in BOOLEAN
    BY <2>1, <2>2, AcceptTypes
  <2> QED
    BY <1>1, <2>1, <2>3, Popped DEF TypeOK
<1>4. CASE Another
  <2>1. CASE UNCHANGED <<top, popped, stack, verdict>> /\ pc' = "call"
    BY <2>1 DEF TypeOK, Bounded
  <2>2. CASE top = "COMMA" /\ Pop /\ pc' = "call" /\ UNCHANGED <<stack, verdict>>
    BY <1>1, <2>2, Popped DEF TypeOK, Tokens
  <2>3. CASE Reject /\ UNCHANGED <<top, popped>>
    BY <2>3 DEF Reject, TypeOK, Bounded
  <2> QED
    BY <1>4, <2>1, <2>2, <2>3 DEF Another
<1> QED
  BY <1>2, <1>3, <1>4 DEF Loop

LEMMA MemberTypes ==
  ASSUME TypeOK, Bounded, Colon \/ Name
  PROVE  TypeOK' /\ Bounded'
<1>1. /\ stack # <<>> /\ Last(stack).kind = "object" /\ Len(stack) \in Nat
      /\ Len(popped) \in Nat
  BY DEF Colon, Name, TypeOK
<1>2. CASE Reject /\ UNCHANGED <<top, popped>>
  BY <1>2 DEF Reject, TypeOK, Bounded
<1>3. CASE top \in Tokens /\ Pop /\ pc' \in {"name", "loop"} /\ UNCHANGED <<stack, verdict>>
  <2>1. top' \in Tokens \cup {Empty} /\ popped' \in Seq(Tokens) /\ Len(popped') <= MaxTokens
        /\ Len(popped') = Len(popped) + 1 /\ Bounded'
    BY <1>3, Popped
  <2> QED
    BY <1>1, <1>3, <2>1 DEF TypeOK
<1> QED
  BY <1>2, <1>3 DEF Colon, Name, Tokens
-----------------------------------------------------------------------------
\* --- the tokens are accounted for ------------------------------------------

LEMMA RejectAccounted ==
  ASSUME Reject
  PROVE  Accounted' /\ AcceptsOnlyJson'
BY DEF Reject, Accounted, AcceptsOnlyJson

LEMMA EnterAccounted ==
  ASSUME TypeOK, Bounded, Accounted, pc = "call",
         NEW kind \in {"array", "object"}, top = End(kind), Pop, Enter(kind)
  PROVE  Accounted' /\ AcceptsOnlyJson'
<1> DEFINE n == Len(stack)
           frame == [kind |-> kind, has_value |-> FALSE]
<1>1. PICK t : Chain(t, stack, n) /\ popped = t[n]
  BY DEF Accounted
<1>2. stack' = Append(stack, frame) /\ pc' = "loop"
  BY DEF Enter
<1>3. stack \in Seq(Frame) /\ n \in Nat /\ frame \in Frame
  BY DEF TypeOK, Frame
<1>4. frame.kind = kind /\ ~frame.has_value
  OBVIOUS
<1> HIDE DEF frame
<1>5. /\ stack' \in Seq(Frame) /\ Len(stack') = n + 1 /\ stack'[n + 1] = frame
      /\ \A i \in 1 .. n : stack'[i] = stack[i]
  BY <1>2, <1>3, AppendProperties
<1>6. Last(stack') = frame /\ Len(stack') - 1 = n
  BY <1>3, <1>5 DEF Last
<1>7. Chain(t, stack', n)
  BY <1>1, <1>3, <1>5, ChainOfKinds
<1>8. <<End(kind)>> \in Collected(frame)
  BY <1>4 DEF Collected
<1>9. popped' = <<End(kind)>> \o t[n]
  BY <1>1, Brackets, Popped
<1>10. Popping(Collected(Last(stack)))'
  BY <1>6, <1>7, <1>8, <1>9 DEF Popping
<1> QED
  BY <1>2, <1>10 DEF Accounted, AcceptsOnlyJson

LEMMA CallAccounted ==
  ASSUME TypeOK, Bounded, Accounted, Call
  PROVE  Accounted' /\ AcceptsOnlyJson'
<1>1. pc = "call"
  BY DEF Call
<1>2. CASE Reject
  BY <1>2, RejectAccounted
<1>3. CASE top \in {"VALUE", "STRVALUE"} /\ Pop /\ Accept(stack)
  <2>1. PICK t : Chain(t, stack, Len(stack)) /\ popped = t[Len(stack)]
    BY <1>1 DEF Accounted
  <2>2. top \in Tokens /\ stack \in Seq(Frame)
    BY <1>3 DEF Tokens, TypeOK
  <2>3. popped' = <<top>> \o t[Len(stack)] /\ Len(popped') <= MaxTokens
    BY <1>3, <2>1, <2>2, Popped
  <2>4. <<top>> \in Value
    BY <1>3, Scalars
  <2>5. <<top>>[1] \notin {"ARRAYSTART", "OBJECTSTART"}
    BY <1>3
  <2> DEFINE v == <<top>>
  <2>6. v \in Value /\ (v[1] \in {"ARRAYSTART", "OBJECTSTART"} => v \in Root)
        /\ popped' = v \o t[Len(stack)]
    BY <2>3, <2>4, <2>5
  <2> HIDE DEF v
  <2> QED
    BY <1>3, <2>1, <2>2, <2>3, <2>6, Accepting
<1>4. CASE top = "ARRAYEND" /\ Pop /\ Enter("array")
  BY <1>1, <1>4, EnterAccounted DEF End
<1>5. CASE top = "OBJECTEND" /\ Pop /\ Enter("object")
  BY <1>1, <1>5, EnterAccounted DEF End
<1> QED
  BY <1>2, <1>3, <1>4, <1>5 DEF Call

\* The innermost call waits for another value.
LEMMA WaitAccounted ==
  ASSUME NEW t, NEW n \in Nat, Chain(t, stack, n), n + 1 = Len(stack),
         stack[n + 1].kind \in {"array", "object"},
         NEW w \in Waiting(stack[n + 1].kind), popped' = w \o t[n],
         stack' = stack, pc' = "call"
  PROVE  Accounted' /\ AcceptsOnlyJson'
<1>1. PICK u : Chain(u, stack, n + 1) /\ u[n + 1] = w \o t[n]
  BY ChainGrows
<1>2. Chain(u, stack', Len(stack')) /\ popped' = u[Len(stack')]
  BY <1>1
<1> QED
  BY <1>2 DEF Accounted, AcceptsOnlyJson

LEMMA LoopAccounted ==
  ASSUME TypeOK, Bounded, Accounted, Loop
  PROVE  Accounted' /\ AcceptsOnlyJson'
<1> DEFINE n == Len(stack) - 1
           frame == Last(stack)
           kind == frame.kind
<1>1. stack \in Seq(Frame) /\ stack # <<>> /\ popped \in Seq(Tokens)
  BY DEF Loop, TypeOK
<1>2. /\ n \in Nat /\ n + 1 = Len(stack) /\ frame = stack[n + 1]
      /\ frame \in Frame /\ kind \in {"array", "object"}
  <2>1. Len(stack) \in Nat \ {0} /\ Len(stack) - 1 + 1 = Len(stack)
    BY <1>1, LastFrame
  <2> QED
    BY <1>1, <2>1, LastFrame
<1>3. PICK t : Chain(t, stack, n) /\ \E p \in Collected(frame) : popped = p \o t[n]
  BY DEF Loop, Accounted, Popping
<1>4. PICK p \in Collected(frame) : popped = p \o t[n]
  BY <1>3
<1>5. p \in Seq(Tokens) /\ t[n] \in Seq(Tokens)
  BY <1>2, <1>3, Segments, ChainShrinks
<1>6. CASE Reject
  BY <1>6, RejectAccounted
<1>7. CASE Close
  <2> DEFINE v == <<Start(kind)>> \o p
  <2>1. top = Start(kind) /\ top \in Tokens /\ Pop /\ Accept(Callers)
    BY <1>2, <1>7, Brackets DEF Close
  <2>2. /\ Callers \in Seq(Frame) /\ Len(Callers) = n
        /\ \A i \in 1 .. n : Callers[i] = stack[i]
    BY <1>1, CallersTyped DEF Callers
  <2>3. Chain(t, Callers, n)
    BY <1>2, <1>3, <2>2, ChainOfKinds
  <2>4. /\ <<Start(kind)>> \in Seq(Tokens) /\ v \in Seq(Tokens)
        /\ popped' = <<Start(kind)>> \o (p \o t[n]) /\ Len(popped') <= MaxTokens
    BY <1>4, <1>5, <2>1, OneToken, Joined, Popped
  <2>5. popped' = v \o t[n]
    BY <1>5, <2>4, Associative
  <2>6. Len(v) <= MaxTokens
    BY <1>5, <2>4, <2>5, Shorter
  <2>7. v \in Root
    BY <1>2, <2>6, Closing
  <2> HIDE DEF v
  <2>8. v \in Value /\ popped' = v \o t[Len(Callers)] /\ Chain(t, Callers, Len(Callers))
    BY <2>2, <2>3, <2>5, <2>7, RootIsValue
  <2> QED
    BY <2>1, <2>2, <2>4, <2>7, <2>8, Accepting
<1>8. CASE ~frame.has_value /\ pc' = "call" /\ UNCHANGED <<top, popped, stack, verdict>>
  <2>1. p \in Waiting(kind)
    BY <1>8 DEF Collected, Waiting
  <2> HIDE DEF frame, n
  <2> QED
    BY <1>2, <1>3, <1>4, <1>8, <2>1, WaitAccounted
<1>9. CASE frame.has_value /\ top = "COMMA" /\ Pop /\ pc' = "call" /\ UNCHANGED <<stack, verdict>>
  <2> DEFINE w == <<"COMMA">> \o p
  <2>1. w \in Waiting(kind)
    BY <1>9 DEF Collected, Waiting
  <2>2. top \in Tokens /\ <<"COMMA">> \in Seq(Tokens)
    BY <1>9, OneToken DEF Tokens
  <2>3. popped' = w \o t[n]
    <3>1. popped' = <<"COMMA">> \o (p \o t[n])
      BY <1>4, <1>9, <2>2, Popped
    <3> QED
      BY <1>5, <2>2, <3>1, Associative
  <2> HIDE DEF frame, n, w
  <2> QED
    BY <1>2, <1>3, <1>9, <2>1, <2>3, WaitAccounted
<1> QED
  BY <1>6, <1>7, <1>8, <1>9 DEF Loop, Another

LEMMA ColonAccounted ==
  ASSUME TypeOK, Bounded, Accounted, Colon
  PROVE  Accounted' /\ AcceptsOnlyJson'
<1> DEFINE n == Len(stack) - 1
<1>1. CASE Reject
  BY <1>1, RejectAccounted
<1>2. CASE top = "COLON" /\ Pop /\ pc' = "name" /\ UNCHANGED <<stack, verdict>>
  <2>1. Last(stack).has_value /\ stack \in Seq(Frame) /\ stack # <<>>
    BY DEF Colon, Accounted, TypeOK
  <2>2. n \in Nat
    <3>1. Len(stack) \in Nat \ {0}
      BY <2>1, LastFrame
    <3> QED
      BY <3>1
  <2>3. PICK t : Chain(t, stack, n) /\ \E u \in Unnamed : popped = u \o t[n]
    BY DEF Colon, Accounted, Popping
  <2>4. PICK u \in Unnamed : popped = u \o t[n]
    BY <2>3
  <2>5. top \in Tokens /\ <<"COLON">> \in Seq(Tokens) /\ u \in Seq(Tokens) /\ t[n] \in Seq(Tokens)
    BY <1>2, <2>2, <2>3, OneToken, Segments, ChainShrinks DEF Tokens
  <2>6. popped' = (<<"COLON">> \o u) \o t[n]
    <3>1. popped' = <<"COLON">> \o (u \o t[n])
      BY <1>2, <2>4, <2>5, Popped
    <3> QED
      BY <2>5, <3>1, Associative
  <2>7. <<"COLON">> \o u \in {<<"COLON">> \o x : x \in Unnamed}
    OBVIOUS
  <2>8. Chain(t, stack', Len(stack') - 1) /\ popped' = (<<"COLON">> \o u) \o t[Len(stack') - 1]
    BY <1>2, <2>3, <2>6
  <2>9. Popping({<<"COLON">> \o x : x \in Unnamed})'
    BY <2>7, <2>8 DEF Popping
  <2> QED
    BY <1>2, <2>1, <2>9 DEF Accounted, AcceptsOnlyJson
<1> QED
  BY <1>1, <1>2 DEF Colon

LEMMA NameAccounted ==
  ASSUME TypeOK, Bounded, Accounted, Name
  PROVE  Accounted' /\ AcceptsOnlyJson'
<1> DEFINE n == Len(stack) - 1
<1>1. CASE Reject
  BY <1>1, RejectAccounted
<1>2. CASE top = "STRVALUE" /\ Pop /\ pc' = "loop" /\ UNCHANGED <<stack, verdict>>
  <2>1. /\ Last(stack).has_value /\ Last(stack).kind = "object"
        /\ stack \in Seq(Frame) /\ stack # <<>>
    BY DEF Name, Accounted, TypeOK
  <2>2. n \in Nat
    <3>1. Len(stack) \in Nat \ {0}
      BY <2>1, LastFrame
    <3> QED
      BY <3>1
  <2>3. PICK t : Chain(t, stack, n)
                 /\ \E c \in {<<"COLON">> \o u : u \in Unnamed} : popped = c \o t[n]
    BY DEF Name, Accounted, Popping
  <2>4. PICK u \in Unnamed : popped = (<<"COLON">> \o u) \o t[n]
    BY <2>3
  <2>5. PICK v \in Value, w \in Waiting("object") : u = v \o w
    BY DEF Unnamed
  <2> DEFINE item == <<"STRVALUE", "COLON">> \o v
  <2>6. /\ top \in Tokens /\ <<"COLON">> \in Seq(Tokens) /\ <<"STRVALUE">> \in Seq(Tokens)
        /\ v \in Seq(Tokens) /\ w \in Seq(Tokens) /\ t[n] \in Seq(Tokens)
        /\ <<"STRVALUE">> \o <<"COLON">> = <<"STRVALUE", "COLON">>
    BY <1>2, <2>2, <2>3, OneToken, TwoTokens, Segments, ChainShrinks DEF Tokens
  <2>7. item \in Item("object") /\ item \in Seq(Tokens) /\ item \o w \in Seq(Tokens)
    <3>1. item \in Item("object")
      BY DEF Item, Named
    <3> QED
      BY <2>6, <3>1, ListRules, Joined
  <2>8. popped' = (item \o w) \o t[n]
    <3>1. u \in Seq(Tokens)
      BY <2>5, <2>6, Joined
    <3>2. popped' = <<"STRVALUE">> \o ((<<"COLON">> \o u) \o t[n])
      BY <1>2, <2>4, <2>6, Popped
    <3>3. popped' = ((<<"STRVALUE">> \o <<"COLON">>) \o u) \o t[n]
      <4>1. \A c, x \in Seq(Tokens) :
              <<"STRVALUE">> \o ((c \o u) \o x) = ((<<"STRVALUE">> \o c) \o u) \o x
        BY <2>6, <3>1, Regrouped, SMTT(30)
      <4> HIDE DEF n
      <4> QED
        BY <2>6, <3>2, <4>1
    <3>4. (<<"STRVALUE", "COLON">> \o v) \o w = <<"STRVALUE", "COLON">> \o u
      BY <2>5, <2>6, Associative
    <3> QED
      BY <2>6, <3>3, <3>4, Zenon
  <2>9. Len(item \o w) <= MaxTokens
    <3>1. Len((item \o w) \o t[n]) <= MaxTokens
      BY <1>2, <2>6, <2>8, Popped
    <3> QED
      BY <2>6, <2>7, <3>1, Shorter
  <2>10. item \o w \in Collected(Last(stack))
    <3>1. item \o w \in {l \o <<End("object")>> : l \in ListOf("object")}
      BY <2>7, <2>9, Joining
    <3> QED
      BY <2>1, <3>1 DEF Collected
  <2> HIDE DEF item
  <2>11. /\ Chain(t, stack', Len(stack') - 1) /\ item \o w \in Collected(Last(stack'))
         /\ popped' = (item \o w) \o t[Len(stack') - 1]
    BY <1>2, <2>3, <2>8, <2>10
  <2>12. Popping(Collected(Last(stack)))'
    BY <2>11 DEF Popping
  <2> QED
    BY <1>2, <2>12 DEF Accounted, AcceptsOnlyJson
<1> QED
  BY <1>1, <1>2 DEF Name
-----------------------------------------------------------------------------
\* At every moment the stack of calls explains the tokens popped: an unfinished
\* array or object for each call underway, a list of complete values after each.
THEOREM ParserInvariant == Spec => []ParserInv
<1>1. Init => ParserInv
  <2> SUFFICES ASSUME Init PROVE ParserInv
    OBVIOUS
  <2>1. stack = <<>> /\ popped = <<>> /\ pc = "call" /\ verdict = FALSE
        /\ top \in Tokens \cup {Empty} /\ MaxTokens \in Nat \ {0}
    BY JsonParserAssumption DEF Init
  <2>2. popped \in Seq(Tokens) /\ stack \in Seq(Frame) /\ Len(stack) = 0 /\ Len(popped) = 0
    BY <2>1, EmptySeq
  <2>3. TypeOK /\ Bounded /\ AcceptsOnlyJson
    <3>0. 0 <= MaxTokens /\ 0 < MaxTokens /\ 0 <= 0
      BY JsonParserAssumption
    <3>1. verdict \in BOOLEAN /\ Len(popped) <= MaxTokens /\ Len(stack) <= Len(popped)
          /\ Len(popped) < MaxTokens
      BY <2>1, <2>2, <3>0, Zenon
    <3> QED
      BY <2>1, <2>2, <3>1 DEF TypeOK, Bounded, AcceptsOnlyJson
  <2>4. Accounted
    <3> DEFINE t == [i \in 0 .. 0 |-> popped]
    <3>1. t[0] = <<>> /\ \A i \in 0 .. 0 : t[i] \in Seq(Tokens)
      BY <2>1, <2>2
    <3> HIDE DEF t
    <3>2. Chain(t, stack, 0)
      BY <3>1 DEF Chain
    <3>3. \E x : Chain(x, stack, Len(stack)) /\ popped = x[Len(stack)]
      BY <2>1, <2>2, <3>1, <3>2
    <3> QED
      BY <2>1, <3>3 DEF Accounted
  <2> QED
    BY <2>3, <2>4 DEF ParserInv
<1>2. ParserInv /\ [Next]_vars => ParserInv'
  <2> SUFFICES ASSUME TypeOK, Bounded, Accounted, AcceptsOnlyJson, [Next]_vars
               PROVE  TypeOK' /\ Bounded' /\ Accounted' /\ AcceptsOnlyJson'
    BY DEF ParserInv
  <2>1. CASE Call
    BY <2>1, CallTypes, CallAccounted
  <2>2. CASE Loop
    BY <2>2, LoopTypes, LoopAccounted
  <2>3. CASE Colon
    BY <2>3, MemberTypes, ColonAccounted
  <2>4. CASE Name
    BY <2>4, MemberTypes, NameAccounted
  <2>5. CASE UNCHANGED vars
    <3>1. TypeOK' /\ Bounded' /\ AcceptsOnlyJson'
      BY <2>5 DEF vars, TypeOK, Bounded, AcceptsOnlyJson
    <3>2. Accounted'
      BY <2>5 DEF vars, Accounted, Popping
    <3> QED
      BY <3>1, <3>2
  <2> QED
    BY <2>1, <2>2, <2>3, <2>4, <2>5 DEF Next
<1> QED
  BY <1>1, <1>2, PTL DEF Spec

\* The types hold; in particular no call is entered without a token of its own, so
\* that the recursion is never deeper than the text has tokens.
THEOREM ParserTypeCorrect == Spec => []TypeOK
<1>1. ParserInv => TypeOK
  BY DEF ParserInv
<1> QED
  BY <1>1, ParserInvariant, PTL

\* What is_valid accepts is derived by the grammar, whatever the number of tokens.
THEOREM AcceptedIsJson == Spec => []AcceptsOnlyJson
<1>1. ParserInv => AcceptsOnlyJson
  BY DEF ParserInv
<1> QED
  BY <1>1, ParserInvariant, PTL
-----------------------------------------------------------------------------
\* --- the rules of the grammar, read backwards --------------------------------

\* All that the grammar derives are lists of tokens of the length asked for.
Shaped(n) ==
  \A s : \/ s \in Grammar[n].root \/ s \in Grammar[n].value
         \/ s \in Grammar[n].values \/ s \in Grammar[n].members
         => s \in Seq(Tokens) /\ Len(s) = n /\ n > 0

LEMMA EnclosedShape ==
  ASSUME NEW n \in Nat, NEW open \in Tokens, NEW close \in Tokens, NEW S,
         \A s \in S : s \in Seq(Tokens) /\ Len(s) = n - 2,
         NEW e \in Enclosed(open, S, close)
  PROVE  e \in Seq(Tokens) /\ Len(e) = n
<1>1. PICK s \in S : e = (<<open>> \o s) \o <<close>>
  BY DEF Enclosed
<1>2. /\ <<open>> \in Seq(Tokens) /\ Len(<<open>>) = 1
      /\ <<close>> \in Seq(Tokens) /\ Len(<<close>>) = 1
      /\ s \in Seq(Tokens) /\ Len(s) = n - 2
  BY OneToken
<1>3. <<open>> \o s \in Seq(Tokens) /\ Len(<<open>> \o s) = n - 1
  BY <1>2, Joined
<1>4. e \in Seq(Tokens) /\ Len(e) = (n - 1) + 1
  BY <1>1, <1>2, <1>3, Joined
<1> QED
  BY <1>4

LEMMA SeparatedShape ==
  ASSUME NEW i \in Nat, NEW j \in Nat, NEW S, NEW T,
         \A s \in S : s \in Seq(Tokens) /\ Len(s) = i,
         \A t \in T : t \in Seq(Tokens) /\ Len(t) = j,
         NEW e \in Separated(S, T)
  PROVE  e \in Seq(Tokens) /\ Len(e) = i + j + 1
<1>1. PICK s \in S, t \in T : e = (s \o <<"COMMA">>) \o t
  BY DEF Separated
<1>2. /\ <<"COMMA">> \in Seq(Tokens) /\ Len(<<"COMMA">>) = 1
      /\ s \in Seq(Tokens) /\ Len(s) = i
      /\ t \in Seq(Tokens) /\ Len(t) = j
  BY OneToken DEF Tokens
<1>3. s \o <<"COMMA">> \in Seq(Tokens) /\ Len(s \o <<"COMMA">>) = i + 1
  BY <1>2, Joined
<1>4. e \in Seq(Tokens) /\ Len(e) = (i + 1) + j
  BY <1>1, <1>2, <1>3, Joined
<1> QED
  BY <1>4

LEMMA NamedShape ==
  ASSUME NEW i \in Nat, NEW S, \A s \in S : s \in Seq(Tokens) /\ Len(s) = i,
         NEW e \in Named(S)
  PROVE  e \in Seq(Tokens) /\ Len(e) = i + 2
<1>1. PICK s \in S : e = <<"STRVALUE", "COLON">> \o s
  BY DEF Named
<1>2. /\ <<"STRVALUE", "COLON">> \in Seq(Tokens) /\ Len(<<"STRVALUE", "COLON">>) = 2
      /\ s \in Seq(Tokens) /\ Len(s) = i
  BY DEF Tokens
<1>3. e \in Seq(Tokens) /\ Len(e) = 2 + i
  BY <1>1, <1>2, Joined
<1> QED
  BY <1>3

\* A value is a scalar, a pair of brackets, or a list in brackets.
Scalar == {<<"VALUE">>, <<"STRVALUE">>}
Pairs == {<<"ARRAYSTART", "ARRAYEND">>, <<"OBJECTSTART", "OBJECTEND">>}

\* The equations of the grammar, taken apart.
LEMMA RulesBackwards ==
  ASSUME NEW n \in 0 .. MaxTokens
  PROVE  /\ \A s \in Grammar[n].root :
              \/ n = 2 /\ s \in Pairs
              \/ n > 2 /\ s \in Enclosed("ARRAYSTART", Grammar[n - 2].values, "ARRAYEND")
              \/ n > 2 /\ s \in Enclosed("OBJECTSTART", Grammar[n - 2].members, "OBJECTEND")
         /\ \A s \in Grammar[n].value : (n = 1 /\ s \in Scalar) \/ s \in Grammar[n].root
         /\ \A s \in Grammar[n].values :
              \/ s \in Grammar[n].value
              \/ \E k \in 1 .. n - 2 :
                   s \in Separated(Grammar[k].value, Grammar[n - 1 - k].values)
         /\ \A s \in Grammar[n].members :
              \/ n > 2 /\ s \in Named(Grammar[n - 2].value)
              \/ \E k \in 1 .. n - 4 :
                   s \in Separated(Named(Grammar[k].value), Grammar[n - 3 - k].members)
<1>0. n \in Nat /\ Grammar[n] = Productions(Grammar, n)
  BY JsonParserAssumption, GrammarUnfolds
<1>1. ASSUME NEW s \in Grammar[n].root
      PROVE  \/ n = 2 /\ s \in Pairs
             \/ n > 2 /\ s \in Enclosed("ARRAYSTART", Grammar[n - 2].values, "ARRAYEND")
             \/ n > 2 /\ s \in Enclosed("OBJECTSTART", Grammar[n - 2].members, "OBJECTEND")
  <2>1. CASE n < 2
    BY <1>0, <1>1, <2>1 DEF Productions
  <2>2. CASE n = 2
    BY <1>0, <1>1, <2>2 DEF Productions, Pairs
  <2>3. CASE n > 2
    <3>1. ~(n < 2) /\ n # 2
      BY <2>3
    <3> QED
      BY <1>0, <1>1, <2>3, <3>1 DEF Productions
  <2> QED
    BY <1>0, <2>1, <2>2, <2>3
<1>2. ASSUME NEW s \in Grammar[n].value
      PROVE  (n = 1 /\ s \in Scalar) \/ s \in Grammar[n].root
  BY <1>0, <1>2 DEF Productions, Scalar
<1>3. ASSUME NEW s \in Grammar[n].values
      PROVE  \/ s \in Grammar[n].value
             \/ \E k \in 1 .. n - 2 :
                  s \in Separated(Grammar[k].value, Grammar[n - 1 - k].values)
  BY <1>0, <1>3 DEF Productions
<1>4. ASSUME NEW s \in Grammar[n].members
      PROVE  \/ n > 2 /\ s \in Named(Grammar[n - 2].value)
             \/ \E k \in 1 .. n - 4 :
                  s \in Separated(Named(Grammar[k].value), Grammar[n - 3 - k].members)
  BY <1>0, <1>4 DEF Productions
<1> QED
  BY <1>1, <1>2, <1>3, <1>4

LEMMA ShapedStep ==
  ASSUME NEW m \in 0 .. MaxTokens, \A j \in Nat : j < m => Shaped(j)
  PROVE  Shaped(m)
<1>0. m \in Nat
  OBVIOUS
<1>3. ASSUME NEW s \in Grammar[m].root PROVE s \in Seq(Tokens) /\ Len(s) = m /\ m > 0
  <2>1. CASE m = 2 /\ s \in Pairs
    <3>1. /\ <<"ARRAYSTART", "ARRAYEND">> \in Seq(Tokens) /\ Len(<<"ARRAYSTART", "ARRAYEND">>) = 2
          /\ <<"OBJECTSTART", "OBJECTEND">> \in Seq(Tokens) /\ Len(<<"OBJECTSTART", "OBJECTEND">>) = 2
      BY DEF Tokens
    <3>2. s \in Seq(Tokens) /\ Len(s) = 2
      BY <2>1, <3>1 DEF Pairs
    <3> QED
      BY <2>1, <3>2
  <2>2. CASE m > 2 /\ s \in Enclosed("ARRAYSTART", Grammar[m - 2].values, "ARRAYEND")
    <3>1. \A x \in Grammar[m - 2].values : x \in Seq(Tokens) /\ Len(x) = m - 2
      <4>1. m - 2 \in Nat /\ m - 2 < m
        BY <1>0, <2>2
      <4> QED
        BY <4>1 DEF Shaped
    <3>2. m \in Nat /\ "ARRAYSTART" \in Tokens /\ "ARRAYEND" \in Tokens
      BY DEF Tokens
    <3> QED
      BY <2>2, <3>1, <3>2, EnclosedShape
  <2>3. CASE m > 2 /\ s \in Enclosed("OBJECTSTART", Grammar[m - 2].members, "OBJECTEND")
    <3>1. \A x \in Grammar[m - 2].members : x \in Seq(Tokens) /\ Len(x) = m - 2
      <4>1. m - 2 \in Nat /\ m - 2 < m
        BY <1>0, <2>3
      <4> QED
        BY <4>1 DEF Shaped
    <3>2. m \in Nat /\ "OBJECTSTART" \in Tokens /\ "OBJECTEND" \in Tokens
      BY DEF Tokens
    <3> QED
      BY <2>3, <3>1, <3>2, EnclosedShape
  <2> QED
    BY <2>1, <2>2, <2>3, RulesBackwards
<1>4. ASSUME NEW s \in Grammar[m].value PROVE s \in Seq(Tokens) /\ Len(s) = m /\ m > 0
  <2>1. CASE m = 1 /\ s \in Scalar
    <3>1. \A x \in Scalar : x \in Seq(Tokens) /\ Len(x) = 1
      BY OneToken DEF Scalar, Tokens
    <3>2. s \in Seq(Tokens) /\ Len(s) = 1
      BY <2>1, <3>1
    <3> QED
      BY <2>1, <3>2
  <2> QED
    BY <1>3, <2>1, RulesBackwards
<1>5. ASSUME NEW s \in Grammar[m].values PROVE s \in Seq(Tokens) /\ Len(s) = m /\ m > 0
  <2>1. ASSUME NEW k \in 1 .. m - 2,
               s \in Separated(Grammar[k].value, Grammar[m - 1 - k].values)
        PROVE  s \in Seq(Tokens) /\ Len(s) = m /\ m > 0
    <3>1. PICK j \in Nat : j = m - 1 - k
      BY <1>0, <2>1
    <3>2. k \in Nat /\ k < m /\ j < m /\ k + j + 1 = m /\ m > 0
      BY <1>0, <2>1, <3>1
    <3>3. /\ \A x \in Grammar[k].value : x \in Seq(Tokens) /\ Len(x) = k
          /\ \A x \in Grammar[j].values : x \in Seq(Tokens) /\ Len(x) = j
      BY <3>2 DEF Shaped
    <3>4. s \in Separated(Grammar[k].value, Grammar[j].values)
      BY <2>1, <3>1
    <3>5. s \in Seq(Tokens) /\ Len(s) = k + j + 1
      BY <3>2, <3>3, <3>4, SeparatedShape
    <3> QED
      BY <3>2, <3>5
  <2> QED
    BY <1>4, <2>1, RulesBackwards
<1>6. ASSUME NEW s \in Grammar[m].members PROVE s \in Seq(Tokens) /\ Len(s) = m /\ m > 0
  <2>0. \A k \in Nat : k < m =>
          \A x \in Named(Grammar[k].value) : x \in Seq(Tokens) /\ Len(x) = k + 2
    <3> SUFFICES ASSUME NEW k \in Nat, k < m, NEW x \in Named(Grammar[k].value)
                 PROVE  x \in Seq(Tokens) /\ Len(x) = k + 2
      OBVIOUS
    <3>1. \A y \in Grammar[k].value : y \in Seq(Tokens) /\ Len(y) = k
      BY DEF Shaped
    <3> QED
      BY <3>1, NamedShape
  <2>1. CASE m > 2 /\ s \in Named(Grammar[m - 2].value)
    <3>1. m - 2 \in Nat /\ m - 2 < m /\ (m - 2) + 2 = m
      BY <2>1
    <3> QED
      BY <2>0, <2>1, <3>1
  <2>2. ASSUME NEW k \in 1 .. m - 4,
               s \in Separated(Named(Grammar[k].value), Grammar[m - 3 - k].members)
        PROVE  s \in Seq(Tokens) /\ Len(s) = m /\ m > 0
    <3>1. PICK j \in Nat : j = m - 3 - k
      BY <1>0, <2>2
    <3>2. PICK i \in Nat : i = k + 2
      BY <2>2
    <3>3. k \in Nat /\ k < m /\ j < m /\ i + j + 1 = m /\ m > 0
      BY <1>0, <2>2, <3>1, <3>2
    <3>4. /\ \A x \in Named(Grammar[k].value) : x \in Seq(Tokens) /\ Len(x) = i
          /\ \A x \in Grammar[j].members : x \in Seq(Tokens) /\ Len(x) = j
      BY <2>0, <3>2, <3>3 DEF Shaped
    <3>5. s \in Separated(Named(Grammar[k].value), Grammar[j].members)
      BY <2>2, <3>1
    <3>6. s \in Seq(Tokens) /\ Len(s) = i + j + 1
      <4> DEFINE S == Named(Grammar[k].value)
                 T == Grammar[j].members
      <4>1. /\ \A x \in S : x \in Seq(Tokens) /\ Len(x) = i
            /\ \A x \in T : x \in Seq(Tokens) /\ Len(x) = j
            /\ s \in Separated(S, T)
        BY <3>4, <3>5
      <4> HIDE DEF S, T
      <4> QED
        BY <4>1, SeparatedShape
    <3> QED
      BY <3>3, <3>6
  <2> QED
    BY <2>1, <2>2, RulesBackwards
<1> QED
  BY <1>3, <1>4, <1>5, <1>6 DEF Shaped

LEMMA AllShaped ==
  ASSUME NEW n \in 0 .. MaxTokens
  PROVE  Shaped(n)
<1> DEFINE misshapen == {k \in Nat : k <= MaxTokens /\ ~Shaped(k)}
<1>1. MaxTokens \in Nat
  BY JsonParserAssumption
<1>2. SUFFICES ASSUME misshapen # {} PROVE FALSE
  BY <1>1
<1>3. PICK m \in misshapen : \A j \in misshapen : ~(<<j, m>> \in OpToRel(<, Nat))
  BY <1>2, NatLessThanWellFounded, WFMin
<1>4. m \in Nat /\ m \in 0 .. MaxTokens /\ ~Shaped(m)
  BY <1>1
<1>5. ASSUME NEW j \in Nat, j < m PROVE Shaped(j)
  <2>1. SUFFICES ASSUME ~Shaped(j) PROVE FALSE
    OBVIOUS
  <2>2. j \in misshapen
    BY <1>1, <1>4, <1>5, <2>1
  <2>3. <<j, m>> \in OpToRel(<, Nat)
    BY <1>4, <1>5 DEF OpToRel
  <2> QED
    BY <1>3, <2>2, <2>3
<1> QED
  BY <1>4, <1>5, ShapedStep

LEMMA OfLength ==
  ASSUME NEW n \in 0 .. MaxTokens, NEW s
  PROVE  /\ s \in Grammar[n].root => s \in Root /\ Len(s) = n
         /\ s \in Grammar[n].value => s \in Value /\ Len(s) = n
         /\ s \in Grammar[n].values => s \in Values /\ Len(s) = n
         /\ s \in Grammar[n].members => s \in Members /\ Len(s) = n
<1>1. /\ s \in Grammar[n].root \/ s \in Grammar[n].value
           \/ s \in Grammar[n].values \/ s \in Grammar[n].members
         => s \in Seq(Tokens) /\ Len(s) = n /\ n > 0
  BY AllShaped DEF Shaped
<1>2. MaxTokens \in Nat /\ n \in Nat
  BY JsonParserAssumption
<1>3. n > 0 => n \in 1 .. MaxTokens
  BY <1>2
<1> QED
  BY <1>1, <1>3, DerivedIn

LEMMA TextIsRoot == JsonTexts \subseteq Root
BY OfLength DEF JsonTexts

LEMMA RootBackwards ==
  ASSUME NEW s \in Root
  PROVE  \E kind \in {"array", "object"} :
           \/ s = <<Start(kind), End(kind)>>
           \/ \E l \in ListOf(kind) : s = (<<Start(kind)>> \o l) \o <<End(kind)>>
<1>1. PICK n \in 1 .. MaxTokens : s \in Grammar[n].root
  BY DEF Root, Derived
<1>2. n \in 0 .. MaxTokens /\ MaxTokens \in Nat
  BY JsonParserAssumption
<1>3. CASE s \in Pairs
  BY <1>3 DEF Pairs, Start, End
<1>4. ASSUME NEW kind \in {"array", "object"}, NEW S, S \subseteq ListOf(kind),
             s \in Enclosed(Start(kind), S, End(kind))
      PROVE  \E l \in ListOf(kind) : s = (<<Start(kind)>> \o l) \o <<End(kind)>>
  BY <1>4 DEF Enclosed
<1>5. CASE n > 2 /\ s \in Enclosed("ARRAYSTART", Grammar[n - 2].values, "ARRAYEND")
  <2>1. n - 2 \in 0 .. MaxTokens
    BY <1>2, <1>5
  <2>2. Grammar[n - 2].values \subseteq ListOf("array")
    BY <2>1, OfLength DEF ListOf
  <2>3. Start("array") = "ARRAYSTART" /\ End("array") = "ARRAYEND"
    BY DEF Start, End
  <2>4. \E l \in ListOf("array") : s = (<<Start("array")>> \o l) \o <<End("array")>>
    BY <1>4, <1>5, <2>2, <2>3
  <2> QED
    BY <2>4
<1>6. CASE n > 2 /\ s \in Enclosed("OBJECTSTART", Grammar[n - 2].members, "OBJECTEND")
  <2>1. n - 2 \in 0 .. MaxTokens
    BY <1>2, <1>6
  <2>2. Grammar[n - 2].members \subseteq ListOf("object")
    BY <2>1, OfLength DEF ListOf
  <2>3. Start("object") = "OBJECTSTART" /\ End("object") = "OBJECTEND"
    BY DEF Start, End
  <2>4. \E l \in ListOf("object") : s = (<<Start("object")>> \o l) \o <<End("object")>>
    BY <1>4, <1>6, <2>2, <2>3
  <2> QED
    BY <2>4
<1> QED
  BY <1>1, <1>2, <1>3, <1>5, <1>6, RulesBackwards

LEMMA ValueBackwards == Value \subseteq Scalar \cup Root
<1> SUFFICES ASSUME NEW v \in Value PROVE v \in Scalar \cup Root
  OBVIOUS
<1>1. PICK n \in 1 .. MaxTokens : v \in Grammar[n].value
  BY DEF Value, Derived
<1>2. n \in 0 .. MaxTokens
  BY JsonParserAssumption
<1> QED
  BY <1>1, <1>2, RulesBackwards, OfLength

LEMMA SeparatedFrom ==
  ASSUME NEW S, NEW T, NEW e \in Separated(S, T)
  PROVE  \E s \in S, t \in T : e = (s \o <<"COMMA">>) \o t
BY DEF Separated

\* A list has a first item ...
LEMMA ListBackwards ==
  ASSUME NEW kind \in {"array", "object"}, NEW l \in ListOf(kind)
  PROVE  \/ l \in Item(kind)
         \/ \E item \in Item(kind), t \in ListOf(kind) :
              l = (item \o <<"COMMA">>) \o t /\ Len(t) < Len(l)
<1>0. MaxTokens \in Nat
  BY JsonParserAssumption
<1>1. CASE kind = "array"
  <2>1. l \in Values /\ Item(kind) = Value /\ ListOf(kind) = Values
    BY <1>1 DEF ListOf, Item
  <2>2. PICK n \in 1 .. MaxTokens : l \in Grammar[n].values /\ n = Len(l)
    BY <2>1 DEF Values, Derived
  <2>3. n \in 0 .. MaxTokens
    BY <1>0
  <2>4. CASE l \in Grammar[n].value
    BY <2>1, <2>3, <2>4, OfLength
  <2>5. ASSUME NEW k \in 1 .. n - 2,
               l \in Separated(Grammar[k].value, Grammar[n - 1 - k].values)
        PROVE  \E item \in Value, t \in Values :
                 l = (item \o <<"COMMA">>) \o t /\ Len(t) < Len(l)
    <3>1. PICK j \in 0 .. MaxTokens : j = n - 1 - k
      BY <1>0, <2>2, <2>5
    <3>2. k \in 0 .. MaxTokens /\ j < n
      BY <1>0, <2>2, <2>5, <3>1
    <3>3. PICK item \in Grammar[k].value, t \in Grammar[j].values : l = (item \o <<"COMMA">>) \o t
      BY <2>5, <3>1, SeparatedFrom
    <3>4. item \in Value /\ t \in Values /\ Len(t) = j
      BY <3>2, OfLength
    <3> QED
      BY <2>2, <3>2, <3>3, <3>4
  <2> QED
    BY <2>1, <2>2, <2>3, <2>4, <2>5, RulesBackwards
<1>2. CASE kind = "object"
  <2>1. l \in Members /\ Item(kind) = Named(Value) /\ ListOf(kind) = Members
    BY <1>2 DEF ListOf, Item
  <2>2. PICK n \in 1 .. MaxTokens : l \in Grammar[n].members /\ n = Len(l)
    BY <2>1 DEF Members, Derived
  <2>3. n \in 0 .. MaxTokens
    BY <1>0
  <2>4. \A k \in 0 .. MaxTokens : Named(Grammar[k].value) \subseteq Named(Value)
    <3>1. \A k \in 0 .. MaxTokens : Grammar[k].value \subseteq Value
      BY OfLength
    <3> QED
      BY <3>1 DEF Named
  <2>5. CASE n > 2 /\ l \in Named(Grammar[n - 2].value)
    <3>1. n - 2 \in 0 .. MaxTokens
      BY <1>0, <2>2, <2>5
    <3> QED
      BY <2>1, <2>4, <2>5, <3>1
  <2>6. ASSUME NEW k \in 1 .. n - 4,
               l \in Separated(Named(Grammar[k].value), Grammar[n - 3 - k].members)
        PROVE  \E item \in Named(Value), t \in Members :
                 l = (item \o <<"COMMA">>) \o t /\ Len(t) < Len(l)
    <3>1. PICK j \in 0 .. MaxTokens : j = n - 3 - k
      BY <1>0, <2>2, <2>6
    <3>2. k \in 0 .. MaxTokens /\ j < n
      BY <1>0, <2>2, <2>6, <3>1
    <3> DEFINE S == Named(Grammar[k].value)
               T == Grammar[j].members
    <3>3. l \in Separated(S, T)
      BY <2>6, <3>1
    <3>4. S \subseteq Named(Value) /\ \A t \in T : t \in Members /\ Len(t) = j
      BY <2>4, <3>2, OfLength
    <3> HIDE DEF S, T
    <3>5. PICK item \in S, t \in T : l = (item \o <<"COMMA">>) \o t
      BY <3>3 DEF Separated
    <3> QED
      BY <2>2, <3>2, <3>4, <3>5
  <2> QED
    BY <2>1, <2>2, <2>3, <2>5, <2>6, RulesBackwards
<1> QED
  BY <1>1, <1>2

\* ... and a last one.
EndsInItem(kind, l) ==
  \/ l \in Item(kind)
  \/ \E t \in ListOf(kind), item \in Item(kind) : l = (t \o <<"COMMA">>) \o item

LEMMA LastItemStep ==
  ASSUME NEW kind \in {"array", "object"}, NEW l \in ListOf(kind),
         \A t \in ListOf(kind) : Len(t) < Len(l) => EndsInItem(kind, t)
  PROVE  EndsInItem(kind, l)
<1>1. CASE l \in Item(kind)
  BY <1>1 DEF EndsInItem
<1>2. ASSUME NEW item \in Item(kind), NEW t \in ListOf(kind),
             l = (item \o <<"COMMA">>) \o t, Len(t) < Len(l)
      PROVE  EndsInItem(kind, l)
  <2>1. /\ <<"COMMA">> \in Seq(Tokens) /\ item \in Seq(Tokens)
        /\ l \in Seq(Tokens) /\ Len(l) <= MaxTokens
    <3>1. l \in Derived
      BY DEF ListOf, Values, Members
    <3> QED
      BY <3>1, ListRules, OneToken, JsonParserAssumption DEF Derived, Tokens
  <2>2. PICK start \in Seq(Tokens) : start = item \o <<"COMMA">>
    BY <2>1, Joined
  <2>3. CASE t \in Item(kind)
    <3>1. Len(item) <= MaxTokens
      <4>1. item \o <<"COMMA">> \in Seq(Tokens) /\ t \in Seq(Tokens)
        BY <2>1, <2>3, Joined, ListRules
      <4>2. Len(item \o <<"COMMA">>) <= MaxTokens
        BY <1>2, <2>1, <4>1, Shorter
      <4> QED
        BY <2>1, <4>2, Shorter
    <3>2. item \in ListOf(kind)
      BY <3>1, ListRules
    <3> QED
      BY <1>2, <2>3, <3>2 DEF EndsInItem
  <2>4. ASSUME NEW u \in ListOf(kind), NEW last \in Item(kind), t = (u \o <<"COMMA">>) \o last
        PROVE  EndsInItem(kind, l)
    <3>1. u \in Seq(Tokens) /\ last \in Seq(Tokens)
      BY Segments, ListRules
    <3>2. PICK longer \in Seq(Tokens) : longer = start \o u
      BY <3>1, Joined
    <3>3. start \o ((u \o <<"COMMA">>) \o last) = ((start \o u) \o <<"COMMA">>) \o last
      <4>1. \A c, x \in Seq(Tokens) :
              start \o ((u \o c) \o x) = ((start \o u) \o c) \o x
        BY <3>1, Regrouped, SMTT(30)
      <4> QED
        BY <2>1, <3>1, <4>1, Zenon
    <3>4. l = (longer \o <<"COMMA">>) \o last
      BY <1>2, <2>2, <2>4, <3>2, <3>3, Zenon
    <3>5. longer \in ListOf(kind)
      <4>1. longer \o <<"COMMA">> \in Seq(Tokens)
        BY <2>1, Joined
      <4>2. Len(longer \o <<"COMMA">>) <= MaxTokens
        BY <2>1, <3>1, <3>4, <4>1, Shorter
      <4>3. Len(longer) <= MaxTokens
        BY <2>1, <4>2, Shorter
      <4>4. longer = (item \o <<"COMMA">>) \o u
        BY <2>2, <3>2
      <4> QED
        BY <4>3, <4>4, ListRules
    <3> QED
      BY <3>4, <3>5 DEF EndsInItem
  <2>5. EndsInItem(kind, t)
    BY <1>2
  <2> QED
    BY <2>3, <2>4, <2>5 DEF EndsInItem
<1> QED
  BY <1>1, <1>2, ListBackwards

LEMMA LastItem ==
  ASSUME NEW kind \in {"array", "object"}, NEW l \in ListOf(kind)
  PROVE  EndsInItem(kind, l)
<1> DEFINE lengths == {n \in Nat : \E t \in ListOf(kind) : Len(t) = n /\ ~EndsInItem(kind, t)}
<1>1. \A t \in ListOf(kind) : Len(t) \in Nat
  BY Segments, LenProperties
<1>2. SUFFICES ASSUME lengths # {} PROVE FALSE
  BY <1>1
<1>3. PICK m \in lengths : \A j \in lengths : ~(<<j, m>> \in OpToRel(<, Nat))
  BY <1>2, NatLessThanWellFounded, WFMin
<1>4. PICK t \in ListOf(kind) : Len(t) = m /\ ~EndsInItem(kind, t)
  OBVIOUS
<1>5. ASSUME NEW u \in ListOf(kind), Len(u) < Len(t), ~EndsInItem(kind, u) PROVE FALSE
  <2>1. Len(u) \in lengths /\ Len(u) \in Nat /\ m \in Nat
    BY <1>1, <1>5
  <2>2. <<Len(u), m>> \in OpToRel(<, Nat)
    BY <1>4, <1>5, <2>1 DEF OpToRel
  <2> QED
    BY <1>3, <2>1, <2>2
<1> QED
  BY <1>4, <1>5, LastItemStep
-----------------------------------------------------------------------------
\* --- what stands before the tokens popped -------------------------------------

\* What a text holds between the start of an array or object and the next of its
\* items that is popped, or the value of that item.
Opened(kind) ==
  {<<Start(kind)>>} \cup {<<Start(kind)>> \o (l \o <<"COMMA">>) : l \in ListOf(kind)}

Fresh(kind) == {<<Start(kind)>>} \cup {<<Start(kind)>> \o l : l \in ListOf(kind)}

Unread(frame) == IF frame.has_value THEN Opened(frame.kind) ELSE Fresh(frame.kind)

Owed(kind) == IF kind = "array" THEN Opened("array")
              ELSE {o \o <<"STRVALUE", "COLON">> : o \in Opened("object")}

OwedName == {o \o <<"STRVALUE">> : o \in Opened("object")}

\* u[i] stands before the value that the ith call of frames waits for.
LeftChain(u, frames, n) ==
  /\ \A i \in 0 .. n : u[i] \in Seq(Tokens)
  /\ u[0] = <<>>
  /\ \A i \in 1 .. n : \E o \in Owed(frames[i].kind) : u[i] = u[i - 1] \o o

\* The innermost call has a segment of S still before it.
Outside(S, r) ==
  \E u : /\ LeftChain(u, stack, Len(stack) - 1)
         /\ \E y \in S : r = u[Len(stack) - 1] \o y

\* What the tokens left must be if they make a text with those popped.
Fits(r) ==
  /\ pc = "call" => \E u : /\ LeftChain(u, stack, Len(stack))
                           /\ \E v \in Value : r = u[Len(stack)] \o v
  /\ pc = "loop" => Outside(Unread(Last(stack)), r)
  /\ pc = "colon" => Outside(Owed("object"), r)
  /\ pc = "name" => Outside(OwedName, r)
  /\ pc = "done" => verdict

\* top is the last token of r.
Shows(r) == IF top = Empty THEN r = <<>> ELSE \E q \in Seq(Tokens) : r = q \o <<top>>

Complete == \A r \in Seq(Tokens) : Shows(r) /\ r \o popped \in JsonTexts => Fits(r)
-----------------------------------------------------------------------------
\* --- the last token -----------------------------------------------------------

LEMMA NoLastToken ==
  ASSUME NEW x \in Seq(Tokens), NEW a \in Tokens
  PROVE  x \o <<a>> # <<>>
<1>1. Len(x \o <<a>>) = Len(x) + 1 /\ Len(x) \in Nat
  BY OneToken, Joined
<1> QED
  BY <1>1

LEMMA Divided ==
  ASSUME NEW q \in Seq(Tokens), NEW a \in Tokens
  PROVE  Last(q \o <<a>>) = a /\ Front(q \o <<a>>) = q
<1>1. PICK r \in Seq(Tokens) : r = q \o <<a>>
  BY OneToken, Joined
<1>2. PICK c \in Seq(Tokens) : c = <<a>> /\ Len(c) = 1 /\ c[1] = a
  BY OneToken
<1>3. Len(r) = Len(q) + 1 /\ Len(q) \in Nat
  BY <1>1, <1>2, Joined
<1>4. r[Len(q) + 1] = a
  BY <1>1, <1>2, <1>3, ConcatProperties
<1>5. \A i \in 1 .. Len(q) : r[i] = q[i]
  BY <1>1, <1>2, <1>3, ConcatProperties
<1>6. PICK f : f = SubSeq(r, 1, Len(q))
  OBVIOUS
<1>7. /\ f \in Seq(Tokens) /\ Len(f) = Len(q)
      /\ \A i \in 1 .. Len(q) : f[i] = r[i]
  <2>1. \A i \in 1 .. Len(q) : r[i] \in Tokens
    BY <1>5, ElementOfSeq
  <2> QED
    BY <1>3, <1>6, <2>1, SubSeqProperties
<1>8. f = q
  BY <1>3, <1>5, <1>7, SeqEqual
<1>9. Last(r) = a /\ Front(r) = f
  BY <1>3, <1>4, <1>6 DEF Last, Front
<1> QED
  BY <1>1, <1>8, <1>9

\* The last token of a list is that of its last segment.
LEMMA LastSegment ==
  ASSUME NEW u \in Seq(Tokens), NEW x \in Seq(Tokens), NEW b \in Tokens
  PROVE  /\ u \o (x \o <<b>>) # <<>>
         /\ Last(u \o (x \o <<b>>)) = b /\ Front(u \o (x \o <<b>>)) = u \o x
<1>1. <<b>> \in Seq(Tokens)
  BY OneToken
<1>2. PICK z \in Seq(Tokens) : z = u \o x
  BY Joined
<1>3. (u \o x) \o <<b>> = u \o (x \o <<b>>)
  BY <1>1, Associative, Zenon
<1>4. z \o <<b>> # <<>> /\ Last(z \o <<b>>) = b /\ Front(z \o <<b>>) = z
  BY NoLastToken, Divided
<1> QED
  BY <1>2, <1>3, <1>4, Zenon

LEMMA Befores ==
  ASSUME NEW kind \in {"array", "object"}
  PROVE  /\ <<Start(kind)>> \in Seq(Tokens)
         /\ Fresh(kind) \subseteq Seq(Tokens) /\ Opened(kind) \subseteq Seq(Tokens)
         /\ Owed(kind) \subseteq Seq(Tokens) /\ OwedName \subseteq Seq(Tokens)
<1>1. /\ \A k \in {"array", "object"} : ListOf(k) \subseteq Seq(Tokens)
      /\ \A k \in {"array", "object"} : <<Start(k)>> \in Seq(Tokens)
      /\ <<"COMMA">> \in Seq(Tokens) /\ <<"STRVALUE">> \in Seq(Tokens)
      /\ <<"STRVALUE", "COLON">> \in Seq(Tokens)
  BY Segments, Brackets, OneToken DEF Tokens
<1>2. \A k \in {"array", "object"} : Fresh(k) \subseteq Seq(Tokens)
  <2>1. \A k \in {"array", "object"} : \A l \in ListOf(k) : <<Start(k)>> \o l \in Seq(Tokens)
    BY <1>1, Joined
  <2> QED
    BY <1>1, <2>1 DEF Fresh
<1>3. \A k \in {"array", "object"} : Opened(k) \subseteq Seq(Tokens)
  <2>1. \A k \in {"array", "object"} : \A l \in ListOf(k) : l \o <<"COMMA">> \in Seq(Tokens)
    BY <1>1, Joined
  <2>2. \A k \in {"array", "object"} : \A l \in ListOf(k) :
          <<Start(k)>> \o (l \o <<"COMMA">>) \in Seq(Tokens)
    BY <1>1, <2>1, Joined
  <2> QED
    BY <1>1, <2>2 DEF Opened
<1>4. \A o \in Opened("object") :
        o \o <<"STRVALUE", "COLON">> \in Seq(Tokens) /\ o \o <<"STRVALUE">> \in Seq(Tokens)
  BY <1>1, <1>3, Joined
<1> QED
  BY <1>1, <1>2, <1>3, <1>4 DEF Owed, OwedName

\* A value is a scalar or ends with the end of an array or object.
LEMMA ValueEnds ==
  ASSUME NEW v \in Value
  PROVE  \E x \in Seq(Tokens), b \in Tokens :
           /\ v = x \o <<b>>
           /\ \/ b \in {"VALUE", "STRVALUE"} /\ x = <<>>
              \/ \E kind \in {"array", "object"} : b = End(kind) /\ x \in Fresh(kind)
<1>1. CASE v \in Scalar
  <2>1. PICK b \in {"VALUE", "STRVALUE"} : v = <<b>>
    BY <1>1 DEF Scalar
  <2>2. b \in Tokens /\ <<b>> \in Seq(Tokens) /\ <<>> \in Seq(Tokens)
    BY OneToken, EmptySeq DEF Tokens
  <2>3. v = <<>> \o <<b>>
    BY <2>1, <2>2, ConcatEmptySeq
  <2> QED
    BY <2>2, <2>3
<1>2. CASE v \in Root
  <2>1. PICK kind \in {"array", "object"} :
           \/ v = <<Start(kind), End(kind)>>
           \/ \E l \in ListOf(kind) : v = (<<Start(kind)>> \o l) \o <<End(kind)>>
    BY <1>2, RootBackwards
  <2>2. <<Start(kind)>> \o <<End(kind)>> = <<Start(kind), End(kind)>> /\ End(kind) \in Tokens
    BY Brackets, TwoTokens
  <2>3. PICK x \in Fresh(kind) : v = x \o <<End(kind)>>
    BY <2>1, <2>2 DEF Fresh
  <2>4. x \in Seq(Tokens)
    BY Befores
  <2> QED
    BY <2>2, <2>3, <2>4
<1> QED
  BY <1>1, <1>2, ValueBackwards

\* A list ends with a token that can end a value.
LEMMA ListEnds ==
  ASSUME NEW kind \in {"array", "object"}, NEW l \in ListOf(kind)
  PROVE  \E x \in Seq(Tokens), b \in {"VALUE", "STRVALUE", "ARRAYEND", "OBJECTEND"} :
           l = x \o <<b>>
<1> DEFINE Ends(s) == \E x \in Seq(Tokens), b \in {"VALUE", "STRVALUE", "ARRAYEND", "OBJECTEND"} :
                        s = x \o <<b>>
<1>1. ASSUME NEW s \in Seq(Tokens), NEW t, Ends(t)
      PROVE  Ends(s \o t)
  <2>1. PICK x \in Seq(Tokens), b \in {"VALUE", "STRVALUE", "ARRAYEND", "OBJECTEND"} : t = x \o <<b>>
    BY <1>1
  <2>2. <<b>> \in Seq(Tokens) /\ s \o x \in Seq(Tokens)
    BY OneToken, Joined DEF Tokens
  <2>3. (s \o x) \o <<b>> = s \o (x \o <<b>>)
    BY <2>2, Associative, Zenon
  <2> QED
    BY <2>1, <2>2, <2>3
<1>2. ASSUME NEW v \in Value PROVE Ends(v)
  <2>1. \A kd \in {"array", "object"} : End(kd) \in {"ARRAYEND", "OBJECTEND"}
    BY DEF End
  <2> QED
    BY <2>1, ValueEnds
<1> HIDE DEF Ends
<1>3. ASSUME NEW item \in Item(kind) PROVE Ends(item)
  <2>1. CASE kind = "array"
    BY <1>2, <2>1 DEF Item
  <2>2. CASE kind = "object"
    <3>1. PICK v \in Value : item = <<"STRVALUE", "COLON">> \o v
      BY <2>2 DEF Item, Named
    <3>2. <<"STRVALUE", "COLON">> \in Seq(Tokens)
      BY DEF Tokens
    <3> QED
      BY <1>1, <1>2, <3>1, <3>2
  <2> QED
    BY <2>1, <2>2
<1>4. ASSUME NEW t \in ListOf(kind), NEW item \in Item(kind), l = (t \o <<"COMMA">>) \o item
      PROVE  Ends(l)
  <2>1. t \o <<"COMMA">> \in Seq(Tokens)
    BY Segments, OneToken, Joined DEF Tokens
  <2> QED
    BY <1>1, <1>3, <1>4, <2>1
<1>5. Ends(l)
  BY <1>3, <1>4, LastItem DEF EndsInItem
<1> QED
  BY <1>5 DEF Ends

\* What is left to read in an array or object ends with its start, with the comma
\* before the values collected, or with its last value.
LEMMA UnreadEnds ==
  ASSUME NEW frame \in Frame, NEW y \in Unread(frame)
  PROVE  \E x \in Seq(Tokens), b \in Tokens :
           /\ y = x \o <<b>>
           /\ \/ b = Start(frame.kind) /\ x = <<>>
              \/ /\ frame.has_value /\ b = "COMMA"
                 /\ \E l \in ListOf(frame.kind) : x = <<Start(frame.kind)>> \o l
              \/ /\ ~frame.has_value /\ b \in {"VALUE", "STRVALUE", "ARRAYEND", "OBJECTEND"}
                 /\ \E l \in ListOf(frame.kind) : y = <<Start(frame.kind)>> \o l
<1>1. PICK kind \in {"array", "object"} : kind = frame.kind
  BY DEF Frame
<1>2. PICK start : start = <<Start(kind)>>
  OBVIOUS
<1>3. /\ start \in Seq(Tokens) /\ <<>> \in Seq(Tokens) /\ <<"COMMA">> \in Seq(Tokens)
      /\ Start(kind) \in Tokens /\ "COMMA" \in Tokens
      /\ \A l \in ListOf(kind) : l \in Seq(Tokens)
  BY <1>2, Brackets, OneToken, EmptySeq, Segments DEF Tokens
<1>4. CASE y = start
  <2>1. y = <<>> \o start
    BY <1>3, <1>4, ConcatEmptySeq
  <2> QED
    BY <1>1, <1>2, <1>3, <2>1
<1>5. ASSUME frame.has_value, NEW l \in ListOf(kind), y = start \o (l \o <<"COMMA">>)
      PROVE  \E x \in Seq(Tokens) : y = x \o <<"COMMA">> /\ x = start \o l
  <2>1. (start \o l) \o <<"COMMA">> = start \o (l \o <<"COMMA">>)
    BY <1>3, Associative, Zenon
  <2>2. start \o l \in Seq(Tokens)
    BY <1>3, Joined
  <2> QED
    BY <1>5, <2>1, <2>2
<1>6. ASSUME ~frame.has_value, NEW l \in ListOf(kind), y = start \o l
      PROVE  \E x \in Seq(Tokens), b \in {"VALUE", "STRVALUE", "ARRAYEND", "OBJECTEND"} : y = x \o <<b>>
  <2>1. PICK x \in Seq(Tokens), b \in {"VALUE", "STRVALUE", "ARRAYEND", "OBJECTEND"} : l = x \o <<b>>
    BY ListEnds
  <2>2. <<b>> \in Seq(Tokens) /\ start \o x \in Seq(Tokens)
    BY <1>3, OneToken, Joined DEF Tokens
  <2>3. (start \o x) \o <<b>> = start \o (x \o <<b>>)
    BY <1>3, <2>2, Associative, Zenon
  <2> QED
    BY <1>6, <2>1, <2>2, <2>3
<1>7. \/ y = start
      \/ frame.has_value /\ \E l \in ListOf(kind) : y = start \o (l \o <<"COMMA">>)
      \/ ~frame.has_value /\ \E l \in ListOf(kind) : y = start \o l
  BY <1>1, <1>2 DEF Unread, Opened, Fresh
<1>8. CASE frame.has_value /\ \E l \in ListOf(kind) : y = start \o (l \o <<"COMMA">>)
  BY <1>1, <1>2, <1>3, <1>5, <1>8
<1>9. CASE ~frame.has_value /\ \E l \in ListOf(kind) : y = start \o l
  <2>1. {"VALUE", "STRVALUE", "ARRAYEND", "OBJECTEND"} \subseteq Tokens
    BY DEF Tokens
  <2> QED
    BY <1>1, <1>2, <1>6, <1>9, <2>1
<1> QED
  BY <1>4, <1>7, <1>8, <1>9

\* A list up to its last value is what is owed to that value.
LEMMA Unfold ==
  ASSUME NEW kind \in {"array", "object"}, NEW l \in ListOf(kind)
  PROVE  \E o \in Owed(kind), v \in Value : <<Start(kind)>> \o l = o \o v
<1>1. PICK start : start = <<Start(kind)>>
  OBVIOUS
<1>2. PICK two \in Seq(Tokens) : two = <<"STRVALUE", "COLON">>
  <2>1. <<"STRVALUE", "COLON">> \in Seq(Tokens)
    BY DEF Tokens
  <2> QED
    BY <2>1
<1>3. /\ start \in Seq(Tokens) /\ start \in Opened(kind) /\ Opened(kind) \subseteq Seq(Tokens)
      /\ Value \subseteq Seq(Tokens) /\ <<"COMMA">> \in Seq(Tokens)
      /\ \A t \in ListOf(kind) : t \in Seq(Tokens)
  BY <1>1, Befores, Segments, OneToken DEF Opened, Tokens
<1>4. ASSUME NEW o \in Opened(kind), NEW item \in Item(kind)
      PROVE  \E p \in Owed(kind), v \in Value : o \o item = p \o v
  <2>1. CASE kind = "array"
    BY <2>1 DEF Item, Owed
  <2>2. CASE kind = "object"
    <3>1. PICK v \in Value : item = two \o v
      BY <1>2, <2>2 DEF Item, Named
    <3>2. (o \o two) \o v = o \o (two \o v)
      BY <1>3, Associative, Zenon
    <3>3. o \o two \in Owed(kind)
      BY <1>2, <2>2 DEF Owed
    <3> QED
      BY <3>1, <3>2, <3>3
  <2> QED
    BY <2>1, <2>2
<1>5. CASE l \in Item(kind)
  BY <1>1, <1>3, <1>4, <1>5
<1>6. ASSUME NEW t \in ListOf(kind), NEW item \in Item(kind), l = (t \o <<"COMMA">>) \o item
      PROVE  \E p \in Owed(kind), v \in Value : start \o l = p \o v
  <2>1. PICK tc \in Seq(Tokens) : tc = t \o <<"COMMA">>
    BY <1>3, Joined
  <2>2. PICK o \in Opened(kind) : o = start \o tc
    BY <1>1, <2>1 DEF Opened
  <2>3. item \in Seq(Tokens) /\ start \in Seq(Tokens)
    BY <1>3, ListRules
  <2>4. (start \o tc) \o item = start \o (tc \o item)
    BY <2>3, Associative
  <2>5. start \o l = o \o item
    BY <1>6, <2>1, <2>2, <2>4, Zenon
  <2>6. PICK p \in Owed(kind), v \in Value : o \o item = p \o v
    BY <1>4
  <2> QED
    BY <2>5, <2>6
<1> QED
  BY <1>1, <1>5, <1>6, LastItem DEF EndsInItem
-----------------------------------------------------------------------------
\* --- what stands before the calls ----------------------------------------------

LEMMA LeftIn ==
  ASSUME NEW frames, NEW u, NEW n \in Nat, LeftChain(u, frames, n)
  PROVE  u[n] \in Seq(Tokens) /\ (n = 0 => u[n] = <<>>)
<1>1. n \in 0 .. n
  OBVIOUS
<1> QED
  BY <1>1 DEF LeftChain

LEMMA LeftShrinks ==
  ASSUME NEW frames, NEW u, NEW n \in Nat \ {0}, LeftChain(u, frames, n)
  PROVE  /\ LeftChain(u, frames, n - 1)
         /\ \E o \in Owed(frames[n].kind) : u[n] = u[n - 1] \o o
<1>1. n \in 1 .. n
  OBVIOUS
<1>2. \E o \in Owed(frames[n].kind) : u[n] = u[n - 1] \o o
  BY <1>1 DEF LeftChain
<1>3. (0 .. n - 1) \subseteq (0 .. n) /\ (1 .. n - 1) \subseteq (1 .. n)
  OBVIOUS
<1>4. LeftChain(u, frames, n - 1)
  BY <1>3 DEF LeftChain
<1> QED
  BY <1>2, <1>4

LEMMA LeftGrows ==
  ASSUME NEW frames, NEW u, NEW n \in Nat, LeftChain(u, frames, n),
         frames[n + 1] \in Frame, NEW o \in Owed(frames[n + 1].kind)
  PROVE  \E w : LeftChain(w, frames, n + 1) /\ w[n + 1] = u[n] \o o
<1> DEFINE w == [i \in 0 .. n + 1 |-> IF i = n + 1 THEN u[n] \o o ELSE u[i]]
<1>1. u[n] \in Seq(Tokens) /\ o \in Seq(Tokens)
  <2>1. frames[n + 1].kind \in {"array", "object"}
    BY DEF Frame
  <2> QED
    BY <2>1, LeftIn, Befores
<1>2. u[n] \o o \in Seq(Tokens)
  BY <1>1, Joined
<1>3. /\ \A i \in 0 .. n : w[i] = u[i]
      /\ w[n + 1] = u[n] \o o
  OBVIOUS
<1> HIDE DEF w
<1>4. \A i \in 0 .. n + 1 : w[i] \in Seq(Tokens)
  <2>1. ASSUME NEW i \in 0 .. n PROVE w[i] \in Seq(Tokens)
    BY <1>3 DEF LeftChain
  <2>2. \A i \in 0 .. n + 1 : i \in 0 .. n \/ i = n + 1
    OBVIOUS
  <2> QED
    BY <1>2, <1>3, <2>1, <2>2
<1>5. w[0] = <<>>
  BY <1>3 DEF LeftChain
<1>6. ASSUME NEW i \in 1 .. n + 1
      PROVE  \E x \in Owed(frames[i].kind) : w[i] = w[i - 1] \o x
  <2>1. CASE i = n + 1
    <3>1. w[i - 1] = u[n]
      BY <1>3, <2>1
    <3> QED
      BY <1>3, <2>1, <3>1
  <2>2. CASE i # n + 1
    <3>1. i \in 1 .. n /\ w[i] = u[i] /\ w[i - 1] = u[i - 1]
      BY <1>3, <2>2
    <3> QED
      BY <3>1 DEF LeftChain
  <2> QED
    BY <2>1, <2>2
<1> QED
  BY <1>3, <1>4, <1>5, <1>6 DEF LeftChain

LEMMA LeftOfKinds ==
  ASSUME NEW frames, NEW others, NEW u, NEW n \in Nat,
         LeftChain(u, frames, n), \A i \in 1 .. n : others[i].kind = frames[i].kind
  PROVE  LeftChain(u, others, n)
BY DEF LeftChain
-----------------------------------------------------------------------------
\* --- no text is lost -----------------------------------------------------------

LEMMA LastShown ==
  ASSUME TypeOK, NEW r, Shows(r), r # <<>>
  PROVE  top = Last(r)
<1>1. top \in Tokens
  BY DEF Shows, TypeOK
<1>2. top # Empty
  BY <1>1 DEF Tokens, Empty
<1>3. PICK q \in Seq(Tokens) : r = q \o <<top>>
  BY <1>2 DEF Shows
<1> QED
  BY <1>1, <1>3, Divided

\* What is left before a pop is what is left after it, and the token popped.
LEMMA BeforePop ==
  ASSUME TypeOK, Bounded, Complete, top \in Tokens, Pop,
         NEW q \in Seq(Tokens), q \o popped' \in JsonTexts
  PROVE  \E r \in Seq(Tokens) : r = q \o <<top>> /\ Fits(r)
<1>1. popped \in Seq(Tokens) /\ <<top>> \in Seq(Tokens) /\ top # Empty
  BY OneToken DEF TypeOK, Tokens, Empty
<1>2. popped' = <<top>> \o popped
  BY DEF Pop
<1>3. PICK r \in Seq(Tokens) : r = q \o <<top>>
  BY <1>1, Joined
<1>4. (q \o <<top>>) \o popped = q \o (<<top>> \o popped)
  BY <1>1, Associative, Zenon
<1>5. r \o popped \in JsonTexts
  BY <1>2, <1>3, <1>4
<1>6. Shows(r)
  BY <1>1, <1>3 DEF Shows
<1> QED
  BY <1>3, <1>5, <1>6 DEF Complete

LEMMA RootStarts ==
  ASSUME NEW s \in Root
  PROVE  s[1] \in {"ARRAYSTART", "OBJECTSTART"}
<1>1. PICK kind \in {"array", "object"} :
         \/ s = <<Start(kind), End(kind)>>
         \/ \E l \in ListOf(kind) : s = (<<Start(kind)>> \o l) \o <<End(kind)>>
  BY RootBackwards
<1>2. Start(kind) \in {"ARRAYSTART", "OBJECTSTART"} /\ Start(kind) \in Tokens
  BY DEF Start, Tokens
<1>3. CASE s = <<Start(kind), End(kind)>>
  BY <1>2, <1>3
<1>4. ASSUME NEW l \in ListOf(kind), s = (<<Start(kind)>> \o l) \o <<End(kind)>>
      PROVE  s[1] = Start(kind)
  <2>1. l \in Seq(Tokens) /\ <<Start(kind)>> \in Seq(Tokens) /\ <<End(kind)>> \in Seq(Tokens)
    BY Segments, Brackets, OneToken
  <2>2. PICK rest \in Seq(Tokens) : rest = l \o <<End(kind)>>
    BY <2>1, Joined
  <2>3. (<<Start(kind)>> \o l) \o <<End(kind)>> = <<Start(kind)>> \o (l \o <<End(kind)>>)
    BY <2>1, Associative, Zenon
  <2>4. s = <<Start(kind)>> \o rest
    BY <1>4, <2>2, <2>3
  <2> QED
    BY <1>2, <2>4, FirstToken
<1> QED
  BY <1>1, <1>2, <1>3, <1>4

\* A value is complete, and what is left stands before it: is_valid accepts, or the
\* caller goes on with what it is owed.
LEMMA AcceptFits ==
  ASSUME NEW callers \in Seq(Frame), NEW u, LeftChain(u, callers, Len(callers)),
         Accept(callers), NEW q \in Seq(Tokens), q = u[Len(callers)],
         top' \in Tokens \cup {Empty}, popped' \in Seq(Tokens),
         Shows(q)', q \o popped' \in JsonTexts
  PROVE  Fits(q)'
<1>1. CASE callers = <<>>
  <2>1. q = <<>>
    <3>1. Len(callers) = 0
      BY <1>1
    <3> QED
      BY <3>1, LeftIn
  <2>2. top' = Empty
    <3>1. ASSUME top' # Empty PROVE FALSE
      <4>1. PICK p \in Seq(Tokens) : q = p \o <<top'>>
        BY <3>1 DEF Shows
      <4>2. top' \in Tokens
        BY <3>1
      <4> QED
        BY <2>1, <4>1, <4>2, NoLastToken
    <3> QED
      BY <3>1
  <2>3. popped' \in Root
    <3>1. q \o popped' = popped'
      BY <2>1, ConcatEmptySeq
    <3> QED
      BY <3>1, TextIsRoot
  <2>4. popped'[1] \in {"ARRAYSTART", "OBJECTSTART"}
    BY <2>3, RootStarts
  <2>5. pc' = "done" /\ verdict'
    BY <1>1, <2>2, <2>4 DEF Accept
  <2> QED
    BY <2>5 DEF Fits
<1>2. CASE callers # <<>>
  <2>1. PICK n \in Nat \ {0} : n = Len(callers)
    BY <1>2, LastFrame
  <2>2. Last(callers) = callers[n] /\ callers[n].kind \in {"array", "object"}
    BY <1>2, <2>1, LastFrame
  <2>3. /\ pc' = IF callers[n].kind = "array" THEN "loop" ELSE "colon"
        /\ Len(stack') = n /\ Last(stack').kind = callers[n].kind /\ Last(stack').has_value
        /\ \A i \in 1 .. n : stack'[i].kind = callers[i].kind
    BY <1>2, <2>1, <2>2, Returning
  <2>4. LeftChain(u, callers, n - 1) /\ \E o \in Owed(callers[n].kind) : q = u[n - 1] \o o
    <3>1. LeftChain(u, callers, n)
      BY <2>1
    <3>2. /\ LeftChain(u, callers, n - 1)
          /\ \E o \in Owed(callers[n].kind) : u[n] = u[n - 1] \o o
      BY <3>1, LeftShrinks, Zenon
    <3> QED
      BY <2>1, <3>2, Zenon
  <2>5. LeftChain(u, stack', n - 1)
    <3>1. n - 1 \in Nat /\ \A i \in 1 .. n - 1 : stack'[i].kind = callers[i].kind
      BY <2>1, <2>3
    <3> QED
      BY <2>4, <3>1, LeftOfKinds
  <2>6. Outside(Owed(callers[n].kind), q)'
    BY <2>3, <2>4, <2>5 DEF Outside
  <2>7. CASE callers[n].kind = "array"
    <3>1. Owed(callers[n].kind) = Unread(Last(stack))'
      BY <2>3, <2>7 DEF Owed, Unread
    <3>2. Outside(Unread(Last(stack)), q)'
      BY <2>6, <3>1 DEF Outside
    <3> QED
      BY <2>3, <2>7, <3>2 DEF Fits
  <2>8. CASE callers[n].kind = "object"
    <3>1. Outside(Owed("object"), q)'
      BY <2>6, <2>8
    <3> QED
      BY <2>3, <2>8, <3>1 DEF Fits
  <2> QED
    BY <2>2, <2>7, <2>8
<1> QED
  BY <1>1, <1>2

LEMMA CallFits ==
  ASSUME TypeOK, Bounded, Complete, Call,
         NEW q \in Seq(Tokens), Shows(q)', q \o popped' \in JsonTexts,
         top' \in Tokens \cup {Empty}, popped' \in Seq(Tokens)
  PROVE  Fits(q)'
<1>1. pc = "call" /\ stack \in Seq(Frame) /\ Len(stack) \in Nat
  BY DEF Call, TypeOK
<1>2. PICK n \in Nat : n = Len(stack)
  BY <1>1
<1>3. ASSUME NEW r, Fits(r)
      PROVE  \E u : /\ LeftChain(u, stack, n)
                    /\ \E x \in Seq(Tokens), b \in Tokens :
                         /\ r = u[n] \o (x \o <<b>>)
                         /\ \/ b \in {"VALUE", "STRVALUE"} /\ x = <<>>
                            \/ \E kind \in {"array", "object"} : b = End(kind) /\ x \in Fresh(kind)
  <2>1. PICK u : LeftChain(u, stack, n) /\ \E v \in Value : r = u[n] \o v
    BY <1>1, <1>2, <1>3 DEF Fits
  <2>2. PICK v \in Value : r = u[n] \o v
    BY <2>1
  <2> QED
    BY <2>1, <2>2, ValueEnds
<1>4. ASSUME UNCHANGED <<top, popped>>,
             top \in {Empty, "COMMA", "COLON", "ARRAYSTART", "OBJECTSTART"}
      PROVE  FALSE
  <2>1. Shows(q) /\ q \o popped \in JsonTexts
    BY <1>4 DEF Shows
  <2>2. Fits(q)
    BY <2>1 DEF Complete
  <2>3. PICK u : /\ LeftChain(u, stack, n)
                 /\ \E x \in Seq(Tokens), b \in Tokens :
                      /\ q = u[n] \o (x \o <<b>>)
                      /\ \/ b \in {"VALUE", "STRVALUE"} /\ x = <<>>
                         \/ \E kind \in {"array", "object"} : b = End(kind) /\ x \in Fresh(kind)
    BY <1>3, <2>2
  <2>4. PICK x \in Seq(Tokens), b \in Tokens :
               /\ q = u[n] \o (x \o <<b>>)
               /\ \/ b \in {"VALUE", "STRVALUE"} /\ x = <<>>
                  \/ \E kind \in {"array", "object"} : b = End(kind) /\ x \in Fresh(kind)
    BY <2>3
  <2>5. u[n] \in Seq(Tokens)
    BY <2>3, LeftIn
  <2>6. q # <<>> /\ Last(q) = b
    BY <2>4, <2>5, LastSegment
  <2>7. top = b
    BY <2>1, <2>6, LastShown
  <2> QED
    BY <1>4, <2>4, <2>7 DEF End, Empty
<1>5. ASSUME top \in Tokens, Pop
      PROVE  \E u : /\ LeftChain(u, stack, n)
                    /\ \/ top \in {"VALUE", "STRVALUE"} /\ q = u[n]
                       \/ \E kind \in {"array", "object"} :
                            top = End(kind) /\ \E x \in Fresh(kind) : q = u[n] \o x
  <2>1. PICK r \in Seq(Tokens) : r = q \o <<top>> /\ Fits(r)
    BY <1>5, BeforePop
  <2>2. PICK u : /\ LeftChain(u, stack, n)
                 /\ \E x \in Seq(Tokens), b \in Tokens :
                      /\ r = u[n] \o (x \o <<b>>)
                      /\ \/ b \in {"VALUE", "STRVALUE"} /\ x = <<>>
                         \/ \E kind \in {"array", "object"} : b = End(kind) /\ x \in Fresh(kind)
    BY <1>3, <2>1
  <2>3. PICK x \in Seq(Tokens), b \in Tokens :
               /\ r = u[n] \o (x \o <<b>>)
               /\ \/ b \in {"VALUE", "STRVALUE"} /\ x = <<>>
                  \/ \E kind \in {"array", "object"} : b = End(kind) /\ x \in Fresh(kind)
    BY <2>2
  <2>4. u[n] \in Seq(Tokens)
    BY <2>2, LeftIn
  <2>5. Last(r) = top /\ Front(r) = q
    BY <1>5, <2>1, Divided
  <2>6. Last(r) = b /\ Front(r) = u[n] \o x
    <3>1. /\ Last(u[n] \o (x \o <<b>>)) = b
          /\ Front(u[n] \o (x \o <<b>>)) = u[n] \o x
      BY <2>4, LastSegment, Zenon
    <3> QED
      BY <2>3, <3>1, Zenon
  <2>7. top = b /\ q = u[n] \o x
    BY <2>5, <2>6
  <2>8. u[n] \o <<>> = u[n]
    BY <2>4, ConcatEmptySeq
  <2> QED
    BY <2>2, <2>3, <2>7, <2>8
<1>6. CASE top = Empty /\ Reject /\ UNCHANGED <<top, popped>>
  BY <1>4, <1>6
<1>7. CASE top \in {"COMMA", "COLON", "ARRAYSTART", "OBJECTSTART"} /\ Pop /\ Reject
  <2>1. top \in Tokens
    BY <1>7 DEF Tokens
  <2> QED
    BY <1>5, <1>7, <2>1 DEF End
<1>8. CASE top \in {"VALUE", "STRVALUE"} /\ Pop /\ Accept(stack)
  <2>1. top \in Tokens
    BY <1>8 DEF Tokens
  <2>2. PICK u : LeftChain(u, stack, n) /\ q = u[n]
    BY <1>5, <1>8, <2>1 DEF End
  <2>3. LeftChain(u, stack, Len(stack)) /\ q = u[Len(stack)]
    BY <1>2, <2>2
  <2> QED
    BY <1>1, <1>8, <2>3, AcceptFits
<1>9. ASSUME NEW kind \in {"array", "object"}, top = End(kind), Pop, Enter(kind)
      PROVE  Fits(q)'
  <2>1. top \in Tokens
    BY <1>9, Brackets
  <2>2. PICK u : LeftChain(u, stack, n) /\ \E x \in Fresh(kind) : q = u[n] \o x
    BY <1>5, <1>9, <2>1 DEF End
  <2>10. PICK x \in Fresh(kind) : q = u[n] \o x
    BY <2>2
  <2>3. PICK frame \in Frame : frame = [kind |-> kind, has_value |-> FALSE]
    BY DEF Frame
  <2>4. frame.kind = kind /\ ~frame.has_value /\ stack' = Append(stack, frame) /\ pc' = "loop"
    BY <1>9, <2>3 DEF Enter
  <2>5. /\ Len(stack') = n + 1 /\ stack'[n + 1] = frame
        /\ \A i \in 1 .. n : stack'[i] = stack[i]
    BY <1>1, <1>2, <2>4, AppendProperties
  <2>6. Last(stack') = frame /\ Len(stack') - 1 = n
    BY <1>2, <2>5 DEF Last
  <2>7. LeftChain(u, stack', n)
    BY <2>2, <2>5, LeftOfKinds
  <2>8. x \in Unread(frame)
    BY <2>4 DEF Unread
  <2>9. Outside(Unread(Last(stack)), q)'
    BY <2>6, <2>7, <2>8, <2>10 DEF Outside
  <2> QED
    BY <2>4, <2>9 DEF Fits
<1>10. CASE top = "ARRAYEND" /\ Pop /\ Enter("array")
  BY <1>9, <1>10 DEF End
<1>11. CASE top = "OBJECTEND" /\ Pop /\ Enter("object")
  BY <1>9, <1>11 DEF End
<1> QED
  BY <1>6, <1>7, <1>8, <1>10, <1>11 DEF Call

\* What a loop finds before it, after u: the start of its array or object, a comma
\* and a list, or a list.
Found(frame, u, r) ==
  \/ Last(r) = Start(frame.kind) /\ Front(r) = u
  \/ /\ frame.has_value /\ Last(r) = "COMMA"
     /\ \E l \in ListOf(frame.kind) : Front(r) = u \o (<<Start(frame.kind)>> \o l)
  \/ /\ ~frame.has_value /\ Last(r) \in {"VALUE", "STRVALUE", "ARRAYEND", "OBJECTEND"}
     /\ \E l \in ListOf(frame.kind) : r = u \o (<<Start(frame.kind)>> \o l)

LEMMA LoopLast ==
  ASSUME TypeOK, pc = "loop", NEW r, Fits(r)
  PROVE  /\ r # <<>>
         /\ \E u : /\ LeftChain(u, stack, Len(stack) - 1)
                  /\ Found(Last(stack), u[Len(stack) - 1], r)
<1>1. PICK n \in Nat, frame \in Frame : n = Len(stack) - 1 /\ frame = Last(stack)
  <2>1. stack \in Seq(Frame) /\ stack # <<>>
    BY DEF TypeOK
  <2>2. Len(stack) \in Nat \ {0} /\ Last(stack) \in Frame
    BY <2>1, LastFrame
  <2>3. Len(stack) - 1 \in Nat
    BY <2>2
  <2> QED
    BY <2>2, <2>3
<1>2. Outside(Unread(frame), r)
  BY <1>1 DEF Fits
<1>3. PICK u : LeftChain(u, stack, n) /\ \E y \in Unread(frame) : r = u[n] \o y
  BY <1>1, <1>2 DEF Outside
<1>4. PICK y \in Unread(frame) : r = u[n] \o y
  BY <1>3
<1>5. PICK x \in Seq(Tokens), b \in Tokens :
             /\ y = x \o <<b>>
             /\ \/ b = Start(frame.kind) /\ x = <<>>
                \/ /\ frame.has_value /\ b = "COMMA"
                   /\ \E l \in ListOf(frame.kind) : x = <<Start(frame.kind)>> \o l
                \/ /\ ~frame.has_value /\ b \in {"VALUE", "STRVALUE", "ARRAYEND", "OBJECTEND"}
                   /\ \E l \in ListOf(frame.kind) : y = <<Start(frame.kind)>> \o l
  BY UnreadEnds
<1>6. PICK w \in Seq(Tokens) : w = u[n]
  BY <1>3, LeftIn
<1>7. /\ w \o (x \o <<b>>) # <<>>
      /\ Last(w \o (x \o <<b>>)) = b
      /\ Front(w \o (x \o <<b>>)) = w \o x
  BY LastSegment, Zenon
<1>8. r = w \o y /\ r # <<>> /\ Last(r) = b /\ Front(r) = w \o x
  BY <1>4, <1>5, <1>6, <1>7, Zenon
<1>9. w \o <<>> = w
  BY ConcatEmptySeq
<1>10. Found(frame, w, r)
  BY <1>5, <1>8, <1>9 DEF Found
<1> QED
  BY <1>1, <1>3, <1>6, <1>8, <1>10

\* The innermost call turns to a value of its own: what is left ends with it.
LEMMA TurnFits ==
  ASSUME NEW n \in Nat, n + 1 = Len(stack), stack[n + 1] \in Frame,
         NEW u, LeftChain(u, stack, n), u[n] \in Seq(Tokens),
         NEW l \in ListOf(stack[n + 1].kind), NEW q, q = u[n] \o (<<Start(stack[n + 1].kind)>> \o l),
         stack' = stack, pc' = "call"
  PROVE  Fits(q)'
<1>1. stack[n + 1].kind \in {"array", "object"}
  BY DEF Frame
<1>2. PICK o \in Owed(stack[n + 1].kind), v \in Value : <<Start(stack[n + 1].kind)>> \o l = o \o v
  BY <1>1, Unfold
<1>3. o \in Seq(Tokens) /\ v \in Seq(Tokens)
  BY <1>1, Befores, Segments
<1>4. (u[n] \o o) \o v = u[n] \o (o \o v)
  BY <1>3, Associative, Zenon
<1>5. PICK w : LeftChain(w, stack, n + 1) /\ w[n + 1] = u[n] \o o
  BY LeftGrows
<1>6. q = w[n + 1] \o v
  BY <1>2, <1>4, <1>5, Zenon
<1>7. LeftChain(w, stack', Len(stack')) /\ q = w[Len(stack')] \o v
  BY <1>5, <1>6
<1> QED
  BY <1>7 DEF Fits

LEMMA LoopFits ==
  ASSUME TypeOK, Bounded, Complete, Loop,
         NEW q \in Seq(Tokens), Shows(q)', q \o popped' \in JsonTexts,
         top' \in Tokens \cup {Empty}, popped' \in Seq(Tokens)
  PROVE  Fits(q)'
<1>1. pc = "loop" /\ stack \in Seq(Frame) /\ stack # <<>>
  BY DEF Loop, TypeOK
<1>2. PICK n \in Nat : n + 1 = Len(stack)
  <2>1. Len(stack) \in Nat \ {0}
    BY <1>1, LastFrame
  <2>2. Len(stack) - 1 \in Nat /\ (Len(stack) - 1) + 1 = Len(stack)
    BY <2>1
  <2> QED
    BY <2>2
<1>3. PICK frame \in Frame : frame = Last(stack)
  BY <1>1, LastFrame
<1>4. frame = stack[n + 1] /\ frame.kind \in {"array", "object"}
  BY <1>1, <1>2, <1>3, LastFrame
<1>5. Start(frame.kind) \in {"ARRAYSTART", "OBJECTSTART"} /\ Start(frame.kind) \in Tokens
      /\ ListOf(frame.kind) \subseteq Seq(Tokens)
  BY <1>4, Segments DEF Start, Tokens
<1>6. ASSUME UNCHANGED <<top, popped>>
      PROVE  Fits(q) /\ (q # <<>> => top = Last(q))
  <2>1. Shows(q) /\ q \o popped \in JsonTexts
    BY <1>6 DEF Shows
  <2> QED
    BY <2>1, LastShown DEF Complete
<1>7. ASSUME top \in Tokens, Pop
      PROVE  \E r : Fits(r) /\ top = Last(r) /\ q = Front(r)
  <2>1. PICK r \in Seq(Tokens) : r = q \o <<top>> /\ Fits(r)
    BY <1>7, BeforePop
  <2> QED
    BY <1>7, <2>1, Divided
<1>8. ASSUME NEW r, Fits(r)
      PROVE  /\ r # <<>>
             /\ \E u : /\ LeftChain(u, stack, n) /\ u[n] \in Seq(Tokens)
                      /\ Found(frame, u[n], r)
  <2>1. n = Len(stack) - 1
    BY <1>2
  <2>2. /\ r # <<>>
        /\ \E u : LeftChain(u, stack, n) /\ Found(frame, u[n], r)
    BY <1>1, <1>3, <1>8, <2>1, LoopLast
  <2> QED
    BY <2>2, LeftIn
<1>9. ASSUME top = Empty, Reject, UNCHANGED <<top, popped>> PROVE Fits(q)'
  <2>1. Fits(q) /\ (q # <<>> => top = Last(q))
    BY <1>6, <1>9
  <2>2. q # <<>> /\ Last(q) \in Tokens
    BY <1>5, <1>8, <2>1 DEF Found, Tokens
  <2> QED
    BY <1>9, <2>1, <2>2 DEF Tokens, Empty
<1>10. CASE Close
  <2>1. top = Start(frame.kind) /\ top \in Tokens /\ Pop /\ Accept(Callers)
    BY <1>3, <1>4, <1>5, <1>10 DEF Close
  <2>2. PICK r : Fits(r) /\ top = Last(r) /\ q = Front(r)
    BY <1>7, <2>1
  <2>3. PICK u : LeftChain(u, stack, n) /\ q = u[n]
    BY <1>5, <1>8, <2>1, <2>2 DEF Found
  <2>4. /\ Callers \in Seq(Frame) /\ Len(Callers) = n
        /\ \A i \in 1 .. n : Callers[i] = stack[i]
    <3>1. n = Len(stack) - 1
      BY <1>2
    <3> QED
      BY <1>1, <3>1, CallersTyped DEF Callers
  <2>5. LeftChain(u, Callers, n)
    BY <2>3, <2>4, LeftOfKinds
  <2>6. LeftChain(u, Callers, Len(Callers)) /\ q = u[Len(Callers)]
    BY <2>3, <2>4, <2>5
  <2> QED
    BY <2>1, <2>4, <2>6, AcceptFits
<1>11. ASSUME top # Start(frame.kind), ~frame.has_value, pc' = "call",
              UNCHANGED <<top, popped, stack, verdict>>
       PROVE  Fits(q)'
  <2>1. Fits(q) /\ (q # <<>> => top = Last(q))
    BY <1>6, <1>11
  <2>2. PICK u : /\ LeftChain(u, stack, n) /\ u[n] \in Seq(Tokens)
                 /\ \E l \in ListOf(frame.kind) : q = u[n] \o (<<Start(frame.kind)>> \o l)
    BY <1>8, <1>11, <2>1 DEF Found
  <2>3. PICK l \in ListOf(frame.kind) : q = u[n] \o (<<Start(frame.kind)>> \o l)
    BY <2>2
  <2> QED
    BY <1>2, <1>4, <1>11, <2>2, <2>3, TurnFits
<1>12. ASSUME top # Start(frame.kind), frame.has_value, top = "COMMA", Pop, pc' = "call",
              UNCHANGED <<stack, verdict>>
       PROVE  Fits(q)'
  <2>1. top \in Tokens
    BY <1>12 DEF Tokens
  <2>2. PICK r : Fits(r) /\ top = Last(r) /\ q = Front(r)
    BY <1>7, <1>12, <2>1
  <2>3. PICK u : /\ LeftChain(u, stack, n) /\ u[n] \in Seq(Tokens)
                 /\ \E l \in ListOf(frame.kind) : q = u[n] \o (<<Start(frame.kind)>> \o l)
    BY <1>8, <1>12, <2>2 DEF Found
  <2>4. PICK l \in ListOf(frame.kind) : q = u[n] \o (<<Start(frame.kind)>> \o l)
    BY <2>3
  <2> QED
    BY <1>2, <1>4, <1>12, <2>3, <2>4, TurnFits
<1>13. ASSUME top # Start(frame.kind), frame.has_value, top # "COMMA", Reject,
              UNCHANGED <<top, popped>>
       PROVE  Fits(q)'
  <2>1. Fits(q) /\ (q # <<>> => top = Last(q))
    BY <1>6, <1>13
  <2> QED
    BY <1>8, <1>13, <2>1 DEF Found
<1>14. CASE Another
  <2>1. top # Start(frame.kind)
    BY <1>3, <1>4, <1>14 DEF Another
  <2> QED
    BY <1>3, <1>11, <1>12, <1>13, <1>14, <2>1 DEF Another
<1> QED
  BY <1>9, <1>10, <1>14 DEF Loop

\* What stands before a member's colon, or before its name, and its last token.
LEMMA OwedEnds ==
  ASSUME NEW p \in Owed("object")
  PROVE  \E y \in OwedName : p = y \o <<"COLON">>
<1>1. PICK o \in Opened("object") : o \in Seq(Tokens) /\ p = o \o <<"STRVALUE", "COLON">>
  BY Befores DEF Owed
<1>2. PICK s \in Seq(Tokens) : s = <<"STRVALUE">>
  BY OneToken DEF Tokens
<1>3. PICK c \in Seq(Tokens) : c = <<"COLON">>
  BY OneToken DEF Tokens
<1>4. s \o c = <<"STRVALUE", "COLON">>
  BY <1>2, <1>3, TwoTokens DEF Tokens
<1>5. (o \o s) \o c = o \o (s \o c)
  BY <1>1, Associative, Zenon
<1>6. p = (o \o s) \o c
  BY <1>1, <1>4, <1>5, Zenon
<1>7. o \o s \in OwedName
  BY <1>2 DEF OwedName
<1> QED
  BY <1>3, <1>6, <1>7, Zenon

LEMMA OutsideLast ==
  ASSUME NEW S, S \subseteq Seq(Tokens), NEW T, NEW b \in Tokens,
         \A p \in T : \E y \in S : p = y \o <<b>>,
         Len(stack) - 1 \in Nat, NEW r, Outside(T, r)
  PROVE  r # <<>> /\ Last(r) = b /\ Outside(S, Front(r))
<1>1. PICK n \in Nat : n = Len(stack) - 1
  OBVIOUS
<1>2. PICK u : LeftChain(u, stack, n) /\ \E p \in T : r = u[n] \o p
  BY <1>1 DEF Outside
<1>3. PICK p \in T : r = u[n] \o p
  BY <1>2
<1>4. PICK y \in S : p = y \o <<b>>
  OBVIOUS
<1>5. PICK w \in Seq(Tokens) : w = u[n]
  BY <1>2, LeftIn
<1>6. /\ w \o (y \o <<b>>) # <<>>
      /\ Last(w \o (y \o <<b>>)) = b
      /\ Front(w \o (y \o <<b>>)) = w \o y
  <2>1. y \in Seq(Tokens)
    OBVIOUS
  <2> QED
    BY <2>1, LastSegment, Zenon
<1>7. r # <<>> /\ Last(r) = b /\ Front(r) = u[n] \o y
  BY <1>3, <1>4, <1>5, <1>6, Zenon
<1>8. Outside(S, Front(r))
  BY <1>1, <1>2, <1>7 DEF Outside
<1> QED
  BY <1>7, <1>8

LEMMA MemberFits ==
  ASSUME TypeOK, Bounded, Accounted, Complete, Colon \/ Name,
         NEW q \in Seq(Tokens), Shows(q)', q \o popped' \in JsonTexts
  PROVE  Fits(q)'
<1>1. /\ stack \in Seq(Frame) /\ stack # <<>> /\ Last(stack).kind = "object"
      /\ Last(stack).has_value
  BY DEF Colon, Name, TypeOK, Accounted
<1>2. Len(stack) - 1 \in Nat
  <2>1. Len(stack) \in Nat \ {0}
    BY <1>1, LastFrame
  <2> QED
    BY <2>1
<1>3. ASSUME NEW r, Fits(r)
      PROVE  /\ pc = "colon" => r # <<>> /\ Last(r) = "COLON" /\ Outside(OwedName, Front(r))
             /\ pc = "name" => r # <<>> /\ Last(r) = "STRVALUE" /\ Outside(Opened("object"), Front(r))
  <2>1. CASE pc = "colon"
    <3>1. "COLON" \in Tokens /\ OwedName \subseteq Seq(Tokens) /\ Outside(Owed("object"), r)
      BY <1>3, <2>1, Befores DEF Fits, Tokens
    <3> QED
      BY <1>2, <2>1, <3>1, OwedEnds, OutsideLast
  <2>2. CASE pc = "name"
    <3>1. "STRVALUE" \in Tokens /\ Opened("object") \subseteq Seq(Tokens) /\ Outside(OwedName, r)
      BY <1>3, <2>2, Befores DEF Fits, Tokens
    <3>2. \A p \in OwedName : \E y \in Opened("object") : p = y \o <<"STRVALUE">>
      BY DEF OwedName
    <3> QED
      BY <1>2, <2>2, <3>1, <3>2, OutsideLast
  <2> QED
    BY <2>1, <2>2
<1>4. ASSUME UNCHANGED <<top, popped>>
      PROVE  Fits(q) /\ (q # <<>> => top = Last(q))
  <2>1. Shows(q) /\ q \o popped \in JsonTexts
    BY <1>4 DEF Shows
  <2> QED
    BY <2>1, LastShown DEF Complete
<1>5. ASSUME top \in Tokens, Pop
      PROVE  \E r : Fits(r) /\ q = Front(r)
  <2>1. PICK r \in Seq(Tokens) : r = q \o <<top>> /\ Fits(r)
    BY <1>5, BeforePop
  <2> QED
    BY <1>5, <2>1, Divided
<1>6. ASSUME pc = "colon", top = "COLON", Pop, pc' = "name", UNCHANGED stack
      PROVE  Fits(q)'
  <2>1. Outside(OwedName, q)
    BY <1>3, <1>5, <1>6 DEF Tokens
  <2>2. Outside(OwedName, q)'
    BY <1>6, <2>1 DEF Outside
  <2> QED
    BY <1>6, <2>2 DEF Fits
<1>7. ASSUME pc = "name", top = "STRVALUE", Pop, pc' = "loop", UNCHANGED stack
      PROVE  Fits(q)'
  <2>1. Outside(Opened("object"), q)
    BY <1>3, <1>5, <1>7 DEF Tokens
  <2>2. Unread(Last(stack)) = Opened("object")
    BY <1>1 DEF Unread
  <2>3. Outside(Unread(Last(stack)), q)'
    BY <1>7, <2>1, <2>2 DEF Outside
  <2> QED
    BY <1>7, <2>3 DEF Fits
<1>8. ASSUME \/ pc = "colon" /\ top # "COLON"
             \/ pc = "name" /\ top # "STRVALUE",
             UNCHANGED <<top, popped>>
      PROVE  FALSE
  BY <1>3, <1>4, <1>8
<1> QED
  BY <1>6, <1>7, <1>8 DEF Colon, Name
-----------------------------------------------------------------------------
\* At every moment, if what is left and what was popped make a text, then what is
\* left is what the calls underway wait for.
THEOREM NoTextLost == Spec => []Complete
<1>1. Init => Complete
  <2> SUFFICES ASSUME Init, NEW r \in Seq(Tokens), r \o popped \in JsonTexts
               PROVE  Fits(r)
    BY DEF Complete
  <2>1. pc = "call" /\ popped = <<>> /\ stack = <<>>
    BY DEF Init
  <2>2. r \in Value
    <3>1. r \o popped = r
      BY <2>1, ConcatEmptySeq
    <3> QED
      BY <3>1, TextIsRoot, RootIsValue
  <2>3. Len(stack) = 0
    BY <2>1
  <2> DEFINE u == [i \in 0 .. 0 |-> popped]
  <2>4. u[0] = <<>> /\ \A i \in 0 .. 0 : u[i] \in Seq(Tokens)
    BY <2>1, EmptySeq
  <2> HIDE DEF u
  <2>5. LeftChain(u, stack, 0)
    BY <2>4 DEF LeftChain
  <2>6. r = u[0] \o r
    BY <2>4, ConcatEmptySeq
  <2>7. \E w : LeftChain(w, stack, Len(stack)) /\ \E v \in Value : r = w[Len(stack)] \o v
    BY <2>2, <2>3, <2>5, <2>6
  <2> QED
    BY <2>1, <2>7 DEF Fits
<1>2. ParserInv /\ ParserInv' /\ Complete /\ [Next]_vars => Complete'
  <2> SUFFICES ASSUME TypeOK, Bounded, Accounted, TypeOK', Complete, [Next]_vars
               PROVE  Complete'
    BY DEF ParserInv
  <2>1. top' \in Tokens \cup {Empty} /\ popped' \in Seq(Tokens)
    BY DEF TypeOK
  <2>2. CASE UNCHANGED vars
    <3>1. \A r : Fits(r) => Fits(r)'
      <4> SUFFICES ASSUME NEW r, Fits(r) PROVE Fits(r)'
        OBVIOUS
      <4> QED
        BY <2>2 DEF vars, Fits, Outside
    <3>2. \A r : Shows(r)' => Shows(r)
      BY <2>2 DEF vars, Shows
    <3>3. popped' = popped
      BY <2>2 DEF vars
    <3> QED
      BY <3>1, <3>2, <3>3 DEF Complete
  <2>3. ASSUME Next, NEW q \in Seq(Tokens), Shows(q)', q \o popped' \in JsonTexts
        PROVE  Fits(q)'
    BY <2>1, <2>3, CallFits, LoopFits, MemberFits DEF Next
  <2> QED
    BY <2>2, <2>3 DEF Complete
<1> QED
  BY <1>1, <1>2, ParserInvariant, PTL DEF Spec

\* A text that ends with t is what stands before t, and t.
LEMMA EndingOf ==
  ASSUME NEW s \in Seq(Tokens), NEW t \in Suffixes(s), t # <<>>
  PROVE  \E q \in Seq(Tokens) : s = q \o t
<1>1. PICK k \in 1 .. Len(s) : t = SubSeq(s, k, Len(s))
  BY DEF Suffixes
<1>2. Len(s) \in Nat
  OBVIOUS
<1>3. PICK j \in 0 .. Len(s) : j + 1 = k
  <2>1. k - 1 \in 0 .. Len(s) /\ (k - 1) + 1 = k
    BY <1>2
  <2> QED
    BY <2>1
<1>4. SubSeq(s, 1, j) \o SubSeq(s, j + 1, Len(s)) = SubSeq(s, 1, Len(s))
  <2>1. 1 \in 1 .. Len(s) + 1 /\ j \in 1 - 1 .. Len(s) /\ Len(s) \in j .. Len(s)
    BY <1>2
  <2> QED
    BY <2>1, ConcatAdjacentSubSeq
<1>5. SubSeq(s, 1, Len(s)) = s
  BY SubSeqFull
<1>6. SubSeq(s, 1, j) \in Seq(Tokens)
  <2>1. \A i \in 1 .. j : s[i] \in Tokens
    BY <1>2, ElementOfSeq
  <2>2. 1 \in Int /\ j \in Int
    BY <1>2
  <2> QED
    BY <2>1, <2>2, SubSeqProperties
<1> QED
  BY <1>1, <1>3, <1>4, <1>5, <1>6

\* What is_valid rejects is no JSON array or object, whatever the number of tokens:
\* neither the list popped to its end nor any list with the end looked at.
THEOREM RejectedIsNoJson == Spec => []RejectsNoJson
<1>1. TypeOK /\ Complete => RejectsNoJson
  <2> SUFFICES ASSUME TypeOK, Complete, pc = "done", ~verdict
               PROVE  IF top = Empty THEN popped \notin JsonTexts
                                     ELSE <<top>> \o popped \notin Endings
    BY DEF RejectsNoJson
  <2>1. ASSUME NEW r \in Seq(Tokens), Shows(r), r \o popped \in JsonTexts
        PROVE  FALSE
    <3>1. Fits(r)
      BY <2>1 DEF Complete
    <3> QED
      BY <3>1 DEF Fits
  <2>2. popped \in Seq(Tokens)
    BY DEF TypeOK
  <2>3. ASSUME top = Empty, popped \in JsonTexts PROVE FALSE
    <3>1. <<>> \in Seq(Tokens) /\ <<>> \o popped = popped
      BY <2>2, EmptySeq, ConcatEmptySeq
    <3>2. Shows(<<>>)
      BY <2>3 DEF Shows
    <3> QED
      BY <2>1, <2>3, <3>1, <3>2
  <2>4. ASSUME top # Empty, <<top>> \o popped \in Endings PROVE FALSE
    <3>1. top \in Tokens
      BY <2>4 DEF TypeOK
    <3>2. PICK c \in Seq(Tokens) : c = <<top>> /\ Len(c) = 1
      BY <3>1, OneToken
    <3>3. PICK e \in Seq(Tokens) : e = c \o popped
      BY <2>2, Joined
    <3>4. e # <<>>
      <4>1. Len(e) = 1 + Len(popped) /\ Len(popped) \in Nat
        BY <2>2, <3>2, <3>3, Joined
      <4> QED
        BY <4>1
    <3>5. PICK t \in JsonTexts : e \in Suffixes(t)
      BY <2>4, <3>2, <3>3 DEF Endings
    <3>6. t \in Seq(Tokens)
      BY TextIsRoot DEF Root, Derived
    <3>7. PICK q \in Seq(Tokens) : t = q \o e
      BY <3>4, <3>5, <3>6, EndingOf
    <3>8. (q \o c) \o popped = q \o (c \o popped)
      BY <2>2, Associative
    <3>9. q \o c \in Seq(Tokens) /\ (q \o c) \o popped \in JsonTexts
      BY <3>3, <3>5, <3>7, <3>8, Joined
    <3>10. Shows(q \o c)
      BY <2>4, <3>2 DEF Shows
    <3> QED
      BY <2>1, <3>9, <3>10
  <2> QED
    BY <2>3, <2>4
<1>2. ParserInv => TypeOK
  BY DEF ParserInv
<1> QED
  BY <1>1, <1>2, ParserInvariant, NoTextLost, PTL
-----------------------------------------------------------------------------
\* --- what the lexer sets aside ------------------------------------------------

\* The lexer, of which only definitions about token lists are used here.
Lexer == INSTANCE JsonLexer WITH
  Texts <- {}, text <- <<>>, read <- 0, state <- "GROUND", tokens <- popped

\* No value follows a value; and the list begins and ends as one.
Alternates(s) ==
  \A i \in 1 .. Len(s) - 1 : ~(s[i] \in Lexer!Ends /\ s[i + 1] \in Lexer!Begins)
ValueLike(s) ==
  /\ s \in Seq(Tokens) /\ s # <<>> /\ Alternates(s)
  /\ s[1] \in Lexer!Begins /\ s[Len(s)] \in Lexer!Ends

LEMMA EndsOfJoined ==
  ASSUME NEW s \in Seq(Tokens), s # <<>>, NEW t \in Seq(Tokens), t # <<>>
  PROVE  /\ s \o t \in Seq(Tokens) /\ s \o t # <<>> /\ Len(s \o t) = Len(s) + Len(t)
         /\ (s \o t)[1] = s[1] /\ (s \o t)[Len(s \o t)] = t[Len(t)]
         /\ Len(s) \in Nat \ {0} /\ Len(t) \in Nat \ {0}
<1>1. Len(s) \in Nat \ {0} /\ Len(t) \in Nat \ {0}
  OBVIOUS
<1>2. s \o t \in Seq(Tokens) /\ Len(s \o t) = Len(s) + Len(t)
  BY Joined
<1>3. 1 \in 1 .. Len(s) + Len(t) /\ 1 <= Len(s)
        /\ Len(s) + Len(t) \in 1 .. Len(s) + Len(t) /\ ~(Len(s) + Len(t) <= Len(s))
        /\ Len(s) + Len(t) - Len(s) = Len(t)
  BY <1>1
<1>4. (s \o t)[1] = s[1] /\ (s \o t)[Len(s) + Len(t)] = t[Len(t)]
  BY <1>3, ConcatProperties
<1> QED
  BY <1>1, <1>2, <1>4

\* Two lists may be joined where not a value ends and another begins.
LEMMA JoinedAlternates ==
  ASSUME NEW s \in Seq(Tokens), s # <<>>, Alternates(s),
         NEW t \in Seq(Tokens), t # <<>>, Alternates(t),
         ~(s[Len(s)] \in Lexer!Ends /\ t[1] \in Lexer!Begins)
  PROVE  Alternates(s \o t)
<1>1. Len(s) \in Nat \ {0} /\ Len(t) \in Nat \ {0} /\ Len(s \o t) = Len(s) + Len(t)
  BY EndsOfJoined
<1>2. \A i \in 1 .. Len(s) + Len(t) :
        (s \o t)[i] = IF i <= Len(s) THEN s[i] ELSE t[i - Len(s)]
  BY ConcatProperties
<1> SUFFICES ASSUME NEW i \in 1 .. Len(s) + Len(t) - 1
             PROVE  ~((s \o t)[i] \in Lexer!Ends /\ (s \o t)[i + 1] \in Lexer!Begins)
  BY <1>1 DEF Alternates
<1>3. i \in 1 .. Len(s) + Len(t) /\ i + 1 \in 1 .. Len(s) + Len(t)
  BY <1>1
<1>4. CASE i < Len(s)
  <2>1. i \in 1 .. Len(s) - 1 /\ (s \o t)[i] = s[i] /\ (s \o t)[i + 1] = s[i + 1]
    BY <1>1, <1>2, <1>3, <1>4
  <2> QED
    BY <2>1 DEF Alternates
<1>5. CASE i = Len(s)
  <2>1. (s \o t)[i] = s[Len(s)] /\ (s \o t)[i + 1] = t[1]
    <3>1. i <= Len(s) /\ ~(i + 1 <= Len(s)) /\ i + 1 - Len(s) = 1
      BY <1>1, <1>5
    <3> QED
      BY <1>2, <1>3, <1>5, <3>1
  <2> QED
    BY <2>1
<1>6. CASE i > Len(s)
  <2>1. PICK j \in 1 .. Len(t) - 1 : j = i - Len(s)
    BY <1>1, <1>6
  <2>2. ~(i <= Len(s)) /\ ~(i + 1 <= Len(s)) /\ i + 1 - Len(s) = j + 1
    BY <1>1, <1>6, <2>1
  <2>3. (s \o t)[i] = t[j] /\ (s \o t)[i + 1] = t[j + 1]
    BY <1>2, <1>3, <2>1, <2>2
  <2> QED
    BY <2>3 DEF Alternates
<1> QED
  BY <1>1, <1>4, <1>5, <1>6

LEMMA OneAlternates ==
  ASSUME NEW x \in Tokens
  PROVE  <<x>> \in Seq(Tokens) /\ <<x>> # <<>> /\ Alternates(<<x>>)
         /\ Len(<<x>>) = 1 /\ <<x>>[1] = x /\ <<x>>[Len(<<x>>)] = x
<1>1. Len(<<x>>) = 1 /\ 1 .. 1 - 1 = {} /\ <<x>> \in Seq(Tokens) /\ <<x>>[1] = x
  OBVIOUS
<1>2. <<x>> # <<>>
  BY <1>1
<1>3. Alternates(<<x>>)
  BY <1>1 DEF Alternates
<1> QED
  BY <1>1, <1>2, <1>3

LEMMA Sides ==
  /\ Lexer!Ends = {"VALUE", "STRVALUE", "ARRAYEND", "OBJECTEND"}
  /\ Lexer!Begins = {"VALUE", "STRVALUE", "ARRAYSTART", "OBJECTSTART"}
BY DEF Lexer!Ends, Lexer!Begins

\* Each production keeps it so.
LEMMA EnclosedLike ==
  ASSUME NEW kind \in {"array", "object"}, NEW l, ValueLike(l)
  PROVE  ValueLike((<<Start(kind)>> \o l) \o <<End(kind)>>)
<1>1. /\ Start(kind) \in Tokens /\ Start(kind) \in Lexer!Begins /\ Start(kind) \notin Lexer!Ends
      /\ End(kind) \in Tokens /\ End(kind) \in Lexer!Ends /\ End(kind) \notin Lexer!Begins
  BY Sides DEF Start, End, Tokens
<1>2. l \in Seq(Tokens) /\ l # <<>> /\ Alternates(l) /\ l[Len(l)] \in Lexer!Ends
  BY DEF ValueLike
<1> DEFINE a == <<Start(kind)>>
           e == <<End(kind)>>
<1>3. /\ a \in Seq(Tokens) /\ a # <<>> /\ Alternates(a) /\ a[1] = Start(kind)
      /\ a[Len(a)] = Start(kind)
      /\ e \in Seq(Tokens) /\ e # <<>> /\ Alternates(e) /\ e[1] = End(kind)
      /\ e[Len(e)] = End(kind)
  BY <1>1, OneAlternates
<1> HIDE DEF a, e
<1>4. /\ a \o l \in Seq(Tokens) /\ a \o l # <<>> /\ (a \o l)[1] = a[1]
      /\ (a \o l)[Len(a \o l)] = l[Len(l)]
  BY <1>2, <1>3, EndsOfJoined
<1>5. Alternates(a \o l)
  BY <1>1, <1>2, <1>3, JoinedAlternates
<1>6. /\ (a \o l) \o e \in Seq(Tokens) /\ (a \o l) \o e # <<>>
      /\ ((a \o l) \o e)[1] = a[1] /\ ((a \o l) \o e)[Len((a \o l) \o e)] = e[Len(e)]
  <2> DEFINE b == a \o l
  <2>1. b \in Seq(Tokens) /\ b # <<>> /\ b[1] = a[1]
    BY <1>4
  <2> HIDE DEF b
  <2>2. b \o e \in Seq(Tokens) /\ b \o e # <<>> /\ (b \o e)[1] = b[1]
          /\ (b \o e)[Len(b \o e)] = e[Len(e)]
    BY <1>3, <2>1, EndsOfJoined
  <2> QED
    BY <2>1, <2>2 DEF b
<1>7. Alternates((a \o l) \o e)
  <2> DEFINE b == a \o l
  <2>1. b \in Seq(Tokens) /\ b # <<>> /\ Alternates(b)
    BY <1>4, <1>5
  <2> HIDE DEF b
  <2>2. Alternates(b \o e)
    BY <1>1, <1>3, <2>1, JoinedAlternates
  <2> QED
    BY <2>2 DEF b
<1>8. ValueLike((a \o l) \o e)
  BY <1>1, <1>3, <1>6, <1>7 DEF ValueLike
<1> QED
  BY <1>8 DEF a, e

LEMMA SeparatedLike ==
  ASSUME NEW s, ValueLike(s), NEW t, ValueLike(t)
  PROVE  ValueLike((s \o <<"COMMA">>) \o t)
<1> DEFINE c == <<"COMMA">>
           b == s \o c
<1>1. c \in Seq(Tokens) /\ c # <<>> /\ Alternates(c) /\ c[1] = "COMMA" /\ c[Len(c)] = "COMMA"
  BY OneAlternates DEF Tokens
<1>2. /\ s \in Seq(Tokens) /\ s # <<>> /\ Alternates(s) /\ s[1] \in Lexer!Begins
      /\ t \in Seq(Tokens) /\ t # <<>> /\ Alternates(t) /\ t[Len(t)] \in Lexer!Ends
  BY DEF ValueLike
<1> HIDE DEF c
<1>3. /\ b \in Seq(Tokens) /\ b # <<>> /\ b[1] = s[1] /\ b[Len(b)] = "COMMA"
  BY <1>1, <1>2, EndsOfJoined
<1>4. Alternates(b)
  BY <1>1, <1>2, Sides, JoinedAlternates
<1> HIDE DEF b
<1>5. Alternates(b \o t)
  BY <1>2, <1>3, <1>4, Sides, JoinedAlternates
<1>6. b \o t \in Seq(Tokens) /\ b \o t # <<>> /\ (b \o t)[1] = b[1]
        /\ (b \o t)[Len(b \o t)] = t[Len(t)]
  BY <1>2, <1>3, EndsOfJoined
<1>7. ValueLike(b \o t)
  BY <1>2, <1>3, <1>5, <1>6 DEF ValueLike
<1> QED
  BY <1>7 DEF b, c

LEMMA NamedLike ==
  ASSUME NEW s, ValueLike(s)
  PROVE  ValueLike(<<"STRVALUE", "COLON">> \o s)
<1> DEFINE p == <<"STRVALUE", "COLON">>
<1>1. p \in Seq(Tokens) /\ Len(p) = 2 /\ p[1] = "STRVALUE" /\ p[2] = "COLON"
  BY DEF Tokens
<1>2. p # <<>> /\ Alternates(p)
  BY <1>1, Sides DEF Alternates
<1>3. s \in Seq(Tokens) /\ s # <<>> /\ Alternates(s) /\ s[Len(s)] \in Lexer!Ends
  BY DEF ValueLike
<1> HIDE DEF p
<1>4. Alternates(p \o s)
  BY <1>1, <1>2, <1>3, Sides, JoinedAlternates
<1>5. p \o s \in Seq(Tokens) /\ p \o s # <<>> /\ (p \o s)[1] = p[1]
        /\ (p \o s)[Len(p \o s)] = s[Len(s)]
  BY <1>1, <1>2, <1>3, EndsOfJoined
<1>6. ValueLike(p \o s)
  BY <1>1, <1>3, <1>4, <1>5, Sides DEF ValueLike
<1> QED
  BY <1>6 DEF p

LEMMA PairsLike ==
  ASSUME NEW s \in Pairs
  PROVE  ValueLike(s)
<1>1. /\ s \in Seq(Tokens) /\ Len(s) = 2 /\ s[1] \in {"ARRAYSTART", "OBJECTSTART"}
      /\ s[2] \in {"ARRAYEND", "OBJECTEND"}
  <2>1. ASSUME NEW a \in Tokens, NEW b \in Tokens, s = <<a, b>>
        PROVE  s \in Seq(Tokens) /\ Len(s) = 2 /\ s[1] = a /\ s[2] = b
    BY <2>1
  <2>2. {"ARRAYSTART", "ARRAYEND", "OBJECTSTART", "OBJECTEND"} \subseteq Tokens
    BY DEF Tokens
  <2>3. CASE s = <<"ARRAYSTART", "ARRAYEND">>
    BY <2>1, <2>2, <2>3
  <2>4. CASE s = <<"OBJECTSTART", "OBJECTEND">>
    BY <2>1, <2>2, <2>4
  <2> QED
    BY <2>3, <2>4 DEF Pairs
<1>2. s # <<>> /\ s[1] \notin Lexer!Ends /\ 1 .. Len(s) - 1 = {1}
  BY <1>1, Sides
<1>3. s[1] \in Lexer!Begins /\ s[Len(s)] \in Lexer!Ends
  BY <1>1, Sides
<1>4. Alternates(s)
  BY <1>2 DEF Alternates
<1> QED
  BY <1>1, <1>2, <1>3, <1>4 DEF ValueLike

\* What the grammar derives is so.
Like(n) ==
  n \in 0 .. MaxTokens =>
    \A s \in Grammar[n].value \cup Grammar[n].values \cup Grammar[n].members : ValueLike(s)

LEMMA LikeStep ==
  ASSUME NEW n \in 0 .. MaxTokens, \A j \in Nat : j < n => Like(j)
  PROVE  /\ \A s \in Grammar[n].root :
              /\ ValueLike(s)
              /\ s[1] \in {"ARRAYSTART", "OBJECTSTART"} /\ s[Len(s)] \in {"ARRAYEND", "OBJECTEND"}
         /\ Like(n)
<1>0. n \in Nat /\ MaxTokens \in Nat
  BY JsonParserAssumption
<1>1. \A j \in Nat : j < n =>
        \A s \in Grammar[j].value \cup Grammar[j].values \cup Grammar[j].members : ValueLike(s)
  BY <1>0 DEF Like
<1>2. ASSUME NEW s \in Grammar[n].root
      PROVE  /\ ValueLike(s)
             /\ s[1] \in {"ARRAYSTART", "OBJECTSTART"} /\ s[Len(s)] \in {"ARRAYEND", "OBJECTEND"}
  <2>1. CASE n = 2 /\ s \in Pairs
    <3>1. /\ Len(s) = 2 /\ s[1] \in {"ARRAYSTART", "OBJECTSTART"}
          /\ s[2] \in {"ARRAYEND", "OBJECTEND"}
      BY <2>1 DEF Pairs, Tokens
    <3> QED
      BY <2>1, <3>1, PairsLike
  <2>2. ASSUME NEW kind \in {"array", "object"}, NEW l, ValueLike(l),
               s = (<<Start(kind)>> \o l) \o <<End(kind)>>
        PROVE  /\ ValueLike(s)
               /\ s[1] \in {"ARRAYSTART", "OBJECTSTART"} /\ s[Len(s)] \in {"ARRAYEND", "OBJECTEND"}
    <3>1. ValueLike(s)
      BY <2>2, EnclosedLike
    <3>2. Start(kind) \in Tokens /\ End(kind) \in Tokens /\ l \in Seq(Tokens) /\ l # <<>>
      BY <2>2 DEF Start, End, Tokens, ValueLike
    <3>3. PICK a \in Seq(Tokens) : a = <<Start(kind)>> /\ a # <<>> /\ a[1] = Start(kind)
      BY <3>2, OneAlternates
    <3>4. PICK e \in Seq(Tokens) : e = <<End(kind)>> /\ e # <<>> /\ e[Len(e)] = End(kind)
      BY <3>2, OneAlternates
    <3>5. PICK b \in Seq(Tokens) : b = a \o l /\ b # <<>> /\ b[1] = a[1]
      BY <3>2, <3>3, EndsOfJoined
    <3>6. s = b \o e /\ (b \o e)[1] = b[1] /\ (b \o e)[Len(b \o e)] = e[Len(e)]
      BY <2>2, <3>3, <3>4, <3>5, EndsOfJoined
    <3> QED
      BY <3>1, <3>3, <3>4, <3>5, <3>6 DEF Start, End
  <2>3. CASE n > 2 /\ s \in Enclosed("ARRAYSTART", Grammar[n - 2].values, "ARRAYEND")
    <3>1. PICK l \in Grammar[n - 2].values : s = <<"ARRAYSTART">> \o l \o <<"ARRAYEND">>
      BY <2>3 DEF Enclosed
    <3>2. n - 2 \in Nat /\ n - 2 < n
      BY <1>0, <2>3
    <3>3. ValueLike(l)
      BY <1>1, <3>2
    <3>4. s = (<<Start("array")>> \o l) \o <<End("array")>>
      BY <3>1 DEF Start, End
    <3> QED
      BY <2>2, <3>3, <3>4
  <2>4. CASE n > 2 /\ s \in Enclosed("OBJECTSTART", Grammar[n - 2].members, "OBJECTEND")
    <3>1. PICK l \in Grammar[n - 2].members : s = <<"OBJECTSTART">> \o l \o <<"OBJECTEND">>
      BY <2>4 DEF Enclosed
    <3>2. n - 2 \in Nat /\ n - 2 < n
      BY <1>0, <2>4
    <3>3. ValueLike(l)
      BY <1>1, <3>2
    <3>4. s = (<<Start("object")>> \o l) \o <<End("object")>>
      BY <3>1 DEF Start, End
    <3> QED
      BY <2>2, <3>3, <3>4
  <2> QED
    BY <2>1, <2>3, <2>4, RulesBackwards
<1>3. ASSUME NEW s \in Grammar[n].value PROVE ValueLike(s)
  <2>1. CASE s \in Scalar
    <3>1. PICK x \in {"VALUE", "STRVALUE"} : s = <<x>>
      BY <2>1 DEF Scalar
    <3>2. x \in Tokens
      BY DEF Tokens
    <3> QED
      BY <3>1, <3>2, OneAlternates, Sides DEF ValueLike
  <2> QED
    BY <1>2, <2>1, RulesBackwards
<1>4. ASSUME NEW s \in Grammar[n].values PROVE ValueLike(s)
  <2>1. ASSUME NEW k \in 1 .. n - 2,
               s \in Separated(Grammar[k].value, Grammar[n - 1 - k].values)
        PROVE  ValueLike(s)
    <3>1. k \in Nat /\ k < n /\ n - 1 - k \in Nat /\ n - 1 - k < n
      BY <1>0
    <3>2. PICK x \in Grammar[k].value, y \in Grammar[n - 1 - k].values :
            s = x \o <<"COMMA">> \o y
      BY <2>1 DEF Separated
    <3>3. ValueLike(x) /\ ValueLike(y)
      BY <1>1, <3>1
    <3> QED
      BY <3>2, <3>3, SeparatedLike
  <2> QED
    BY <1>3, <2>1, RulesBackwards
<1>5. ASSUME NEW s \in Grammar[n].members PROVE ValueLike(s)
  <2>1. ASSUME NEW k \in Nat, k < n, NEW x \in Named(Grammar[k].value) PROVE ValueLike(x)
    <3>1. PICK v \in Grammar[k].value : x = <<"STRVALUE", "COLON">> \o v
      BY DEF Named
    <3>2. ValueLike(v)
      BY <1>1, <2>1
    <3> QED
      BY <3>1, <3>2, NamedLike
  <2>2. CASE n > 2 /\ s \in Named(Grammar[n - 2].value)
    <3>1. n - 2 \in Nat /\ n - 2 < n
      BY <1>0, <2>2
    <3> QED
      BY <2>1, <2>2, <3>1
  <2>3. ASSUME NEW k \in 1 .. n - 4,
               s \in Separated(Named(Grammar[k].value), Grammar[n - 3 - k].members)
        PROVE  ValueLike(s)
    <3>1. k \in Nat /\ k < n /\ n - 3 - k \in Nat /\ n - 3 - k < n
      BY <1>0
    <3>2. PICK x \in Named(Grammar[k].value), y \in Grammar[n - 3 - k].members :
            s = x \o <<"COMMA">> \o y
      BY <2>3 DEF Separated
    <3>3. ValueLike(x)
      BY <2>1, <3>1
    <3>4. ValueLike(y)
      BY <1>1, <3>1
    <3> QED
      BY <3>2, <3>3, <3>4, SeparatedLike
  <2> QED
    BY <2>2, <2>3, RulesBackwards
<1>6. Like(n)
  BY <1>3, <1>4, <1>5 DEF Like
<1> QED
  BY <1>2, <1>6

\* The lists that the lexer's property sets aside are none of the parser's: every JSON
\* text, of any length, is one that may come from an array or object (MayBeJson).  So
\* is_valid, which runs the table and then _pop_value, accepts a text if and only if
\* one of its readings is a JSON text.
THEOREM TextsMayBeJson == \A list \in JsonTexts : Lexer!MayBeJson(list)
<1> DEFINE out == {n \in Nat : ~Like(n)}
<1>1. out = {}
  <2> SUFFICES ASSUME out # {} PROVE FALSE
    OBVIOUS
  <2>1. PICK n \in out : \A j \in out : ~(<<j, n>> \in OpToRel(<, Nat))
    BY NatLessThanWellFounded, WFMin
  <2>2. \A j \in Nat : j < n => Like(j)
    BY <2>1 DEF OpToRel
  <2>3. n \in 0 .. MaxTokens
    BY DEF Like
  <2> QED
    BY <2>2, <2>3, LikeStep
<1>2. \A j \in Nat : Like(j)
  BY <1>1
<1> HIDE DEF out
<1> SUFFICES ASSUME NEW list \in JsonTexts PROVE Lexer!MayBeJson(list)
  OBVIOUS
<1>3. PICK n \in 0 .. MaxTokens : list \in Grammar[n].root
  BY DEF JsonTexts
<1>4. /\ ValueLike(list) /\ list[1] \in {"ARRAYSTART", "OBJECTSTART"}
      /\ list[Len(list)] \in {"ARRAYEND", "OBJECTEND"}
  BY <1>2, <1>3, LikeStep
<1>5. Len(list) >= 2
  <2>1. Len(list) \in Nat \ {0} /\ list[1] # list[Len(list)]
    BY <1>4 DEF ValueLike
  <2> QED
    BY <2>1
<1> QED
  BY <1>4, <1>5 DEF Lexer!MayBeJson, ValueLike, Alternates
=============================================================================
