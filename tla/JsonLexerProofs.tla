-------------------------- MODULE JsonLexerProofs --------------------------
(***************************************************************************)
(* Theorems about JsonLexer, for texts of every length: the table hands on *)
(* exactly the tokens that the text has by the grammar.                    *)
(*                                                                         *)
(* The argument is that of derivatives.  In each state of the table the    *)
(* rest of the text has to complete what the state has begun, and may then *)
(* be taken apart as the grammar likes (Left).  A rule of the table takes  *)
(* a character off the rest and leaves what completes the next state;      *)
(* where there is no rule nothing is left that may come from an array or   *)
(* object.  So at every step the token lists of the text are the tokens    *)
(* so far with what is left (LInv), and at its end nothing is left.        *)
(***************************************************************************)
EXTENDS JsonLexer, SequenceTheorems, WellFoundedInduction, TLAPS

LEMMA LeastNumber ==
  ASSUME NEW S \in SUBSET Nat, S # {}
  PROVE  \E n \in S : \A m \in Nat : m < n => m \notin S
<1>1. PICK n \in S : \A m \in S : ~(<<m, n>> \in OpToRel(<, Nat))
  BY NatLessThanWellFounded, WFMin
<1> QED
  BY <1>1 DEF OpToRel

\* Induction up to a number, for a set.
LEMMA UpTo ==
  ASSUME NEW N \in Nat, NEW S, 0 \in S,
         \A n \in Nat : n < N /\ n \in S => n + 1 \in S
  PROVE  N \in S
<1> DEFINE out == {n \in 0 .. N : n \notin S}
<1> SUFFICES ASSUME out # {} PROVE FALSE
  OBVIOUS
<1>1. PICK n \in out : \A m \in Nat : m < n => m \notin out
  <2>1. out \in SUBSET Nat
    OBVIOUS
  <2> QED
    BY <2>1, LeastNumber
<1>2. n # 0 /\ n - 1 \in Nat /\ n - 1 < N /\ n - 1 < n /\ (n - 1) + 1 = n
  OBVIOUS
<1>3. n - 1 \in S
  BY <1>1, <1>2
<1> QED
  BY <1>2, <1>3

\* A function is defined from its last argument down.
LooksUp(m, V, D) ==
  /\ \A i \in 1 .. m, g \in [1 .. m -> V] : D[<<i, g>>] \in V
  /\ \A i \in 1 .. m, g \in [1 .. m -> V], h \in [1 .. m -> V] :
       (\A k \in i + 1 .. m : g[k] = h[k]) => D[<<i, g>>] = D[<<i, h>>]
IsFixed(g, m, D) == \A i \in 1 .. m : g[i] = D[<<i, g>>]

LEMMA Downward ==
  ASSUME NEW m \in Nat, NEW V, NEW v \in V, NEW D, LooksUp(m, V, D)
  PROVE  \E g \in [1 .. m -> V] : IsFixed(g, m, D)
<1> DEFINE Solves(n) == \E g \in [1 .. m -> V] : \A i \in m - n + 1 .. m : g[i] = D[<<i, g>>]
           S == {n \in Nat : Solves(n)}
<1>1. 0 \in S
  <2> DEFINE g == [i \in 1 .. m |-> v]
  <2>1. g \in [1 .. m -> V] /\ m - 0 + 1 .. m = {}
    OBVIOUS
  <2> QED
    BY <2>1
<1>2. ASSUME NEW n \in Nat, n < m, n \in S PROVE n + 1 \in S
  <2>1. PICK f \in [1 .. m -> V] : \A i \in m - n + 1 .. m : f[i] = D[<<i, f>>]
    BY <1>2
  <2>2. m - n \in 1 .. m
    BY <1>2
  <2> DEFINE g == [f EXCEPT ![m - n] = D[<<m - n, f>>]]
  <2>3. g \in [1 .. m -> V]
    BY <2>2 DEF LooksUp
  <2>4. g[m - n] = D[<<m - n, f>>] /\ \A k \in m - n + 1 .. m : g[k] = f[k]
    BY <2>2
  <2> HIDE DEF g
  <2>5. ASSUME NEW i \in m - n .. m PROVE g[i] = D[<<i, g>>]
    <3>1. i \in 1 .. m /\ (\A k \in i + 1 .. m : g[k] = f[k])
      BY <2>2, <2>4
    <3>2. D[<<i, g>>] = D[<<i, f>>]
      BY <2>3, <3>1 DEF LooksUp
    <3>3. CASE i = m - n
      BY <2>4, <3>2, <3>3
    <3>4. CASE i # m - n
      <4>1. i \in m - n + 1 .. m
        BY <2>2, <3>4
      <4> QED
        BY <2>1, <2>4, <3>2, <4>1
    <3> QED
      BY <3>3, <3>4
  <2>6. m - (n + 1) + 1 = m - n
    OBVIOUS
  <2> QED
    BY <2>3, <2>5, <2>6
<1> HIDE DEF S
<1>3. m \in S
  BY <1>1, <1>2, UpTo
<1>4. PICK g \in [1 .. m -> V] : \A i \in m - m + 1 .. m : g[i] = D[<<i, g>>]
  BY <1>3 DEF S
<1>5. m - m + 1 = 1
  OBVIOUS
<1> QED
  BY <1>4, <1>5 DEF IsFixed
-----------------------------------------------------------------------------
\* --- strings and readings, unfolded -----------------------------------------

EndsFrom(s, plain, k, ends) ==
  IF k > Len(s) THEN {}
  ELSE IF s[k] = Quote THEN {k + 1}
  ELSE IF s[k] \in plain THEN ends[k + 1]
  ELSE IF s[k] # Backslash \/ k = Len(s) THEN {}
  ELSE IF s[k + 1] \in Escapes THEN ends[k + 2]
  ELSE IF s[k + 1] = "u" /\ k + 5 <= Len(s) /\ AllIn(s, k + 2, k + 6, Hex) THEN ends[k + 6]
  ELSE {}

\* Where strings end, from one character to the next.
LEMMA EndsUnfold ==
  ASSUME NEW s \in Seq(Chars), NEW plain
  PROVE  \A k \in 1 .. Len(s) + 1 :
           StringEnds(s, plain)[k] = EndsFrom(s, plain, k, StringEnds(s, plain))
<1> DEFINE m == Len(s) + 1
           F == [1 .. m -> SUBSET Nat]
           D == [p \in (1 .. m) \X F |-> EndsFrom(s, plain, p[1], p[2])]
<1>1. m \in Nat /\ Len(s) \in Nat /\ {} \in SUBSET Nat
  OBVIOUS
<1>2. \A i \in 1 .. m, g \in F : D[<<i, g>>] = EndsFrom(s, plain, i, g)
  OBVIOUS
<1>3. ASSUME NEW i \in 1 .. m, NEW g \in F
      PROVE  EndsFrom(s, plain, i, g) \in SUBSET Nat
  <2>1. \A k \in 1 .. m : g[k] \in SUBSET Nat
    OBVIOUS
  <2>2. i < m => i + 1 \in 1 .. m
    OBVIOUS
  <2>3. i < m /\ i # Len(s) => i + 2 \in 1 .. m
    OBVIOUS
  <2>4. i + 5 <= Len(s) => i + 6 \in 1 .. m
    OBVIOUS
  <2>5. ~(i > Len(s)) => i < m
    OBVIOUS
  <2> QED
    BY <2>1, <2>2, <2>3, <2>4, <2>5 DEF EndsFrom
<1>4. ASSUME NEW i \in 1 .. m, NEW g \in F, NEW h \in F, \A k \in i + 1 .. m : g[k] = h[k]
      PROVE  EndsFrom(s, plain, i, g) = EndsFrom(s, plain, i, h)
  <2>1. i < m => i + 1 \in i + 1 .. m
    OBVIOUS
  <2>2. i < m /\ i # Len(s) => i + 2 \in i + 1 .. m
    OBVIOUS
  <2>3. i + 5 <= Len(s) => i + 6 \in i + 1 .. m
    OBVIOUS
  <2>4. ~(i > Len(s)) => i < m
    OBVIOUS
  <2> QED
    BY <1>4, <2>1, <2>2, <2>3, <2>4 DEF EndsFrom
<1>5. PICK g \in F : \A i \in 1 .. m : g[i] = EndsFrom(s, plain, i, g)
  <2> HIDE DEF D
  <2>1. \A i \in 1 .. m, g \in F : D[<<i, g>>] \in SUBSET Nat
    BY <1>2, <1>3
  <2>2. \A i \in 1 .. m, g \in F, h \in F :
          (\A k \in i + 1 .. m : g[k] = h[k]) => D[<<i, g>>] = D[<<i, h>>]
    BY <1>2, <1>4
  <2>3. LooksUp(m, SUBSET Nat, D)
    BY <2>1, <2>2, Zenon DEF LooksUp
  <2>4. PICK g \in F : IsFixed(g, m, D)
    <3> HIDE DEF m
    <3> QED
      BY <1>1, <2>3, Downward, Zenon
  <2> QED
    BY <1>2, <2>4 DEF IsFixed
<1>6. g = [k \in 1 .. m |-> EndsFrom(s, plain, k, g)]
  BY <1>5
<1>7. StringEnds(s, plain) = [k \in 1 .. m |-> EndsFrom(s, plain, k, StringEnds(s, plain))]
  BY <1>6 DEF StringEnds, EndsFrom
<1> QED
  BY <1>7

\* The readings from one character on.
ReadFrom(s, i, from) ==
  IF i > Len(s) THEN {<<>>}
  ELSE UNION { {TokenOf(lexeme[2]) \o rest : rest \in from[lexeme[1]]} :
                 lexeme \in {l \in (i + 1 .. Len(s) + 1) \X (Tokens \cup {None}) :
                               IsLaxLexeme(s, i, l[1], l[2])} }

LEMMA ReadingsUnfold ==
  ASSUME NEW s \in Seq(Chars)
  PROVE  /\ \A i \in 1 .. Len(s) + 1 : Readings(s)[i] = ReadFrom(s, i, Readings(s))
         /\ \A i \in 1 .. Len(s) + 1 : Readings(s)[i] \in SUBSET Seq(Tokens)
<1> DEFINE m == Len(s) + 1
           V == SUBSET Seq(Tokens)
           F == [1 .. m -> V]
           D == [p \in (1 .. m) \X F |-> ReadFrom(s, p[1], p[2])]
<1>1. m \in Nat /\ Len(s) \in Nat /\ {} \in V
  OBVIOUS
<1>2. \A i \in 1 .. m, g \in F : D[<<i, g>>] = ReadFrom(s, i, g)
  OBVIOUS
<1>3. ASSUME NEW i \in 1 .. m, NEW from, \A k \in i + 1 .. m : from[k] \in SUBSET Seq(Tokens)
      PROVE  ReadFrom(s, i, from) \in SUBSET Seq(Tokens)
  <2>1. ASSUME NEW t \in Tokens \cup {None} PROVE TokenOf(t) \in Seq(Tokens)
    BY DEF TokenOf
  <2>2. <<>> \in Seq(Tokens)
    OBVIOUS
  <2>3. ASSUME NEW x, NEW j \in i + 1 .. m, NEW t \in Tokens \cup {None}, NEW rest \in from[j],
               x = TokenOf(t) \o rest
        PROVE  x \in Seq(Tokens)
    <3>1. rest \in Seq(Tokens)
      BY <1>3
    <3> QED
      BY <2>1, <2>3, <3>1
  <2>4. CASE i > Len(s)
    BY <2>2, <2>4 DEF ReadFrom
  <2>5. CASE ~(i > Len(s))
    <3>1. ASSUME NEW x \in ReadFrom(s, i, from) PROVE x \in Seq(Tokens)
      <4>1. PICK l \in (i + 1 .. m) \X (Tokens \cup {None}) :
              \E rest \in from[l[1]] : x = TokenOf(l[2]) \o rest
        BY <2>5 DEF ReadFrom
      <4> QED
        BY <2>3, <4>1
    <3> QED
      BY <3>1
  <2> QED
    BY <2>4, <2>5
<1>4. ASSUME NEW i \in 1 .. m, NEW g \in F, NEW h \in F, \A k \in i + 1 .. m : g[k] = h[k]
      PROVE  ReadFrom(s, i, g) = ReadFrom(s, i, h)
  <2> DEFINE L == {l \in (i + 1 .. m) \X (Tokens \cup {None}) : IsLaxLexeme(s, i, l[1], l[2])}
  <2>1. \A l \in L : g[l[1]] = h[l[1]]
    BY <1>4
  <2>2. ReadFrom(s, i, g) = IF i > Len(s) THEN {<<>>}
                            ELSE UNION {{TokenOf(l[2]) \o rest : rest \in g[l[1]]} : l \in L}
    BY DEF ReadFrom
  <2>3. ReadFrom(s, i, h) = IF i > Len(s) THEN {<<>>}
                            ELSE UNION {{TokenOf(l[2]) \o rest : rest \in h[l[1]]} : l \in L}
    BY DEF ReadFrom
  <2> HIDE DEF L
  <2>4. {{TokenOf(l[2]) \o rest : rest \in g[l[1]]} : l \in L}
          = {{TokenOf(l[2]) \o rest : rest \in h[l[1]]} : l \in L}
    BY <2>1
  <2> QED
    BY <2>2, <2>3, <2>4
<1>5. PICK g \in F : \A i \in 1 .. m : g[i] = ReadFrom(s, i, g)
  <2>1. \A i \in 1 .. m, g \in F : ReadFrom(s, i, g) \in V
    BY <1>3
  <2> HIDE DEF D
  <2>2. \A i \in 1 .. m, g \in F : D[<<i, g>>] \in V
    BY <1>2, <2>1
  <2>3. \A i \in 1 .. m, g \in F, h \in F :
          (\A k \in i + 1 .. m : g[k] = h[k]) => D[<<i, g>>] = D[<<i, h>>]
    <3>1. ASSUME NEW i \in 1 .. m, NEW g \in F, NEW h \in F, \A k \in i + 1 .. m : g[k] = h[k]
          PROVE  D[<<i, g>>] = D[<<i, h>>]
      <4>1. ReadFrom(s, i, g) = ReadFrom(s, i, h)
        BY <1>4, <3>1
      <4> QED
        BY <1>2, <4>1
    <3> HIDE DEF F, m
    <3> QED
      BY <3>1
  <2>4. LooksUp(m, V, D)
    BY <2>2, <2>3, Zenon DEF LooksUp
  <2>5. PICK g \in F : IsFixed(g, m, D)
    <3> HIDE DEF m, V
    <3> QED
      BY <1>1, <2>4, Downward, Zenon
  <2> QED
    BY <1>2, <2>5 DEF IsFixed
<1>6. g = [k \in 1 .. m |-> ReadFrom(s, k, g)]
  BY <1>5
<1>7. Readings(s) = [k \in 1 .. m |-> ReadFrom(s, k, Readings(s))]
  BY <1>6 DEF Readings, ReadFrom
<1>8. \A i \in 1 .. m : Readings(s)[i] = ReadFrom(s, i, Readings(s))
  BY <1>7
<1>9. \A i \in 1 .. m : Readings(s)[i] \in SUBSET Seq(Tokens)
  <2> DEFINE S == {n \in Nat : \A i \in m - n + 1 .. m : i > 0 => Readings(s)[i] \in SUBSET Seq(Tokens)}
  <2>1. 0 \in S
    OBVIOUS
  <2>2. ASSUME NEW n \in Nat, n < m, n \in S PROVE n + 1 \in S
    <3>1. \A k \in (m - n) + 1 .. m : Readings(s)[k] \in SUBSET Seq(Tokens)
      BY <2>2
    <3>2. m - n \in 1 .. m
      BY <2>2
    <3>3. Readings(s)[m - n] \in SUBSET Seq(Tokens)
      BY <1>3, <1>8, <3>1, <3>2
    <3>4. \A i \in m - (n + 1) + 1 .. m : i = m - n \/ i \in (m - n) + 1 .. m
      OBVIOUS
    <3> QED
      BY <3>1, <3>3, <3>4
  <2> HIDE DEF S
  <2>3. m \in S
    BY <1>1, <2>1, <2>2, UpTo
  <2>4. \A i \in 1 .. m : i \in m - m + 1 .. m /\ i > 0
    OBVIOUS
  <2> QED
    BY <2>3, <2>4 DEF S
<1> QED
  BY <1>8, <1>9
-----------------------------------------------------------------------------
\* --- what completes a state -------------------------------------------------

LaxPlain == Plain \cup {"tab", "ctl"}

\* What may follow a number, word or string that has been read up to a state,
\* from the i-th character up to its end before the j-th.
NumberLeft(q, s, i, j) ==
  \/ q = "NEGATIVE" /\ \E k \in i .. j : IsDigits(s, i, k) /\ IsTail(s, k, j)
  \/ q = "NUMBER" /\ \E k \in i .. j : AllIn(s, i, k, Digits) /\ IsTail(s, k, j)
  \/ q = "ZERO" /\ IsTail(s, i, j)
  \/ q = "DECIMALBAD" /\ \E k \in i .. j : IsDigits(s, i, k) /\ IsExp(s, k, j)
  \/ q = "DECIMALOK" /\ \E k \in i .. j : AllIn(s, i, k, Digits) /\ IsExp(s, k, j)
  \/ /\ q = "EXPONENT1"
     /\ \/ IsDigits(s, i, j)
        \/ i < j /\ s[i] \in {"+", "-"} /\ IsDigits(s, i + 1, j)
  \/ q = "EXPONENT2" /\ IsDigits(s, i, j)
  \/ q = "EXPONENT3" /\ AllIn(s, i, j, Digits)

WordLeft(q, s, i, j) ==
  \/ q = "TRUE1" /\ j = i + 3 /\ s[i] = "r" /\ s[i + 1] = "u" /\ s[i + 2] = "e"
  \/ q = "TRUE2" /\ j = i + 2 /\ s[i] = "u" /\ s[i + 1] = "e"
  \/ q = "TRUE3" /\ j = i + 1 /\ s[i] = "e"
  \/ /\ q = "FALSE1" /\ j = i + 4
     /\ s[i] = "a" /\ s[i + 1] = "l" /\ s[i + 2] = "s" /\ s[i + 3] = "e"
  \/ q = "FALSE2" /\ j = i + 3 /\ s[i] = "l" /\ s[i + 1] = "s" /\ s[i + 2] = "e"
  \/ q = "FALSE3" /\ j = i + 2 /\ s[i] = "s" /\ s[i + 1] = "e"
  \/ q = "FALSE4" /\ j = i + 1 /\ s[i] = "e"
  \/ q = "NULL1" /\ j = i + 3 /\ s[i] = "u" /\ s[i + 1] = "l" /\ s[i + 2] = "l"
  \/ q = "NULL2" /\ j = i + 2 /\ s[i] = "l" /\ s[i + 1] = "l"
  \/ q = "NULL3" /\ j = i + 1 /\ s[i] = "l"

HexLeft(s, i, j, digits) ==
  /\ i + digits <= Len(s) + 1 /\ AllIn(s, i, i + digits, Hex)
  /\ j \in StringEnds(s, LaxPlain)[i + digits]
StringLeft(q, s, i, j) ==
  \/ q = "STRING" /\ j \in StringEnds(s, LaxPlain)[i]
  \/ /\ q = "STRINGSLASH" /\ i <= Len(s)
     /\ \/ s[i] \in Escapes /\ j \in StringEnds(s, LaxPlain)[i + 1]
        \/ s[i] = "u" /\ HexLeft(s, i + 1, j, 4)
  \/ q = "UNICODE1" /\ HexLeft(s, i, j, 4)
  \/ q = "UNICODE2" /\ HexLeft(s, i, j, 3)
  \/ q = "UNICODE3" /\ HexLeft(s, i, j, 2)
  \/ q = "UNICODE4" /\ HexLeft(s, i, j, 1)

\* Digits from one character to the next.
LEMMA AllInNone ==
  ASSUME NEW s, NEW S, NEW i \in Nat
  PROVE  AllIn(s, i, i, S)
<1>1. i .. i - 1 = {}
  OBVIOUS
<1> QED
  BY <1>1 DEF AllIn

LEMMA AllInStep ==
  ASSUME NEW s, NEW S, NEW i \in Nat, NEW j \in Nat, i < j
  PROVE  AllIn(s, i, j, S) <=> s[i] \in S /\ AllIn(s, i + 1, j, S)
<1>1. i .. j - 1 = {i} \cup (i + 1 .. j - 1)
  OBVIOUS
<1> QED
  BY <1>1 DEF AllIn

\* The tail of a number from one character to the next.
LEMMA TailStep ==
  ASSUME NEW s, NEW i \in Nat, NEW j \in Nat, i < j
  PROVE  /\ IsExp(s, i, j) <=> s[i] \in {"e", "E"} /\ NumberLeft("EXPONENT1", s, i + 1, j)
         /\ IsTail(s, i, j) <=> \/ s[i] = "." /\ NumberLeft("DECIMALBAD", s, i + 1, j)
                                \/ s[i] \in {"e", "E"} /\ NumberLeft("EXPONENT1", s, i + 1, j)
<1>1. IsExp(s, i, j) <=> s[i] \in {"e", "E"} /\ NumberLeft("EXPONENT1", s, i + 1, j)
  <2>1. i + 1 + 1 = i + 2
    OBVIOUS
  <2> QED
    BY <2>1 DEF IsExp, NumberLeft
<1>2. ASSUME IsTail(s, i, j)
      PROVE  \/ s[i] = "." /\ NumberLeft("DECIMALBAD", s, i + 1, j)
             \/ IsExp(s, i, j)
  <2>1. PICK k \in i .. j : IsFrac(s, i, k) /\ IsExp(s, k, j)
    BY <1>2 DEF IsTail
  <2>2. k # i => s[i] = "." /\ IsDigits(s, i + 1, k) /\ k \in i + 1 .. j
    BY <2>1 DEF IsFrac
  <2> QED
    BY <2>1, <2>2 DEF NumberLeft
<1>3. ASSUME s[i] = ".", NumberLeft("DECIMALBAD", s, i + 1, j)
      PROVE  IsTail(s, i, j)
  <2>1. PICK k \in i + 1 .. j : IsDigits(s, i + 1, k) /\ IsExp(s, k, j)
    BY <1>3 DEF NumberLeft
  <2> QED
    BY <1>3, <2>1 DEF IsTail, IsFrac
<1>4. IsExp(s, i, j) => IsTail(s, i, j)
  BY DEF IsTail, IsFrac
<1> QED
  BY <1>1, <1>2, <1>3, <1>4

\* Nothing is missing in the states in which a number may end, and only there.
LEMMA NumberMayEnd ==
  ASSUME NEW s, NEW i \in Nat, NEW q
  PROVE  NumberLeft(q, s, i, i) <=> q \in InNumber
<1>1. IsExp(s, i, i) /\ IsFrac(s, i, i) /\ ~IsDigits(s, i, i) /\ i .. i = {i}
  BY DEF IsExp, IsFrac, IsDigits
<1>2. AllIn(s, i, i, Digits) /\ IsTail(s, i, i)
  BY <1>1, AllInNone DEF IsTail
<1> QED
  BY <1>1, <1>2 DEF NumberLeft, InNumber

\* A number is read on from each state by its first character.
LEMMA NumberStep ==
  ASSUME NEW s, NEW i \in Nat, NEW j \in Nat, i < j
  PROVE  /\ NumberLeft("NEGATIVE", s, i, j) <=>
              s[i] \in Digits /\ NumberLeft("NUMBER", s, i + 1, j)
         /\ NumberLeft("NUMBER", s, i, j) <=>
              \/ s[i] \in Digits /\ NumberLeft("NUMBER", s, i + 1, j)
              \/ s[i] = "." /\ NumberLeft("DECIMALBAD", s, i + 1, j)
              \/ s[i] \in {"e", "E"} /\ NumberLeft("EXPONENT1", s, i + 1, j)
         /\ NumberLeft("ZERO", s, i, j) <=>
              \/ s[i] = "." /\ NumberLeft("DECIMALBAD", s, i + 1, j)
              \/ s[i] \in {"e", "E"} /\ NumberLeft("EXPONENT1", s, i + 1, j)
         /\ NumberLeft("DECIMALBAD", s, i, j) <=>
              s[i] \in Digits /\ NumberLeft("DECIMALOK", s, i + 1, j)
         /\ NumberLeft("DECIMALOK", s, i, j) <=>
              \/ s[i] \in Digits /\ NumberLeft("DECIMALOK", s, i + 1, j)
              \/ s[i] \in {"e", "E"} /\ NumberLeft("EXPONENT1", s, i + 1, j)
         /\ NumberLeft("EXPONENT1", s, i, j) <=>
              \/ s[i] \in Digits /\ NumberLeft("EXPONENT3", s, i + 1, j)
              \/ s[i] \in {"+", "-"} /\ NumberLeft("EXPONENT2", s, i + 1, j)
         /\ NumberLeft("EXPONENT2", s, i, j) <=>
              s[i] \in Digits /\ NumberLeft("EXPONENT3", s, i + 1, j)
         /\ NumberLeft("EXPONENT3", s, i, j) <=>
              s[i] \in Digits /\ NumberLeft("EXPONENT3", s, i + 1, j)
<1>1. \A k \in i + 1 .. j : /\ IsDigits(s, i, k) <=> s[i] \in Digits /\ AllIn(s, i + 1, k, Digits)
                            /\ AllIn(s, i, k, Digits) <=>
                                 s[i] \in Digits /\ AllIn(s, i + 1, k, Digits)
  BY AllInStep DEF IsDigits
<1>2. ~IsDigits(s, i, i) /\ AllIn(s, i, i, Digits)
  BY AllInNone DEF IsDigits
<1>3. i .. j = {i} \cup (i + 1 .. j) /\ j \in i + 1 .. j
  OBVIOUS
<1>4. NumberLeft("NEGATIVE", s, i, j) <=>
        s[i] \in Digits /\ NumberLeft("NUMBER", s, i + 1, j)
  BY <1>1, <1>2, <1>3 DEF NumberLeft
<1>5. NumberLeft("NUMBER", s, i, j) <=>
        IsTail(s, i, j) \/ (s[i] \in Digits /\ NumberLeft("NUMBER", s, i + 1, j))
  BY <1>1, <1>2, <1>3 DEF NumberLeft
<1>6. NumberLeft("ZERO", s, i, j) <=> IsTail(s, i, j)
  BY DEF NumberLeft
<1>7. NumberLeft("DECIMALBAD", s, i, j) <=>
        s[i] \in Digits /\ NumberLeft("DECIMALOK", s, i + 1, j)
  BY <1>1, <1>2, <1>3 DEF NumberLeft
<1>8. NumberLeft("DECIMALOK", s, i, j) <=>
        IsExp(s, i, j) \/ (s[i] \in Digits /\ NumberLeft("DECIMALOK", s, i + 1, j))
  BY <1>1, <1>2, <1>3 DEF NumberLeft
<1>9. NumberLeft("EXPONENT1", s, i, j) <=>
        \/ s[i] \in Digits /\ NumberLeft("EXPONENT3", s, i + 1, j)
        \/ s[i] \in {"+", "-"} /\ NumberLeft("EXPONENT2", s, i + 1, j)
  BY <1>1, <1>3 DEF NumberLeft
<1>10. /\ NumberLeft("EXPONENT2", s, i, j) <=>
            s[i] \in Digits /\ NumberLeft("EXPONENT3", s, i + 1, j)
       /\ NumberLeft("EXPONENT3", s, i, j) <=>
            s[i] \in Digits /\ NumberLeft("EXPONENT3", s, i + 1, j)
  BY <1>1, <1>3 DEF NumberLeft
<1> QED
  BY <1>4, <1>5, <1>6, <1>7, <1>8, <1>9, <1>10, TailStep

\* A number begins with its sign, a zero, or another digit.
LEMMA NumberBegins ==
  ASSUME NEW s, NEW i \in Nat, NEW j \in Nat, i < j
  PROVE  \/ IsNumber(s, i, j)
         \/ s[i] = "-" /\ \E k \in i + 1 .. j : IsDigits(s, i + 1, k) /\ IsTail(s, k, j)
         <=> \/ s[i] = "-" /\ NumberLeft("NEGATIVE", s, i + 1, j)
             \/ s[i] = "0" /\ NumberLeft("ZERO", s, i + 1, j)
             \/ s[i] = "1" /\ NumberLeft("NUMBER", s, i + 1, j)
<1>1. IsUnsigned(s, i, j) <=> \/ s[i] = "0" /\ NumberLeft("ZERO", s, i + 1, j)
                              \/ s[i] = "1" /\ NumberLeft("NUMBER", s, i + 1, j)
  <2>1. \A k \in i + 1 .. j :
          IsInt(s, i, k) <=> \/ s[i] = "0" /\ k = i + 1
                             \/ s[i] = "1" /\ AllIn(s, i + 1, k, Digits)
    <3> SUFFICES ASSUME NEW k \in i + 1 .. j
                 PROVE  IsInt(s, i, k) <=> \/ s[i] = "0" /\ k = i + 1
                                           \/ s[i] = "1" /\ AllIn(s, i + 1, k, Digits)
      OBVIOUS
    <3>1. IsDigits(s, i, k) <=> s[i] \in Digits /\ AllIn(s, i + 1, k, Digits)
      BY AllInStep DEF IsDigits
    <3>2. k = i + 1 => AllIn(s, i + 1, k, Digits)
      BY AllInNone
    <3> QED
      BY <3>1, <3>2 DEF IsInt, Digits
  <2>2. ~IsInt(s, i, i)
    BY DEF IsInt, IsDigits
  <2>3. i .. j = {i} \cup (i + 1 .. j) /\ i + 1 \in i + 1 .. j
    OBVIOUS
  <2>4. IsUnsigned(s, i, j) <=> \E k \in i + 1 .. j : IsInt(s, i, k) /\ IsTail(s, k, j)
    BY <2>2, <2>3 DEF IsUnsigned
  <2> QED
    BY <2>1, <2>3, <2>4 DEF NumberLeft
<1>2. IsUnsigned(s, i + 1, j) =>
        \E k \in i + 1 .. j : IsDigits(s, i + 1, k) /\ IsTail(s, k, j)
  BY DEF IsUnsigned, IsInt
<1>3. NumberLeft("NEGATIVE", s, i + 1, j) <=>
        \E k \in i + 1 .. j : IsDigits(s, i + 1, k) /\ IsTail(s, k, j)
  BY DEF NumberLeft
<1> QED
  BY <1>1, <1>2, <1>3 DEF IsNumber

\* A word is read on from each state by its first character.
LEMMA WordStep ==
  ASSUME NEW s, NEW i \in Nat, NEW j \in Nat
  PROVE  /\ WordLeft("TRUE1", s, i, j) <=> s[i] = "r" /\ WordLeft("TRUE2", s, i + 1, j)
         /\ WordLeft("TRUE2", s, i, j) <=> s[i] = "u" /\ WordLeft("TRUE3", s, i + 1, j)
         /\ WordLeft("TRUE3", s, i, j) <=> s[i] = "e" /\ j = i + 1
         /\ WordLeft("FALSE1", s, i, j) <=> s[i] = "a" /\ WordLeft("FALSE2", s, i + 1, j)
         /\ WordLeft("FALSE2", s, i, j) <=> s[i] = "l" /\ WordLeft("FALSE3", s, i + 1, j)
         /\ WordLeft("FALSE3", s, i, j) <=> s[i] = "s" /\ WordLeft("FALSE4", s, i + 1, j)
         /\ WordLeft("FALSE4", s, i, j) <=> s[i] = "e" /\ j = i + 1
         /\ WordLeft("NULL1", s, i, j) <=> s[i] = "u" /\ WordLeft("NULL2", s, i + 1, j)
         /\ WordLeft("NULL2", s, i, j) <=> s[i] = "l" /\ WordLeft("NULL3", s, i + 1, j)
         /\ WordLeft("NULL3", s, i, j) <=> s[i] = "l" /\ j = i + 1
<1>1. /\ (i + 1) + 1 = i + 2 /\ (i + 1) + 2 = i + 3 /\ (i + 1) + 3 = i + 4
      /\ (i + 2) + 1 = i + 3
  OBVIOUS
<1> QED
  BY <1>1 DEF WordLeft

\* A word begins with its first letter.
LEMMA WordBegins ==
  ASSUME NEW s, NEW i \in Nat, NEW j \in Nat
  PROVE  IsWord(s, i, j) <=> \/ s[i] = "t" /\ WordLeft("TRUE1", s, i + 1, j)
                             \/ s[i] = "f" /\ WordLeft("FALSE1", s, i + 1, j)
                             \/ s[i] = "n" /\ WordLeft("NULL1", s, i + 1, j)
<1> DEFINE Spelt(w) == j = i + Len(w) /\ \A k \in DOMAIN w : s[i + k - 1] = w[k]
<1>1. i + 1 - 1 = i /\ i + 2 - 1 = i + 1 /\ i + 3 - 1 = i + 2 /\ i + 4 - 1 = i + 3
        /\ i + 5 - 1 = i + 4
  OBVIOUS
<1>2. /\ (i + 1) + 1 = i + 2 /\ (i + 1) + 2 = i + 3 /\ (i + 1) + 3 = i + 4
      /\ (i + 1) + 4 = i + 5
  OBVIOUS
<1>3. Spelt(<<"t", "r", "u", "e">>) <=> s[i] = "t" /\ WordLeft("TRUE1", s, i + 1, j)
  <2>1. DOMAIN <<"t", "r", "u", "e">> = {1, 2, 3, 4} /\ Len(<<"t", "r", "u", "e">>) = 4
    OBVIOUS
  <2> QED
    BY <1>1, <1>2, <2>1 DEF WordLeft
<1>4. Spelt(<<"f", "a", "l", "s", "e">>) <=> s[i] = "f" /\ WordLeft("FALSE1", s, i + 1, j)
  <2>1. DOMAIN <<"f", "a", "l", "s", "e">> = {1, 2, 3, 4, 5} /\ Len(<<"f", "a", "l", "s", "e">>) = 5
    OBVIOUS
  <2> QED
    BY <1>1, <1>2, <2>1 DEF WordLeft
<1>5. Spelt(<<"n", "u", "l", "l">>) <=> s[i] = "n" /\ WordLeft("NULL1", s, i + 1, j)
  <2>1. DOMAIN <<"n", "u", "l", "l">> = {1, 2, 3, 4} /\ Len(<<"n", "u", "l", "l">>) = 4
    OBVIOUS
  <2> QED
    BY <1>1, <1>2, <2>1 DEF WordLeft
<1>6. IsWord(s, i, j) <=> \/ Spelt(<<"t", "r", "u", "e">>) \/ Spelt(<<"f", "a", "l", "s", "e">>)
                          \/ Spelt(<<"n", "u", "l", "l">>)
  BY DEF IsWord, Words
<1> HIDE DEF Spelt
<1> QED
  BY <1>3, <1>4, <1>5, <1>6

\* A string ends after each of its characters, and in the text.
LEMMA EndsAfter ==
  ASSUME NEW s \in Seq(Chars), NEW plain, NEW k \in 1 .. Len(s) + 1
  PROVE  \A j \in StringEnds(s, plain)[k] : j \in k + 1 .. Len(s) + 1
<1> DEFINE n == Len(s)
           E == StringEnds(s, plain)
           Good(i) == \A j \in E[i] : j \in i + 1 .. n + 1
           S == {d \in Nat : \A i \in 1 .. n + 1 : i >= n + 1 - d => Good(i)}
<1>1. n \in Nat
  OBVIOUS
<1>2. ASSUME NEW i \in 1 .. n + 1, \A h \in i + 1 .. n + 1 : Good(h)
      PROVE  Good(i)
  <2>1. E[i] = EndsFrom(s, plain, i, E)
    BY EndsUnfold
  <2>2. ASSUME NEW h \in i + 1 .. n + 1, E[i] = E[h] PROVE Good(i)
    <3>1. \A j \in E[h] : j \in h + 1 .. n + 1
      BY <1>2
    <3> QED
      BY <2>2, <3>1
  <2>3. E[i] = {} \/ (i <= n /\ E[i] = {i + 1}) \/ \E h \in i + 1 .. n + 1 : E[i] = E[h]
    <3>1. ~(i > n) => i + 1 \in i + 1 .. n + 1 /\ i <= n
      OBVIOUS
    <3>2. ~(i > n) /\ i # n => i + 2 \in i + 1 .. n + 1
      OBVIOUS
    <3>3. i + 5 <= n => i + 6 \in i + 1 .. n + 1
      OBVIOUS
    <3> HIDE DEF E
    <3> QED
      BY <2>1, <3>1, <3>2, <3>3 DEF EndsFrom
  <2> HIDE DEF E
  <2> QED
    BY <2>2, <2>3
<1> HIDE DEF E
<1>3. 0 \in S
  <2>1. \A i \in 1 .. n + 1 : i >= n + 1 - 0 => i = n + 1 /\ i + 1 .. n + 1 = {}
    OBVIOUS
  <2> HIDE DEF Good
  <2> QED
    BY <1>2, <2>1
<1>4. ASSUME NEW d \in Nat, d < n + 1, d \in S PROVE d + 1 \in S
  <2> HIDE DEF Good
  <2> SUFFICES ASSUME NEW i \in 1 .. n + 1, i >= n + 1 - (d + 1) PROVE Good(i)
    OBVIOUS
  <2>1. \A h \in i + 1 .. n + 1 : h \in 1 .. n + 1 /\ h >= n + 1 - d
    OBVIOUS
  <2> QED
    BY <1>2, <1>4, <2>1
<1> HIDE DEF S
<1>5. n + 1 \in S
  BY <1>1, <1>3, <1>4, UpTo
<1>6. k \in 1 .. n + 1 /\ k >= n + 1 - (n + 1)
  OBVIOUS
<1>7. Good(k)
  BY <1>5, <1>6 DEF S
<1> QED
  BY <1>7 DEF Good, E

\* What is a string by the grammar is one to the table.
LEMMA EndsLax ==
  ASSUME NEW s \in Seq(Chars), NEW k \in 1 .. Len(s) + 1
  PROVE  StringEnds(s, Plain) [k] \subseteq StringEnds(s, LaxPlain)[k]
<1> DEFINE n == Len(s)
           E == StringEnds(s, Plain)
           L == StringEnds(s, LaxPlain)
           S == {d \in Nat : \A i \in 1 .. n + 1 : i >= n + 1 - d => E[i] \subseteq L[i]}
<1>1. n \in Nat
  OBVIOUS
<1>2. ASSUME NEW i \in 1 .. n + 1, \A h \in i + 1 .. n + 1 : E[h] \subseteq L[h]
      PROVE  E[i] \subseteq L[i]
  <2>1. E[i] = EndsFrom(s, Plain, i, E) /\ L[i] = EndsFrom(s, LaxPlain, i, L)
    BY EndsUnfold
  <2>2. ~(i > n) => i + 1 \in i + 1 .. n + 1 /\ i <= n
    OBVIOUS
  <2>3. ~(i > n) /\ i # n => i + 2 \in i + 1 .. n + 1
    OBVIOUS
  <2>4. i + 5 <= n => i + 6 \in i + 1 .. n + 1
    OBVIOUS
  <2>5. Plain \subseteq LaxPlain /\ Backslash \notin LaxPlain
    BY DEF LaxPlain, Plain, Backslash
  <2> HIDE DEF E, L
  <2> QED
    BY <1>2, <2>1, <2>2, <2>3, <2>4, <2>5 DEF EndsFrom
<1> HIDE DEF E, L
<1>3. 0 \in S
  <2>1. \A i \in 1 .. n + 1 : i >= n + 1 - 0 => i = n + 1 /\ i + 1 .. n + 1 = {}
    OBVIOUS
  <2> QED
    BY <1>2, <2>1
<1>4. ASSUME NEW d \in Nat, d < n + 1, d \in S PROVE d + 1 \in S
  <2> SUFFICES ASSUME NEW i \in 1 .. n + 1, i >= n + 1 - (d + 1) PROVE E[i] \subseteq L[i]
    OBVIOUS
  <2>1. \A h \in i + 1 .. n + 1 : h \in 1 .. n + 1 /\ h >= n + 1 - d
    OBVIOUS
  <2> QED
    BY <1>2, <1>4, <2>1
<1> HIDE DEF S
<1>5. n + 1 \in S
  BY <1>1, <1>3, <1>4, UpTo
<1>6. k \in 1 .. n + 1 /\ k >= n + 1 - (n + 1)
  OBVIOUS
<1> QED
  BY <1>5, <1>6 DEF S, E, L

\* A string is read on from each state by its first character.
LEMMA StringStep ==
  ASSUME NEW s \in Seq(Chars), NEW i \in 1 .. Len(s), NEW j
  PROVE  /\ StringLeft("STRING", s, i, j) <=>
              \/ s[i] = Quote /\ j = i + 1
              \/ s[i] \in LaxPlain /\ StringLeft("STRING", s, i + 1, j)
              \/ s[i] = Backslash /\ StringLeft("STRINGSLASH", s, i + 1, j)
         /\ StringLeft("STRINGSLASH", s, i, j) <=>
              \/ s[i] \in Escapes /\ StringLeft("STRING", s, i + 1, j)
              \/ s[i] = "u" /\ StringLeft("UNICODE1", s, i + 1, j)
         /\ StringLeft("UNICODE1", s, i, j) <=>
              s[i] \in Hex /\ StringLeft("UNICODE2", s, i + 1, j)
         /\ StringLeft("UNICODE2", s, i, j) <=>
              s[i] \in Hex /\ StringLeft("UNICODE3", s, i + 1, j)
         /\ StringLeft("UNICODE3", s, i, j) <=>
              s[i] \in Hex /\ StringLeft("UNICODE4", s, i + 1, j)
         /\ StringLeft("UNICODE4", s, i, j) <=>
              s[i] \in Hex /\ StringLeft("STRING", s, i + 1, j)
<1> DEFINE E == StringEnds(s, LaxPlain)
<1>1. i \in Nat /\ i <= Len(s) /\ Len(s) \in Nat
  OBVIOUS
<1>2. E[i] = EndsFrom(s, LaxPlain, i, E)
  BY EndsUnfold
<1>3. ASSUME NEW digits \in 1 .. 4
      PROVE  HexLeft(s, i, j, digits) <=>
               /\ s[i] \in Hex
               /\ IF digits = 1 THEN j \in E[i + 1] ELSE HexLeft(s, i + 1, j, digits - 1)
  <2>1. AllIn(s, i, i + digits, Hex) <=> s[i] \in Hex /\ AllIn(s, i + 1, i + digits, Hex)
    BY <1>1, AllInStep
  <2>2. AllIn(s, i + 1, i + 1, Hex)
    BY <1>1, AllInNone
  <2>3. i + digits = (i + 1) + (digits - 1)
    BY <1>1
  <2> QED
    BY <1>1, <2>1, <2>2, <2>3 DEF HexLeft
<1>4. StringLeft("STRING", s, i, j) <=>
        \/ s[i] = Quote /\ j = i + 1
        \/ s[i] \in LaxPlain /\ StringLeft("STRING", s, i + 1, j)
        \/ s[i] = Backslash /\ StringLeft("STRINGSLASH", s, i + 1, j)
  <2>1. Quote \notin LaxPlain /\ Backslash \notin LaxPlain /\ Quote # Backslash /\ "u" \notin Escapes
    BY DEF LaxPlain, Plain, Quote, Backslash, Escapes
  <2>2. /\ StringLeft("STRING", s, i, j) <=> j \in E[i]
        /\ StringLeft("STRING", s, i + 1, j) <=> j \in E[i + 1]
    BY DEF StringLeft
  <2>3. StringLeft("STRINGSLASH", s, i + 1, j) <=>
          /\ i # Len(s)
          /\ \/ s[i + 1] \in Escapes /\ j \in E[i + 2]
             \/ /\ s[i + 1] = "u" /\ i + 5 <= Len(s) /\ AllIn(s, i + 2, i + 6, Hex)
                /\ j \in E[i + 6]
    <3>1. i + 1 + 1 = i + 2 /\ i + 2 + 4 = i + 6 /\ (i + 1 <= Len(s) <=> i # Len(s))
            /\ (i + 6 <= Len(s) + 1 <=> i + 5 <= Len(s))
      BY <1>1
    <3> QED
      BY <3>1 DEF StringLeft, HexLeft
  <2>4. ~(i > Len(s))
    BY <1>1
  <2> HIDE DEF E
  <2> QED
    BY <1>2, <2>1, <2>2, <2>3, <2>4 DEF EndsFrom
<1>5. StringLeft("STRINGSLASH", s, i, j) <=>
        \/ s[i] \in Escapes /\ StringLeft("STRING", s, i + 1, j)
        \/ s[i] = "u" /\ StringLeft("UNICODE1", s, i + 1, j)
  BY <1>1 DEF StringLeft
<1>6. /\ StringLeft("UNICODE1", s, i, j) <=> HexLeft(s, i, j, 4)
      /\ StringLeft("UNICODE2", s, i, j) <=> HexLeft(s, i, j, 3)
      /\ StringLeft("UNICODE3", s, i, j) <=> HexLeft(s, i, j, 2)
      /\ StringLeft("UNICODE4", s, i, j) <=> HexLeft(s, i, j, 1)
      /\ StringLeft("UNICODE2", s, i + 1, j) <=> HexLeft(s, i + 1, j, 3)
      /\ StringLeft("UNICODE3", s, i + 1, j) <=> HexLeft(s, i + 1, j, 2)
      /\ StringLeft("UNICODE4", s, i + 1, j) <=> HexLeft(s, i + 1, j, 1)
      /\ StringLeft("STRING", s, i + 1, j) <=> j \in E[i + 1]
  BY DEF StringLeft
<1>7. /\ HexLeft(s, i, j, 4) <=> s[i] \in Hex /\ HexLeft(s, i + 1, j, 3)
      /\ HexLeft(s, i, j, 3) <=> s[i] \in Hex /\ HexLeft(s, i + 1, j, 2)
      /\ HexLeft(s, i, j, 2) <=> s[i] \in Hex /\ HexLeft(s, i + 1, j, 1)
      /\ HexLeft(s, i, j, 1) <=> s[i] \in Hex /\ j \in E[i + 1]
  <2>1. 4 - 1 = 3 /\ 3 - 1 = 2 /\ 2 - 1 = 1 /\ {1, 2, 3, 4} \subseteq 1 .. 4
    OBVIOUS
  <2> HIDE DEF E
  <2> QED
    BY <1>3, <2>1
<1> QED
  BY <1>4, <1>5, <1>6, <1>7

\* No string ends after the text.
LEMMA StringNotOver ==
  ASSUME NEW s \in Seq(Chars), NEW j, NEW q
  PROVE  ~StringLeft(q, s, Len(s) + 1, j)
<1>1. Len(s) \in Nat
  OBVIOUS
<1>2. StringEnds(s, LaxPlain)[Len(s) + 1] = {}
  <2>1. Len(s) + 1 \in 1 .. Len(s) + 1 /\ Len(s) + 1 > Len(s)
    BY <1>1
  <2>2. StringEnds(s, LaxPlain)[Len(s) + 1]
          = EndsFrom(s, LaxPlain, Len(s) + 1, StringEnds(s, LaxPlain))
    BY <2>1, EndsUnfold
  <2> QED
    BY <2>1, <2>2 DEF EndsFrom
<1>3. ~(Len(s) + 1 <= Len(s)) /\ \A digits \in {1, 2, 3, 4} : ~(Len(s) + 1 + digits <= Len(s) + 1)
  BY <1>1
<1>4. \A digits \in {1, 2, 3, 4} : ~HexLeft(s, Len(s) + 1, j, digits)
  BY <1>3 DEF HexLeft
<1> QED
  BY <1>2, <1>3, <1>4 DEF StringLeft
-----------------------------------------------------------------------------
\* --- the table --------------------------------------------------------------

WordStates == {"TRUE1", "TRUE2", "TRUE3", "FALSE1", "FALSE2", "FALSE3", "FALSE4",
               "NULL1", "NULL2", "NULL3"}
StringStates == {"STRING", "STRINGSLASH", "UNICODE1", "UNICODE2", "UNICODE3", "UNICODE4"}
NumberStates == InNumber \cup {"NEGATIVE", "DECIMALBAD", "EXPONENT1", "EXPONENT2"}
AfterValue == NumberStates \ {"NEGATIVE"}

\* Where a character leads from a state, and the token it gives.
StructureGoes(q, c, p, t) ==
  /\ p = "GROUND"
  /\ \/ q \in InNumber \cup {"GROUND"} /\ c \in Space /\ t = None
     \/ q = "GROUND" /\ t \in DOMAIN Structure /\ c = Structure[t]
     \/ q \in InNumber /\ t \in {"COMMA", "COLON", "ARRAYEND", "OBJECTEND"} /\ c = Structure[t]

StringGoes(q, c, p, t) ==
  \/ q = "GROUND" /\ c = Quote /\ p = "STRING" /\ t = None
  \/ q = "STRING" /\ c = Quote /\ p = "GROUND" /\ t = "STRVALUE"
  \/ q = "STRING" /\ c = Backslash /\ p = "STRINGSLASH" /\ t = None
  \/ q = "STRING" /\ c \in {"bf", "nl"} /\ p = "ERROR" /\ t = None
  \/ q = "STRINGSLASH" /\ c \in Escapes /\ p = "STRING" /\ t = None
  \/ q = "STRINGSLASH" /\ c = "u" /\ p = "UNICODE1" /\ t = None
  \/ q = "UNICODE1" /\ c \in Hex /\ p = "UNICODE2" /\ t = None
  \/ q = "UNICODE2" /\ c \in Hex /\ p = "UNICODE3" /\ t = None
  \/ q = "UNICODE3" /\ c \in Hex /\ p = "UNICODE4" /\ t = None
  \/ q = "UNICODE4" /\ c \in Hex /\ p = "STRING" /\ t = None

WordGoes(q, c, p, t) ==
  \/ q = "GROUND" /\ c = "t" /\ p = "TRUE1" /\ t = None
  \/ q = "TRUE1" /\ c = "r" /\ p = "TRUE2" /\ t = None
  \/ q = "TRUE2" /\ c = "u" /\ p = "TRUE3" /\ t = None
  \/ q = "TRUE3" /\ c = "e" /\ p = "GROUND" /\ t = "VALUE"
  \/ q = "GROUND" /\ c = "f" /\ p = "FALSE1" /\ t = None
  \/ q = "FALSE1" /\ c = "a" /\ p = "FALSE2" /\ t = None
  \/ q = "FALSE2" /\ c = "l" /\ p = "FALSE3" /\ t = None
  \/ q = "FALSE3" /\ c = "s" /\ p = "FALSE4" /\ t = None
  \/ q = "FALSE4" /\ c = "e" /\ p = "GROUND" /\ t = "VALUE"
  \/ q = "GROUND" /\ c = "n" /\ p = "NULL1" /\ t = None
  \/ q = "NULL1" /\ c = "u" /\ p = "NULL2" /\ t = None
  \/ q = "NULL2" /\ c = "l" /\ p = "NULL3" /\ t = None
  \/ q = "NULL3" /\ c = "l" /\ p = "GROUND" /\ t = "VALUE"

NumberGoes(q, c, p, t) ==
  \/ q = "GROUND" /\ c = "-" /\ p = "NEGATIVE" /\ t = None
  \/ q = "GROUND" /\ c = "0" /\ p = "ZERO" /\ t = "VALUE"
  \/ q = "GROUND" /\ c = "1" /\ p = "NUMBER" /\ t = "VALUE"
  \/ q = "NEGATIVE" /\ c \in Digits /\ p = "NUMBER" /\ t = "VALUE"
  \/ q = "NUMBER" /\ c \in Digits /\ p = "NUMBER" /\ t = None
  \/ q \in {"NUMBER", "ZERO"} /\ c = "." /\ p = "DECIMALBAD" /\ t = None
  \/ q \in {"DECIMALBAD", "DECIMALOK"} /\ c \in Digits /\ p = "DECIMALOK" /\ t = None
  \/ q \in {"NUMBER", "ZERO", "DECIMALOK"} /\ c \in {"e", "E"} /\ p = "EXPONENT1" /\ t = None
  \/ q = "EXPONENT1" /\ c \in {"+", "-"} /\ p = "EXPONENT2" /\ t = None
  \/ q \in {"EXPONENT1", "EXPONENT2", "EXPONENT3"} /\ c \in Digits /\ p = "EXPONENT3" /\ t = None

OwnGoes(q, c, p, t) ==
  StructureGoes(q, c, p, t) \/ StringGoes(q, c, p, t) \/ WordGoes(q, c, p, t)
    \/ NumberGoes(q, c, p, t)

Goes(q, c, p, t) ==
  OwnGoes(q, c, p, t) \/ (q = "STRING" /\ c \in LaxPlain /\ p = "STRING" /\ t = None)

LEMMA Structures ==
  /\ DOMAIN Structure = {"ARRAYSTART", "ARRAYEND", "OBJECTSTART", "OBJECTEND", "COMMA", "COLON"}
  /\ Structure["ARRAYSTART"] = "[" /\ Structure["ARRAYEND"] = "]"
  /\ Structure["OBJECTSTART"] = "{" /\ Structure["OBJECTEND"] = "}"
  /\ Structure["COMMA"] = "," /\ Structure["COLON"] = ":"
BY DEF Structure

\* The rules for words, one by one.
LEMMA WordList ==
  WordRules = { <<"GROUND", {"t"}, "TRUE1", None>>, <<"TRUE1", {"r"}, "TRUE2", None>>,
                <<"TRUE2", {"u"}, "TRUE3", None>>, <<"TRUE3", {"e"}, "GROUND", "VALUE">>,
                <<"GROUND", {"f"}, "FALSE1", None>>, <<"FALSE1", {"a"}, "FALSE2", None>>,
                <<"FALSE2", {"l"}, "FALSE3", None>>, <<"FALSE3", {"s"}, "FALSE4", None>>,
                <<"FALSE4", {"e"}, "GROUND", "VALUE">>, <<"GROUND", {"n"}, "NULL1", None>>,
                <<"NULL1", {"u"}, "NULL2", None>>, <<"NULL2", {"l"}, "NULL3", None>>,
                <<"NULL3", {"l"}, "GROUND", "VALUE">> }
BY DEF WordRules, Word

\* Every rule of the table leads so.
LEMMA RuleGoes ==
  ASSUME NEW r \in TRANSFORMATIONS, NEW c \in r[2]
  PROVE  OwnGoes(r[1], c, r[3], r[4])
<1>1. ASSUME NEW q \in InNumber \cup {"GROUND"}, r = <<q, Space, "GROUND", None>>
      PROVE  OwnGoes(r[1], c, r[3], r[4])
  BY <1>1 DEF OwnGoes, StructureGoes
<1>2. CASE r \in Structural({"GROUND"}, DOMAIN Structure)
  <2>1. PICK t \in DOMAIN Structure : r = <<"GROUND", {Structure[t]}, "GROUND", t>>
    BY <1>2 DEF Structural
  <2> QED
    BY <2>1 DEF OwnGoes, StructureGoes
<1>3. CASE r \in Structural(InNumber, {"COMMA", "COLON", "ARRAYEND", "OBJECTEND"})
  <2>1. PICK q \in InNumber, t \in {"COMMA", "COLON", "ARRAYEND", "OBJECTEND"} :
          r = <<q, {Structure[t]}, "GROUND", t>>
    BY <1>3 DEF Structural
  <2> QED
    BY <2>1 DEF OwnGoes, StructureGoes
<1>4. CASE r \in StringRules
  <2>1. StringGoes(r[1], c, r[3], r[4])
    BY <1>4 DEF StringRules, StringGoes, Escapes
  <2> QED
    BY <2>1 DEF OwnGoes
<1>5. CASE r \in WordRules
  <2>1. WordGoes(r[1], c, r[3], r[4])
    BY <1>5, WordList DEF WordGoes
  <2> QED
    BY <2>1 DEF OwnGoes
<1>6. CASE r \in NumberRules
  <2>1. NumberGoes(r[1], c, r[3], r[4])
    BY <1>6 DEF NumberRules, NumberGoes, Digits
  <2> QED
    BY <2>1 DEF OwnGoes
<1>7. \/ \E q \in InNumber \cup {"GROUND"} : r = <<q, Space, "GROUND", None>>
      \/ r \in Structural({"GROUND"}, DOMAIN Structure)
      \/ r \in Structural(InNumber, {"COMMA", "COLON", "ARRAYEND", "OBJECTEND"})
      \/ r \in StringRules \/ r \in WordRules \/ r \in NumberRules
  BY DEF TRANSFORMATIONS
<1> QED
  BY <1>1, <1>2, <1>3, <1>4, <1>5, <1>6, <1>7, Zenon

\* And whatever leads so is in the table.
LEMMA GoesByRule ==
  ASSUME NEW q, NEW c, NEW p, NEW t, OwnGoes(q, c, p, t)
  PROVE  \E C : <<q, C, p, t>> \in TRANSFORMATIONS /\ c \in C
<1>1. CASE StructureGoes(q, c, p, t)
  <2>1. CASE q \in InNumber \cup {"GROUND"} /\ c \in Space /\ t = None
    <3>1. <<q, Space, p, t>> \in TRANSFORMATIONS
      BY <1>1, <2>1 DEF TRANSFORMATIONS, StructureGoes
    <3> QED
      BY <2>1, <3>1
  <2>2. CASE q = "GROUND" /\ t \in DOMAIN Structure /\ c = Structure[t]
    <3>1. <<q, {c}, p, t>> \in Structural({"GROUND"}, DOMAIN Structure)
      BY <1>1, <2>2 DEF Structural, StructureGoes
    <3>2. <<q, {c}, p, t>> \in TRANSFORMATIONS
      BY <3>1 DEF TRANSFORMATIONS
    <3> QED
      BY <3>2
  <2>3. CASE /\ q \in InNumber /\ t \in {"COMMA", "COLON", "ARRAYEND", "OBJECTEND"}
             /\ c = Structure[t]
    <3>1. <<q, {c}, p, t>> \in Structural(InNumber, {"COMMA", "COLON", "ARRAYEND", "OBJECTEND"})
      BY <1>1, <2>3 DEF Structural, StructureGoes
    <3>2. <<q, {c}, p, t>> \in TRANSFORMATIONS
      BY <3>1 DEF TRANSFORMATIONS
    <3> QED
      BY <3>2
  <2> QED
    BY <1>1, <2>1, <2>2, <2>3 DEF StructureGoes
<1>2. CASE StringGoes(q, c, p, t)
  <2>1. \/ <<q, {c}, p, t>> \in StringRules
        \/ <<q, {"bf", "nl"}, p, t>> \in StringRules /\ c \in {"bf", "nl"}
        \/ <<q, Escapes, p, t>> \in StringRules /\ c \in Escapes
        \/ <<q, Hex, p, t>> \in StringRules /\ c \in Hex
    BY <1>2 DEF StringRules, StringGoes, Escapes
  <2>2. StringRules \subseteq TRANSFORMATIONS
    BY DEF TRANSFORMATIONS
  <2> QED
    BY <2>1, <2>2
<1>3. CASE WordGoes(q, c, p, t)
  <2>1. <<q, {c}, p, t>> \in WordRules
    BY <1>3, WordList DEF WordGoes
  <2>2. WordRules \subseteq TRANSFORMATIONS
    BY DEF TRANSFORMATIONS
  <2> QED
    BY <2>1, <2>2
<1>4. CASE NumberGoes(q, c, p, t)
  <2>1. \/ <<q, {c}, p, t>> \in NumberRules
        \/ <<q, Digits, p, t>> \in NumberRules /\ c \in Digits
        \/ <<q, {"e", "E"}, p, t>> \in NumberRules /\ c \in {"e", "E"}
        \/ <<q, {"+", "-"}, p, t>> \in NumberRules /\ c \in {"+", "-"}
    <3>1. CASE q = "NEGATIVE"
      BY <1>4, <3>1 DEF NumberRules, NumberGoes, Digits
    <3>2. CASE q # "NEGATIVE"
      BY <1>4, <3>2 DEF NumberRules, NumberGoes
    <3> QED
      BY <3>1, <3>2
  <2>2. NumberRules \subseteq TRANSFORMATIONS
    BY DEF TRANSFORMATIONS
  <2> QED
    BY <2>1, <2>2
<1> QED
  BY <1>1, <1>2, <1>3, <1>4 DEF OwnGoes

\* The rules for a state and a character, the wildcard among them.
LEMMA Rules ==
  ASSUME NEW q, NEW c \in Chars
  PROVE  /\ \A r \in RulesFor(q, c) : Goes(q, c, r[3], r[4])
         /\ \A p, t : Goes(q, c, p, t) => \E r \in RulesFor(q, c) : r[3] = p /\ r[4] = t
<1> DEFINE own == {r \in TRANSFORMATIONS : r[1] = q /\ c \in r[2]}
<1>1. ASSUME NEW r \in own PROVE OwnGoes(q, c, r[3], r[4])
  <2>1. r \in TRANSFORMATIONS /\ c \in r[2] /\ r[1] = q
    OBVIOUS
  <2> QED
    BY <2>1, RuleGoes
<1>2. ASSUME NEW p, NEW t, OwnGoes(q, c, p, t)
      PROVE  \E r \in own : r[3] = p /\ r[4] = t
  <2>1. PICK C : <<q, C, p, t>> \in TRANSFORMATIONS /\ c \in C
    BY <1>2, GoesByRule
  <2>2. PICK r : r = <<q, C, p, t>>
    OBVIOUS
  <2>3. r[1] = q /\ r[2] = C /\ r[3] = p /\ r[4] = t
    BY <2>2
  <2> QED
    BY <2>1, <2>2, <2>3
<1>3. RulesFor(q, c) = IF own = {} /\ q = "STRING" THEN {<<q, {c}, "STRING", None>>} ELSE own
  BY DEF RulesFor
<1>4. q = "STRING" => (c \in LaxPlain <=> \A p, t : ~OwnGoes(q, c, p, t))
  <2>1. c \in LaxPlain <=> c \notin {Quote, Backslash, "bf", "nl"}
    BY DEF LaxPlain, Plain, Chars, Quote, Backslash
  <2>2. q = "STRING" => \A p, t : OwnGoes(q, c, p, t) =>
                                    c \in {Quote, Backslash, "bf", "nl"}
    BY DEF OwnGoes, StructureGoes, StringGoes, WordGoes, NumberGoes, InNumber
  <2>3. /\ q = "STRING" /\ c = Quote => OwnGoes(q, c, "GROUND", "STRVALUE")
        /\ q = "STRING" /\ c = Backslash => OwnGoes(q, c, "STRINGSLASH", None)
        /\ q = "STRING" /\ c \in {"bf", "nl"} => OwnGoes(q, c, "ERROR", None)
    BY DEF OwnGoes, StringGoes
  <2> QED
    BY <2>1, <2>2, <2>3
<1>5. own = {} <=> \A p, t : ~OwnGoes(q, c, p, t)
  BY <1>1, <1>2
<1> HIDE DEF own
<1>6. CASE own = {} /\ q = "STRING"
  <2>1. RulesFor(q, c) = {<<q, {c}, "STRING", None>>}
    BY <1>3, <1>6
  <2>2. PICK w : w = <<q, {c}, "STRING", None>>
    OBVIOUS
  <2>3. w[3] = "STRING" /\ w[4] = None /\ RulesFor(q, c) = {w}
    BY <2>1, <2>2
  <2>4. \A p, t : Goes(q, c, p, t) <=> p = "STRING" /\ t = None
    BY <1>4, <1>5, <1>6 DEF Goes
  <2> QED
    BY <2>3, <2>4
<1>7. CASE ~(own = {} /\ q = "STRING")
  <2>1. RulesFor(q, c) = own
    BY <1>3, <1>7
  <2>2. \A p, t : Goes(q, c, p, t) <=> OwnGoes(q, c, p, t)
    BY <1>4, <1>5, <1>7 DEF Goes
  <2> QED
    BY <1>1, <1>2, <2>1, <2>2
<1> QED
  BY <1>6, <1>7

\* At most one rule: where a character leads is determined.
LEMMA OneWay ==
  ASSUME NEW q, NEW c, NEW p1, NEW t1, NEW p2, NEW t2, Goes(q, c, p1, t1), Goes(q, c, p2, t2)
  PROVE  p1 = p2 /\ t1 = t2
<1>1. Structure = [t \in DOMAIN Structure |-> Structure[t]]
  BY DEF Structure
<1> QED
  BY Structures DEF Goes, OwnGoes, StructureGoes, StringGoes, WordGoes, NumberGoes, InNumber,
     Space, Digits, Hex, Quote, Backslash, Escapes, LaxPlain, Plain

\* Where a character leads to is a state of the table.
LEMMA GoesTypes ==
  ASSUME NEW q, NEW c, NEW p, NEW t, Goes(q, c, p, t)
  PROVE  /\ t \in Tokens \cup {None}
         /\ p \in AfterValue => t = "VALUE" \/ (t = None /\ q \in AfterValue)
BY Structures DEF Goes, OwnGoes, StructureGoes, StringGoes, WordGoes, NumberGoes, AfterValue,
   NumberStates, InNumber, Tokens, None
-----------------------------------------------------------------------------
\* --- what is left of a text ---------------------------------------------------

Completes(q, s, i, j) ==
  \/ q = "GROUND" /\ j = i
  \/ q \in NumberStates /\ NumberLeft(q, s, i, j)
  \/ q \in WordStates /\ WordLeft(q, s, i, j)
  \/ q \in StringStates /\ StringLeft(q, s, i, j)

\* The token that a state will have given when what it has begun is complete.
Late(q) ==
  IF q \in StringStates THEN "STRVALUE"
  ELSE IF q \in WordStates \cup {"NEGATIVE"} THEN "VALUE"
  ELSE None

With(t, x) == TokenOf(t) \o x

Left(q, s, i) ==
  {With(Late(q), x) :
     x \in UNION {Readings(s)[j] : j \in {k \in i .. Len(s) + 1 : Completes(q, s, i, k)}}}

LEMMA WithToken ==
  ASSUME NEW x \in Seq(Tokens), NEW t \in Tokens \cup {None}
  PROVE  /\ With(t, x) \in Seq(Tokens)
         /\ With(None, x) = x
         /\ t # None => With(t, x) # <<>> /\ With(t, x)[1] = t
<1>1. None \notin Tokens
  BY Structures DEF Tokens, None
<1>2. <<>> \o x = x
  BY ConcatEmptySeq
<1>3. TokenOf(None) = <<>>
  BY DEF TokenOf
<1>4. ASSUME t # None PROVE With(t, x) \in Seq(Tokens) /\ With(t, x) # <<>> /\ With(t, x)[1] = t
  <2>1. TokenOf(t) = <<t>> /\ t \in Tokens /\ <<t>> \in Seq(Tokens) /\ Len(<<t>>) = 1
    BY <1>4 DEF TokenOf
  <2>2. /\ <<t>> \o x \in Seq(Tokens) /\ Len(<<t>> \o x) = 1 + Len(x)
        /\ (<<t>> \o x)[1] = t
    BY <2>1, ConcatProperties
  <2>3. Len(<<t>> \o x) # 0
    BY <2>2
  <2> QED
    BY <2>1, <2>2, <2>3 DEF With
<1> QED
  BY <1>2, <1>3, <1>4 DEF With

\* The states of the table, and which of them give a token late.
LEMMA States ==
  /\ Late("GROUND") = None
  /\ \A q \in AfterValue : Late(q) = None
  /\ Late("NEGATIVE") = "VALUE"
  /\ \A q \in WordStates : Late(q) = "VALUE"
  /\ \A q \in StringStates : Late(q) = "STRVALUE"
  /\ \A q \in WordStates : q \notin StringStates \cup NumberStates \cup {"GROUND"}
  /\ \A q \in StringStates : q \notin WordStates \cup NumberStates \cup {"GROUND"}
  /\ \A q \in NumberStates : q \notin WordStates \cup StringStates \cup {"GROUND"}
  /\ {"VALUE", "STRVALUE"} \subseteq Tokens
BY DEF Late, AfterValue, NumberStates, WordStates, StringStates, InNumber, Tokens

\* A value never follows a value.
LEMMA NoValueAfter ==
  ASSUME NEW x \in Seq(Tokens), x # <<>>, x[Len(x)] = "VALUE",
         NEW y \in Seq(Tokens), y # <<>>, y[1] \in Begins
  PROVE  ~MayBeJson(x \o y)
<1>1. Len(x) \in Nat \ {0} /\ Len(y) \in Nat \ {0}
  OBVIOUS
<1>2. /\ Len(x \o y) = Len(x) + Len(y)
      /\ (x \o y)[Len(x)] = x[Len(x)] /\ (x \o y)[Len(x) + 1] = y[1]
  <2>1. Len(x) \in 1 .. Len(x) + Len(y) /\ Len(x) + 1 \in 1 .. Len(x) + Len(y)
          /\ ~(Len(x) + 1 <= Len(x)) /\ (Len(x) + 1) - Len(x) = 1
    BY <1>1
  <2> QED
    BY <1>1, <2>1, ConcatProperties
<1>3. Len(x) \in 1 .. Len(x \o y) - 1
  BY <1>1, <1>2
<1>4. (x \o y)[Len(x)] \in Ends
  BY <1>2 DEF Ends
<1> QED
  BY <1>2, <1>3, <1>4 DEF MayBeJson

\* From the ground, what is left is what the grammar reads.
LEMMA LeftOnGround ==
  ASSUME NEW s \in Seq(Chars), NEW i \in 1 .. Len(s) + 1
  PROVE  Left("GROUND", s, i) = Readings(s)[i]
<1>1. i \in i .. Len(s) + 1
  OBVIOUS
<1>2. \A j : Completes("GROUND", s, i, j) <=> j = i
  BY DEF Completes, NumberStates, WordStates, StringStates, InNumber
<1>3. Readings(s)[i] \in SUBSET Seq(Tokens)
  BY ReadingsUnfold
<1>4. \A x \in Readings(s)[i] : With(Late("GROUND"), x) = x
  BY <1>3, WithToken, States
<1> QED
  BY <1>1, <1>2, <1>3, <1>4 DEF Left

\* One lexeme from its first character on.
LEMMA LexemeBegins ==
  ASSUME NEW s \in Seq(Chars), NEW i \in 1 .. Len(s), NEW j \in i + 1 .. Len(s) + 1, NEW u
  PROVE  IsLaxLexeme(s, i, j, u) <=>
           \/ u = None /\ j = i + 1 /\ s[i] \in Space
           \/ u \in DOMAIN Structure /\ j = i + 1 /\ s[i] = Structure[u]
           \/ /\ u = "VALUE"
              /\ \/ s[i] = "-" /\ NumberLeft("NEGATIVE", s, i + 1, j)
                 \/ s[i] = "0" /\ NumberLeft("ZERO", s, i + 1, j)
                 \/ s[i] = "1" /\ NumberLeft("NUMBER", s, i + 1, j)
                 \/ s[i] = "t" /\ WordLeft("TRUE1", s, i + 1, j)
                 \/ s[i] = "f" /\ WordLeft("FALSE1", s, i + 1, j)
                 \/ s[i] = "n" /\ WordLeft("NULL1", s, i + 1, j)
           \/ u = "STRVALUE" /\ s[i] = Quote /\ StringLeft("STRING", s, i + 1, j)
<1> DEFINE num == \/ IsNumber(s, i, j)
                  \/ s[i] = "-" /\ \E k \in i + 1 .. j : IsDigits(s, i + 1, k) /\ IsTail(s, k, j)
           numC == \/ s[i] = "-" /\ NumberLeft("NEGATIVE", s, i + 1, j)
                   \/ s[i] = "0" /\ NumberLeft("ZERO", s, i + 1, j)
                   \/ s[i] = "1" /\ NumberLeft("NUMBER", s, i + 1, j)
           word == IsWord(s, i, j)
           wordC == \/ s[i] = "t" /\ WordLeft("TRUE1", s, i + 1, j)
                    \/ s[i] = "f" /\ WordLeft("FALSE1", s, i + 1, j)
                    \/ s[i] = "n" /\ WordLeft("NULL1", s, i + 1, j)
           strict == IsString(s, i, j, Plain)
           lax == IsString(s, i, j, LaxPlain)
           laxC == s[i] = Quote /\ StringLeft("STRING", s, i + 1, j)
<1>1. i \in Nat /\ j \in Nat /\ i < j /\ i + 1 \in 1 .. Len(s) + 1
  OBVIOUS
<1>2. num <=> numC
  BY <1>1, NumberBegins
<1>3. word <=> wordC
  BY <1>1, WordBegins
<1>4. (strict => lax) /\ (lax <=> laxC)
  BY <1>1, EndsLax DEF IsString, StringLeft
<1>5. /\ numC => s[i] # "tab"
      /\ wordC => s[i] # "tab"
      /\ laxC => s[i] # "tab"
      /\ s[i] \in Space => s[i] # "tab"
      /\ \A t \in DOMAIN Structure : Structure[t] # "tab"
  BY Structures DEF Space, Quote
<1>6. IsLaxLexeme(s, i, j, u) <=>
        \/ u = None /\ j = i + 1 /\ s[i] \in Space \cup {"tab"} /\ s[i] # "tab"
        \/ u \in DOMAIN Structure /\ j = i + 1 /\ s[i] = Structure[u] /\ s[i] # "tab"
        \/ u = "VALUE" /\ word /\ s[i] # "tab"
        \/ u = "VALUE" /\ \/ IsNumber(s, i, j) /\ s[i] # "tab"
                          \/ /\ s[i] = "-"
                             /\ \E k \in i + 1 .. j : IsDigits(s, i + 1, k) /\ IsTail(s, k, j)
        \/ u = "STRVALUE" /\ (lax \/ (strict /\ s[i] # "tab"))
  BY DEF IsLaxLexeme, IsLexeme, LaxPlain
<1>7. \/ IsNumber(s, i, j) /\ s[i] # "tab"
      \/ s[i] = "-" /\ \E k \in i + 1 .. j : IsDigits(s, i + 1, k) /\ IsTail(s, k, j)
      <=> numC
  <2> DEFINE minus == s[i] = "-" /\ \E k \in i + 1 .. j : IsDigits(s, i + 1, k) /\ IsTail(s, k, j)
  <2>1. (IsNumber(s, i, j) \/ minus) <=> numC
    BY <1>2
  <2>2. numC => s[i] # "tab"
    BY <1>5
  <2> HIDE DEF minus, numC
  <2>3. ((IsNumber(s, i, j) /\ s[i] # "tab") \/ minus) <=> numC
    BY <2>1, <2>2
  <2> QED
    BY <2>3 DEF minus
<1> HIDE DEF numC, word, wordC, strict, lax, laxC
<1>8. IsLaxLexeme(s, i, j, u) <=>
        \/ u = None /\ j = i + 1 /\ s[i] \in Space
        \/ u \in DOMAIN Structure /\ j = i + 1 /\ s[i] = Structure[u]
        \/ u = "VALUE" /\ (numC \/ wordC)
        \/ u = "STRVALUE" /\ laxC
  BY <1>3, <1>4, <1>5, <1>6, <1>7
<1> QED
  BY <1>8 DEF numC, wordC, laxC

\* The token given at a step or, if none, late.
Token(t, p) == IF t = None THEN Late(p) ELSE t

\* The state that a character leads to from the ground has begun the lexeme.
LEMMA GroundGoes ==
  ASSUME NEW c, NEW p, NEW t
  PROVE  Goes("GROUND", c, p, t) <=>
           \/ p = "GROUND" /\ t = None /\ c \in Space
           \/ p = "GROUND" /\ t \in DOMAIN Structure /\ c = Structure[t]
           \/ p = "NEGATIVE" /\ t = None /\ c = "-"
           \/ p = "ZERO" /\ t = "VALUE" /\ c = "0"
           \/ p = "NUMBER" /\ t = "VALUE" /\ c = "1"
           \/ p = "TRUE1" /\ t = None /\ c = "t"
           \/ p = "FALSE1" /\ t = None /\ c = "f"
           \/ p = "NULL1" /\ t = None /\ c = "n"
           \/ p = "STRING" /\ t = None /\ c = Quote
BY DEF Goes, OwnGoes, StructureGoes, StringGoes, WordGoes, NumberGoes, InNumber

LEMMA CompletesIn ==
  ASSUME NEW s, NEW i, NEW j
  PROVE  /\ Completes("GROUND", s, i, j) <=> j = i
         /\ \A q \in NumberStates : Completes(q, s, i, j) <=> NumberLeft(q, s, i, j)
         /\ \A q \in WordStates : Completes(q, s, i, j) <=> WordLeft(q, s, i, j)
         /\ \A q \in StringStates : Completes(q, s, i, j) <=> StringLeft(q, s, i, j)
         /\ ~Completes("ERROR", s, i, j)
<1>1. "GROUND" \notin NumberStates \cup WordStates \cup StringStates
  BY DEF NumberStates, WordStates, StringStates, InNumber
<1>2. "ERROR" \notin NumberStates \cup WordStates \cup StringStates
  BY DEF NumberStates, WordStates, StringStates, InNumber
<1> QED
  BY <1>1, <1>2, States DEF Completes

LEMMA LexemeStep ==
  ASSUME NEW s \in Seq(Chars), NEW i \in 1 .. Len(s), NEW j \in i + 1 .. Len(s) + 1, NEW u
  PROVE  /\ IsLaxLexeme(s, i, j, u) =>
              \E p, t : Goes("GROUND", s[i], p, t) /\ Completes(p, s, i + 1, j) /\ Token(t, p) = u
         /\ \A p, t : Goes("GROUND", s[i], p, t) /\ Completes(p, s, i + 1, j)
                        => IsLaxLexeme(s, i, j, Token(t, p))
<1> DEFINE Via(p, t) == Goes("GROUND", s[i], p, t) /\ Completes(p, s, i + 1, j) /\ Token(t, p) = u
<1>1. /\ {"NEGATIVE", "ZERO", "NUMBER"} \subseteq NumberStates
      /\ {"TRUE1", "FALSE1", "NULL1"} \subseteq WordStates
      /\ "STRING" \in StringStates
      /\ "ZERO" \in AfterValue /\ "NUMBER" \in AfterValue
  BY DEF NumberStates, WordStates, StringStates, InNumber, AfterValue
<1>2. /\ Completes("GROUND", s, i + 1, j) <=> j = i + 1
      /\ \A q \in {"NEGATIVE", "ZERO", "NUMBER"} : 
           Completes(q, s, i + 1, j) <=> NumberLeft(q, s, i + 1, j)
      /\ \A q \in {"TRUE1", "FALSE1", "NULL1"} :
           Completes(q, s, i + 1, j) <=> WordLeft(q, s, i + 1, j)
      /\ Completes("STRING", s, i + 1, j) <=> StringLeft("STRING", s, i + 1, j)
  BY <1>1, CompletesIn
<1>3. /\ Token(None, "GROUND") = None
      /\ \A t \in DOMAIN Structure : Token(t, "GROUND") = t
      /\ Token(None, "NEGATIVE") = "VALUE"
      /\ Token("VALUE", "ZERO") = "VALUE" /\ Token("VALUE", "NUMBER") = "VALUE"
      /\ Token(None, "TRUE1") = "VALUE" /\ Token(None, "FALSE1") = "VALUE"
      /\ Token(None, "NULL1") = "VALUE"
      /\ Token(None, "STRING") = "STRVALUE"
  BY <1>1, States, Structures DEF Token, None
<1>4. ASSUME IsLaxLexeme(s, i, j, u) PROVE \E p, t : Via(p, t)
  <2>1. \/ Via("GROUND", None) \/ Via("GROUND", u) \/ Via("NEGATIVE", None)
        \/ Via("ZERO", "VALUE") \/ Via("NUMBER", "VALUE") \/ Via("TRUE1", None)
        \/ Via("FALSE1", None) \/ Via("NULL1", None) \/ Via("STRING", None)
    BY <1>2, <1>3, <1>4, LexemeBegins, GroundGoes
  <2> HIDE DEF Via
  <2> QED
    BY <2>1
<1>5. ASSUME NEW p, NEW t, Goes("GROUND", s[i], p, t), Completes(p, s, i + 1, j)
      PROVE  IsLaxLexeme(s, i, j, Token(t, p))
  BY <1>2, <1>3, <1>5, LexemeBegins, GroundGoes
<1> QED
  BY <1>4, <1>5

\* The states inside a lexeme, and the steps that stay with it or end it.
Inside == NumberStates \cup WordStates \cup StringStates
InGoes(q, c, p, t) == Goes(q, c, p, t) /\ ~StructureGoes(q, c, p, t) /\ p # "ERROR"

LEMMA NumberInGoes ==
  ASSUME NEW q \in NumberStates, NEW c, NEW p, NEW t
  PROVE  InGoes(q, c, p, t) <=>
           \/ q = "NEGATIVE" /\ c \in Digits /\ p = "NUMBER" /\ t = "VALUE"
           \/ q = "NUMBER" /\ c \in Digits /\ p = "NUMBER" /\ t = None
           \/ q \in {"NUMBER", "ZERO"} /\ c = "." /\ p = "DECIMALBAD" /\ t = None
           \/ q \in {"DECIMALBAD", "DECIMALOK"} /\ c \in Digits /\ p = "DECIMALOK" /\ t = None
           \/ /\ q \in {"NUMBER", "ZERO", "DECIMALOK"} /\ c \in {"e", "E"}
              /\ p = "EXPONENT1" /\ t = None
           \/ q = "EXPONENT1" /\ c \in {"+", "-"} /\ p = "EXPONENT2" /\ t = None
           \/ /\ q \in {"EXPONENT1", "EXPONENT2", "EXPONENT3"} /\ c \in Digits
              /\ p = "EXPONENT3" /\ t = None
BY DEF InGoes, Goes, OwnGoes, StructureGoes, StringGoes, WordGoes, NumberGoes, InNumber,
   NumberStates

LEMMA WordInGoes ==
  ASSUME NEW q \in WordStates, NEW c, NEW p, NEW t
  PROVE  InGoes(q, c, p, t) <=> WordGoes(q, c, p, t)
BY DEF InGoes, Goes, OwnGoes, StructureGoes, StringGoes, WordGoes, NumberGoes, InNumber,
   WordStates

LEMMA StringInGoes ==
  ASSUME NEW q \in StringStates, NEW c, NEW p, NEW t
  PROVE  InGoes(q, c, p, t) <=>
           \/ q = "STRING" /\ c = Quote /\ p = "GROUND" /\ t = "STRVALUE"
           \/ q = "STRING" /\ c = Backslash /\ p = "STRINGSLASH" /\ t = None
           \/ q = "STRING" /\ c \in LaxPlain /\ p = "STRING" /\ t = None
           \/ q = "STRINGSLASH" /\ c \in Escapes /\ p = "STRING" /\ t = None
           \/ q = "STRINGSLASH" /\ c = "u" /\ p = "UNICODE1" /\ t = None
           \/ q = "UNICODE1" /\ c \in Hex /\ p = "UNICODE2" /\ t = None
           \/ q = "UNICODE2" /\ c \in Hex /\ p = "UNICODE3" /\ t = None
           \/ q = "UNICODE3" /\ c \in Hex /\ p = "UNICODE4" /\ t = None
           \/ q = "UNICODE4" /\ c \in Hex /\ p = "STRING" /\ t = None
BY DEF InGoes, Goes, OwnGoes, StructureGoes, StringGoes, WordGoes, NumberGoes, InNumber,
   StringStates

\* Such a step gives the token that was still to come, at once or late.
LEMMA TokenKept ==
  ASSUME NEW q \in Inside, NEW c, NEW p, NEW t, InGoes(q, c, p, t)
  PROVE  Token(t, p) = Late(q) /\ (t = None \/ Late(p) = None)
<1>1. /\ {"NUMBER", "DECIMALBAD", "DECIMALOK", "EXPONENT1", "EXPONENT2", "EXPONENT3", "ZERO"}
           = AfterValue
      /\ NumberStates = AfterValue \cup {"NEGATIVE"}
  BY DEF AfterValue, NumberStates, InNumber
<1>2. CASE q \in NumberStates
  BY <1>1, <1>2, NumberInGoes, States DEF Token, None
<1>3. CASE q \in WordStates
  <2>1. WordGoes(q, c, p, t)
    BY <1>3, WordInGoes
  <2>2. Late(q) = "VALUE"
    BY <1>3, States
  <2>3. (t = None /\ p \in WordStates) \/ (t = "VALUE" /\ p = "GROUND")
    BY <1>3, <2>1 DEF WordGoes, WordStates
  <2> QED
    BY <2>2, <2>3, States DEF Token, None
<1>4. CASE q \in StringStates
  <2>1. (t = None /\ p \in StringStates) \/ (t = "STRVALUE" /\ p = "GROUND")
    BY <1>4, StringInGoes DEF StringStates
  <2> QED
    BY <1>4, <2>1, States DEF Token, None
<1> QED
  BY <1>2, <1>3, <1>4 DEF Inside

\* A lexeme is read on by its first character, in each state inside it.
LEMMA InsideStep ==
  ASSUME NEW s \in Seq(Chars), NEW i \in 1 .. Len(s), NEW j \in i + 1 .. Len(s) + 1,
         NEW q \in Inside
  PROVE  /\ Completes(q, s, i, j) =>
              \E p, t : InGoes(q, s[i], p, t) /\ Completes(p, s, i + 1, j)
         /\ \A p, t : InGoes(q, s[i], p, t) /\ Completes(p, s, i + 1, j)
                        => Completes(q, s, i, j)
<1> DEFINE Via(p, t) == InGoes(q, s[i], p, t) /\ Completes(p, s, i + 1, j)
<1>1. i \in Nat /\ j \in Nat /\ i < j
  OBVIOUS
<1>2. CASE q \in NumberStates
  <2>1. NumberStates = {"NEGATIVE", "NUMBER", "ZERO", "DECIMALBAD", "DECIMALOK", "EXPONENT1",
                        "EXPONENT2", "EXPONENT3"}
    BY DEF NumberStates, InNumber
  <2>2. Completes(q, s, i, j) <=> NumberLeft(q, s, i, j)
    BY <1>2, CompletesIn
  <2>3. \A p \in NumberStates : Completes(p, s, i + 1, j) <=> NumberLeft(p, s, i + 1, j)
    BY CompletesIn
  <2>4. ASSUME Completes(q, s, i, j) PROVE \E p, t : Via(p, t)
    <3>1. \/ Via("NUMBER", "VALUE") \/ Via("NUMBER", None) \/ Via("DECIMALBAD", None)
          \/ Via("DECIMALOK", None) \/ Via("EXPONENT1", None) \/ Via("EXPONENT2", None)
          \/ Via("EXPONENT3", None)
      BY <1>1, <1>2, <2>1, <2>2, <2>3, <2>4, NumberStep, NumberInGoes
    <3> HIDE DEF Via
    <3> QED
      BY <3>1
  <2>5. ASSUME NEW p, NEW t, InGoes(q, s[i], p, t), Completes(p, s, i + 1, j)
        PROVE  Completes(q, s, i, j)
    BY <1>1, <1>2, <2>1, <2>2, <2>3, <2>5, NumberStep, NumberInGoes
  <2> QED
    BY <2>4, <2>5
<1>3. CASE q \in WordStates
  <2>2. Completes(q, s, i, j) <=> WordLeft(q, s, i, j)
    BY <1>3, CompletesIn
  <2>3. /\ \A p \in WordStates : Completes(p, s, i + 1, j) <=> WordLeft(p, s, i + 1, j)
        /\ Completes("GROUND", s, i + 1, j) <=> j = i + 1
    BY CompletesIn
  <2>4. ASSUME Completes(q, s, i, j) PROVE \E p, t : Via(p, t)
    <3>1. \/ Via("TRUE2", None) \/ Via("TRUE3", None) \/ Via("FALSE2", None)
          \/ Via("FALSE3", None) \/ Via("FALSE4", None) \/ Via("NULL2", None)
          \/ Via("NULL3", None) \/ Via("GROUND", "VALUE")
      BY <1>1, <1>3, <2>2, <2>3, <2>4, WordStep, WordInGoes DEF WordStates, WordGoes
    <3> HIDE DEF Via
    <3> QED
      BY <3>1
  <2>5. ASSUME NEW p, NEW t, InGoes(q, s[i], p, t), Completes(p, s, i + 1, j)
        PROVE  Completes(q, s, i, j)
    BY <1>1, <1>3, <2>2, <2>3, <2>5, WordStep, WordInGoes DEF WordStates, WordGoes
  <2> QED
    BY <2>4, <2>5
<1>4. CASE q \in StringStates
  <2>2. Completes(q, s, i, j) <=> StringLeft(q, s, i, j)
    BY <1>4, CompletesIn
  <2>3. /\ \A p \in StringStates : Completes(p, s, i + 1, j) <=> StringLeft(p, s, i + 1, j)
        /\ Completes("GROUND", s, i + 1, j) <=> j = i + 1
    BY CompletesIn
  <2>4. ASSUME Completes(q, s, i, j) PROVE \E p, t : Via(p, t)
    <3>1. \/ Via("GROUND", "STRVALUE") \/ Via("STRINGSLASH", None) \/ Via("STRING", None)
          \/ Via("UNICODE1", None) \/ Via("UNICODE2", None) \/ Via("UNICODE3", None)
          \/ Via("UNICODE4", None)
      BY <1>1, <1>4, <2>2, <2>3, <2>4, StringStep, StringInGoes DEF StringStates
    <3> HIDE DEF Via
    <3> QED
      BY <3>1
  <2>5. ASSUME NEW p, NEW t, InGoes(q, s[i], p, t), Completes(p, s, i + 1, j)
        PROVE  Completes(q, s, i, j)
    BY <1>1, <1>4, <2>2, <2>3, <2>5, StringStep, StringInGoes DEF StringStates
  <2> QED
    BY <2>4, <2>5
<1> QED
  BY <1>2, <1>3, <1>4 DEF Inside

\* Where a lexeme may be over before a character is read: at the end of a number.
LEMMA InsideEnds ==
  ASSUME NEW s \in Seq(Chars), NEW i \in 1 .. Len(s) + 1, NEW q \in Inside
  PROVE  Completes(q, s, i, i) <=> q \in InNumber
<1>1. i \in Nat /\ i # i + 1 /\ i # i + 2 /\ i # i + 3 /\ i # i + 4
  OBVIOUS
<1>2. CASE q \in NumberStates
  BY <1>1, <1>2, CompletesIn, NumberMayEnd
<1>3. q \notin NumberStates => q \notin InNumber
  BY DEF NumberStates
<1>4. CASE q \in WordStates
  <2>1. ~WordLeft(q, s, i, i)
    BY <1>1 DEF WordLeft
  <2> QED
    BY <1>3, <1>4, <2>1, CompletesIn, States
<1>5. CASE q \in StringStates
  <2>1. CASE i = Len(s) + 1
    <3>1. ~StringLeft(q, s, i, i)
      BY <2>1, StringNotOver
    <3> QED
      BY <1>3, <1>5, <3>1, CompletesIn, States
  <2>2. CASE i # Len(s) + 1
    <3>1. StringLeft(q, s, i, i) => FALSE
      <4>1. \A k \in i .. Len(s) + 1 : i \notin StringEnds(s, LaxPlain)[k]
        <5> SUFFICES ASSUME NEW k \in i .. Len(s) + 1, i \in StringEnds(s, LaxPlain)[k]
                     PROVE  FALSE
          OBVIOUS
        <5>1. i \in k + 1 .. Len(s) + 1
          BY EndsAfter
        <5> QED
          BY <5>1
      <4>2. i \in i .. Len(s) + 1 /\ i + 1 \in i .. Len(s) + 1
        BY <2>2
      <4>3. \A d \in {1, 2, 3, 4} : ~HexLeft(s, i, i, d)
        <5> SUFFICES ASSUME NEW d \in {1, 2, 3, 4}, i + d <= Len(s) + 1
                     PROVE  i + d \in i .. Len(s) + 1
          BY <4>1 DEF HexLeft
        <5> QED
          OBVIOUS
      <4>4. ~HexLeft(s, i + 1, i, 4)
        <5>1. i + 1 + 4 <= Len(s) + 1 => i + 1 + 4 \in i .. Len(s) + 1
          OBVIOUS
        <5> QED
          BY <4>1, <5>1 DEF HexLeft
      <4> QED
        BY <4>1, <4>2, <4>3, <4>4 DEF StringLeft
    <3> QED
      BY <1>3, <1>5, <3>1, CompletesIn, States
  <2> QED
    BY <2>1, <2>2
<1> QED
  BY <1>2, <1>4, <1>5 DEF Inside

\* What is left, a completion and the reading after it.
LEMMA LeftIs ==
  ASSUME NEW s \in Seq(Chars), NEW i \in 1 .. Len(s) + 1, NEW q, NEW y
  PROVE  /\ y \in Left(q, s, i) =>
              \E j \in i .. Len(s) + 1 :
                Completes(q, s, i, j) /\ \E x \in Readings(s)[j] : y = With(Late(q), x)
         /\ \A j \in i .. Len(s) + 1 : \A x :
              Completes(q, s, i, j) /\ x \in Readings(s)[j] => With(Late(q), x) \in Left(q, s, i)
         /\ y \in Left(q, s, i) => y \in Seq(Tokens)
<1>1. Late(q) \in Tokens \cup {None}
  BY States DEF Late
<1>2. ASSUME NEW j \in i .. Len(s) + 1, NEW x \in Readings(s)[j]
      PROVE  With(Late(q), x) \in Seq(Tokens)
  BY <1>1, ReadingsUnfold, WithToken
<1> QED
  BY <1>2 DEF Left

\* A token given now and one given late come to one.
LEMMA WithLate ==
  ASSUME NEW x \in Seq(Tokens), NEW t \in Tokens \cup {None}, NEW p, t = None \/ Late(p) = None
  PROVE  With(t, With(Late(p), x)) = With(Token(t, p), x)
<1>1. Late(p) \in Tokens \cup {None}
  BY States DEF Late
<1>2. With(Late(p), x) \in Seq(Tokens)
  BY <1>1, WithToken
<1>3. CASE t = None
  BY <1>2, <1>3, WithToken DEF Token
<1>4. CASE t # None
  <2>1. With(Late(p), x) = x
    BY <1>4, WithToken
  <2> QED
    BY <1>4, <2>1 DEF Token
<1> QED
  BY <1>3, <1>4

\* What is left on the ground, by the first character.
LEMMA GroundStep ==
  ASSUME NEW s \in Seq(Chars), NEW i \in 1 .. Len(s), NEW y
  PROVE  /\ y \in Readings(s)[i] =>
              \E p, t : Goes("GROUND", s[i], p, t) /\ \E z \in Left(p, s, i + 1) : y = With(t, z)
         /\ \A p, t : Goes("GROUND", s[i], p, t) =>
              \A z \in Left(p, s, i + 1) : With(t, z) \in Readings(s)[i]
<1>1. i \in 1 .. Len(s) + 1 /\ i + 1 \in 1 .. Len(s) + 1 /\ ~(i > Len(s))
        /\ (i + 1) .. Len(s) + 1 \subseteq 1 .. Len(s) + 1
  OBVIOUS
<1>2. Readings(s)[i] = UNION { {TokenOf(l[2]) \o rest : rest \in Readings(s)[l[1]]} :
                 l \in {l \in (i + 1 .. Len(s) + 1) \X (Tokens \cup {None}) :
                               IsLaxLexeme(s, i, l[1], l[2])} }
  BY <1>1, ReadingsUnfold DEF ReadFrom
<1>3. \A j \in i + 1 .. Len(s) + 1 : Readings(s)[j] \in SUBSET Seq(Tokens)
  BY <1>1, ReadingsUnfold
<1>4. ASSUME NEW p, NEW t, Goes("GROUND", s[i], p, t)
      PROVE  (t = None \/ Late(p) = None) /\ t \in Tokens \cup {None}
               /\ Token(t, p) \in Tokens \cup {None}
  <2>1. t \in Tokens \cup {None}
    BY <1>4, GoesTypes
  <2>2. Late(p) \in Tokens \cup {None}
    BY States DEF Late
  <2>3. t # None => p \in {"GROUND", "ZERO", "NUMBER"}
    BY <1>4, GroundGoes
  <2>4. {"ZERO", "NUMBER"} \subseteq AfterValue
    BY DEF AfterValue, NumberStates, InNumber
  <2> QED
    BY <2>1, <2>2, <2>3, <2>4, States DEF Token
<1>5. ASSUME y \in Readings(s)[i]
      PROVE  \E p, t : Goes("GROUND", s[i], p, t) /\ \E z \in Left(p, s, i + 1) : y = With(t, z)
  <2>0. PICK j \in i + 1 .. Len(s) + 1, u \in Tokens \cup {None} :
          IsLaxLexeme(s, i, j, u) /\ \E rest \in Readings(s)[j] : y = TokenOf(u) \o rest
    <3>1. PICK l \in (i + 1 .. Len(s) + 1) \X (Tokens \cup {None}) :
            /\ IsLaxLexeme(s, i, l[1], l[2])
            /\ \E rest \in Readings(s)[l[1]] : y = TokenOf(l[2]) \o rest
      BY <1>2, <1>5
    <3> QED
      BY <3>1
  <2>1. PICK rest \in Readings(s)[j] : IsLaxLexeme(s, i, j, u) /\ y = TokenOf(u) \o rest
    BY <2>0
  <2>2. PICK p, t : Goes("GROUND", s[i], p, t) /\ Completes(p, s, i + 1, j) /\ Token(t, p) = u
    BY <2>1, LexemeStep
  <2>3. With(Late(p), rest) \in Left(p, s, i + 1)
    BY <1>1, <2>2, LeftIs
  <2>4. rest \in Seq(Tokens)
    BY <1>3
  <2>5. With(t, With(Late(p), rest)) = With(u, rest)
    BY <1>4, <2>2, <2>4, WithLate
  <2>6. y = With(t, With(Late(p), rest))
    BY <2>1, <2>5 DEF With
  <2> QED
    BY <2>2, <2>3, <2>6
<1>6. ASSUME NEW p, NEW t, Goes("GROUND", s[i], p, t), NEW z \in Left(p, s, i + 1)
      PROVE  With(t, z) \in Readings(s)[i]
  <2>0. PICK j \in i + 1 .. Len(s) + 1 :
          Completes(p, s, i + 1, j) /\ \E x \in Readings(s)[j] : z = With(Late(p), x)
    BY <1>1, <1>6, LeftIs
  <2>1. PICK x \in Readings(s)[j] : Completes(p, s, i + 1, j) /\ z = With(Late(p), x)
    BY <2>0
  <2>2. IsLaxLexeme(s, i, j, Token(t, p))
    BY <1>6, <2>1, LexemeStep
  <2>3. x \in Seq(Tokens)
    BY <1>3
  <2>4. With(t, z) = With(Token(t, p), x)
    BY <1>4, <1>6, <2>1, <2>3, WithLate
  <2>5. Token(t, p) \in Tokens \cup {None}
    BY <1>4, <1>6
  <2>6. PICK w : w = <<j, Token(t, p)>>
    OBVIOUS
  <2>7. w[1] = j /\ w[2] = Token(t, p) /\ w \in (i + 1 .. Len(s) + 1) \X (Tokens \cup {None})
    BY <2>5, <2>6
  <2>8. TokenOf(Token(t, p)) \o x \in Readings(s)[i]
    <3> DEFINE L == {l \in (i + 1 .. Len(s) + 1) \X (Tokens \cup {None}) :
                       IsLaxLexeme(s, i, l[1], l[2])}
               From(l) == {TokenOf(l[2]) \o rest : rest \in Readings(s)[l[1]]}
    <3>1. TokenOf(Token(t, p)) \o x \in From(w)
      BY <2>7
    <3>2. w \in L
      BY <2>2, <2>7
    <3>3. Readings(s)[i] = UNION {From(l) : l \in L}
      BY <1>2
    <3> HIDE DEF L, From
    <3> QED
      BY <3>1, <3>2, <3>3
  <2> QED
    BY <2>4, <2>8 DEF With
<1> QED
  BY <1>5, <1>6

\* What is left inside a lexeme, by the first character.
LEMMA InsideLeft ==
  ASSUME NEW s \in Seq(Chars), NEW i \in 1 .. Len(s), NEW q \in Inside, NEW y
  PROVE  /\ y \in Left(q, s, i) =>
              \/ q \in InNumber /\ y \in Readings(s)[i]
              \/ \E p, t : InGoes(q, s[i], p, t) /\ \E z \in Left(p, s, i + 1) : y = With(t, z)
         /\ q \in InNumber /\ y \in Readings(s)[i] => y \in Left(q, s, i)
         /\ \A p, t : InGoes(q, s[i], p, t) =>
              \A z \in Left(p, s, i + 1) : With(t, z) \in Left(q, s, i)
<1>1. i \in 1 .. Len(s) + 1 /\ i + 1 \in 1 .. Len(s) + 1 /\ i \in i .. Len(s) + 1
        /\ i .. Len(s) + 1 = {i} \cup (i + 1 .. Len(s) + 1)
        /\ i .. Len(s) + 1 \subseteq 1 .. Len(s) + 1
  OBVIOUS
<1>2. \A j \in i .. Len(s) + 1 : Readings(s)[j] \in SUBSET Seq(Tokens)
  BY <1>1, ReadingsUnfold
<1>3. q \in InNumber => Late(q) = None
  BY States DEF AfterValue, NumberStates, InNumber
<1>4. ASSUME NEW p, NEW t, InGoes(q, s[i], p, t)
      PROVE  (t = None \/ Late(p) = None) /\ t \in Tokens \cup {None} /\ Token(t, p) = Late(q)
  <2>1. t \in Tokens \cup {None}
    BY <1>4, GoesTypes DEF InGoes
  <2> QED
    BY <1>4, <2>1, TokenKept
<1>5. ASSUME y \in Left(q, s, i)
      PROVE  \/ q \in InNumber /\ y \in Readings(s)[i]
             \/ \E p, t : InGoes(q, s[i], p, t) /\ \E z \in Left(p, s, i + 1) : y = With(t, z)
  <2>1. PICK j \in i .. Len(s) + 1 :
          Completes(q, s, i, j) /\ \E x \in Readings(s)[j] : y = With(Late(q), x)
    BY <1>1, <1>5, LeftIs
  <2>2. PICK x \in Readings(s)[j] : y = With(Late(q), x)
    BY <2>1
  <2>3. x \in Seq(Tokens)
    BY <1>2
  <2>4. CASE j = i
    <3>1. q \in InNumber
      BY <1>1, <2>1, <2>4, InsideEnds
    <3> QED
      BY <1>3, <2>2, <2>3, <2>4, <3>1, WithToken
  <2>5. CASE j # i
    <3>1. j \in i + 1 .. Len(s) + 1
      BY <2>5
    <3>2. PICK p, t : InGoes(q, s[i], p, t) /\ Completes(p, s, i + 1, j)
      BY <2>1, <3>1, InsideStep
    <3>3. With(Late(p), x) \in Left(p, s, i + 1)
      BY <1>1, <3>1, <3>2, LeftIs
    <3>4. y = With(t, With(Late(p), x))
      BY <1>4, <2>2, <2>3, <3>2, WithLate
    <3> QED
      BY <3>2, <3>3, <3>4
  <2> QED
    BY <2>4, <2>5
<1>6. ASSUME q \in InNumber, y \in Readings(s)[i] PROVE y \in Left(q, s, i)
  <2>1. Completes(q, s, i, i)
    BY <1>1, <1>6, InsideEnds
  <2>2. With(Late(q), y) \in Left(q, s, i)
    BY <1>1, <1>6, <2>1, LeftIs
  <2>3. y \in Seq(Tokens)
    BY <1>1, <1>2, <1>6
  <2> QED
    BY <1>3, <1>6, <2>2, <2>3, WithToken
<1>7. ASSUME NEW p, NEW t, InGoes(q, s[i], p, t), NEW z \in Left(p, s, i + 1)
      PROVE  With(t, z) \in Left(q, s, i)
  <2>0. PICK j \in i + 1 .. Len(s) + 1 :
          Completes(p, s, i + 1, j) /\ \E x \in Readings(s)[j] : z = With(Late(p), x)
    BY <1>1, <1>7, LeftIs
  <2>1. PICK x \in Readings(s)[j] : Completes(p, s, i + 1, j) /\ z = With(Late(p), x)
    BY <2>0
  <2>2. Completes(q, s, i, j)
    BY <1>7, <2>1, InsideStep
  <2>3. j \in i .. Len(s) + 1 /\ x \in Seq(Tokens)
    BY <1>1, <1>2
  <2>4. With(t, z) = With(Late(q), x)
    BY <1>4, <1>7, <2>1, <2>3, WithLate
  <2> QED
    BY <1>1, <2>2, <2>3, <2>4, LeftIs
<1> QED
  BY <1>5, <1>6, <1>7

\* What is left begins with the token that is still to come.
LEMMA LateLeft ==
  ASSUME NEW s \in Seq(Chars), NEW i \in 1 .. Len(s) + 1, NEW p, NEW z \in Left(p, s, i),
         Late(p) # None
  PROVE  z # <<>> /\ z[1] = Late(p)
<1>1. PICK j \in i .. Len(s) + 1 : \E x \in Readings(s)[j] : z = With(Late(p), x)
  BY LeftIs
<1>2. PICK x \in Readings(s)[j] : z = With(Late(p), x)
  BY <1>1
<1>3. x \in Seq(Tokens)
  <2>1. j \in 1 .. Len(s) + 1
    OBVIOUS
  <2> QED
    BY <2>1, ReadingsUnfold
<1>4. Late(p) \in Tokens \cup {None}
  BY States DEF Late
<1> QED
  BY <1>2, <1>3, <1>4, WithToken

\* From within a number, punctuation and white space lead where they do from the ground.
LEMMA GoesFrom ==
  ASSUME NEW q \in InNumber, NEW c, NEW p, NEW t
  PROVE  StructureGoes(q, c, p, t) <=>
           /\ Goes("GROUND", c, p, t) /\ p = "GROUND"
           /\ t \in {None, "COMMA", "COLON", "ARRAYEND", "OBJECTEND"}
<1>1. {"COMMA", "COLON", "ARRAYEND", "OBJECTEND"} \subseteq DOMAIN Structure
        /\ None \notin DOMAIN Structure
  BY Structures DEF None
<1>2. q # "GROUND" /\ None \notin {"COMMA", "COLON", "ARRAYEND", "OBJECTEND"}
  BY DEF InNumber, None
<1> QED
  BY <1>1, <1>2, GroundGoes DEF StructureGoes

\* Reading one character: what is left is what it gives and what is left then,
\* wherever the tokens may come from an array or object.
LEMMA CharacterRead ==
  ASSUME NEW s \in Seq(Chars), NEW i \in 1 .. Len(s), NEW q \in Inside \cup {"GROUND", "ERROR"},
         NEW T \in Seq(Tokens), q \in AfterValue => T # <<>> /\ T[Len(T)] = "VALUE",
         NEW y \in Seq(Tokens), MayBeJson(T \o y)
  PROVE  /\ y \in Left(q, s, i) =>
              \E p, t : Goes(q, s[i], p, t) /\ \E z \in Left(p, s, i + 1) : y = With(t, z)
         /\ \A p, t : Goes(q, s[i], p, t) =>
              \A z \in Left(p, s, i + 1) : y = With(t, z) => y \in Left(q, s, i)
<1> DEFINE Via(p, t) == Goes(q, s[i], p, t) /\ \E z \in Left(p, s, i + 1) : y = With(t, z)
<1>1. i \in 1 .. Len(s) + 1 /\ i + 1 \in 1 .. Len(s) + 1
  OBVIOUS
<1>2. \A k \in 1 .. Len(s) + 1 : \A z : z \notin Left("ERROR", s, k)
  BY CompletesIn, LeftIs
<1>3. CASE q = "GROUND"
  BY <1>1, <1>3, LeftOnGround, GroundStep
<1>4. CASE q = "ERROR"
  <2>1. \A p, t : ~Goes("ERROR", s[i], p, t)
    BY DEF Goes, OwnGoes, StructureGoes, StringGoes, WordGoes, NumberGoes, InNumber
  <2> QED
    BY <1>1, <1>2, <1>4, <2>1
<1>5. ASSUME q \in InNumber, y \in Readings(s)[i] PROVE \E p, t : Via(p, t)
  <2>1. T # <<>> /\ T[Len(T)] = "VALUE"
    BY <1>5 DEF AfterValue, NumberStates, InNumber
  <2>2. ~(y # <<>> /\ y[1] \in Begins)
    BY <2>1, NoValueAfter
  <2>3. PICK p, t : Goes("GROUND", s[i], p, t) /\ \E z \in Left(p, s, i + 1) : y = With(t, z)
    BY <1>5, GroundStep
  <2>4. PICK z \in Left(p, s, i + 1) : y = With(t, z)
    BY <2>3
  <2>5. z \in Seq(Tokens) /\ t \in Tokens \cup {None} /\ Late(p) \in Tokens \cup {None}
    BY <1>1, <2>3, LeftIs, GoesTypes, States DEF Late
  <2>6. t \notin Begins
    <3>1. None \notin Begins
      BY DEF None, Begins
    <3> QED
      BY <2>2, <2>4, <2>5, <3>1, WithToken
  <2>7. Late(p) \in {"VALUE", "STRVALUE"} => t # None
    <3> SUFFICES ASSUME Late(p) \in {"VALUE", "STRVALUE"}, t = None PROVE FALSE
      OBVIOUS
    <3>4. Late(p) # None /\ Late(p) \in Begins
      BY DEF None, Begins
    <3>5. z # <<>> /\ z[1] \in Begins
      BY <1>1, <3>4, LateLeft
    <3>6. y = z
      BY <2>4, <2>5, WithToken
    <3> QED
      BY <2>2, <3>5, <3>6
  <2>8. p = "GROUND" /\ t \in {None, "COMMA", "COLON", "ARRAYEND", "OBJECTEND"}
    <3>1. "NEGATIVE" \notin AfterValue /\ {"TRUE1", "FALSE1", "NULL1"} \subseteq WordStates
            /\ "STRING" \in StringStates
      BY DEF AfterValue, WordStates, StringStates
    <3>2. /\ Late("NEGATIVE") = "VALUE" /\ Late("TRUE1") = "VALUE" /\ Late("FALSE1") = "VALUE"
          /\ Late("NULL1") = "VALUE" /\ Late("STRING") = "STRVALUE"
      BY <3>1, States
    <3>3. {"VALUE", "ARRAYSTART", "OBJECTSTART"} \subseteq Begins
      BY DEF Begins
    <3>4. \/ p = "GROUND" /\ t \in {None} \cup DOMAIN Structure
          \/ t = "VALUE"
          \/ t = None /\ p \in {"NEGATIVE", "TRUE1", "FALSE1", "NULL1", "STRING"}
      BY <2>3, GroundGoes
    <3> QED
      BY <2>6, <2>7, <3>2, <3>3, <3>4, Structures
  <2>9. Via(p, t)
    BY <1>5, <2>3, <2>8, GoesFrom DEF Goes, OwnGoes
  <2> HIDE DEF Via
  <2> QED
    BY <2>9
<1>6. CASE q \in Inside
  <2>1. ASSUME y \in Left(q, s, i) PROVE \E p, t : Via(p, t)
    <3>1. CASE q \in InNumber /\ y \in Readings(s)[i]
      BY <1>5, <3>1
    <3>2. CASE \E p, t : InGoes(q, s[i], p, t) /\ \E z \in Left(p, s, i + 1) : y = With(t, z)
      <4>1. PICK p, t : InGoes(q, s[i], p, t) /\ \E z \in Left(p, s, i + 1) : y = With(t, z)
        BY <3>2
      <4>2. Via(p, t)
        BY <4>1 DEF InGoes
      <4> HIDE DEF Via
      <4> QED
        BY <4>2
    <3> HIDE DEF Via
    <3> QED
      BY <1>6, <2>1, <3>1, <3>2, InsideLeft
  <2>2. ASSUME NEW p, NEW t, Goes(q, s[i], p, t), NEW z \in Left(p, s, i + 1), y = With(t, z)
        PROVE  y \in Left(q, s, i)
    <3>1. CASE StructureGoes(q, s[i], p, t)
      <4>1. q \in InNumber
        <5>1. q # "GROUND"
          BY <1>6, States DEF Inside
        <5> QED
          BY <3>1, <5>1 DEF StructureGoes
      <4>2. Goes("GROUND", s[i], p, t)
        BY <3>1, <4>1, GoesFrom
      <4>3. y \in Readings(s)[i]
        BY <2>2, <4>2, GroundStep
      <4> QED
        BY <1>6, <4>1, <4>3, InsideLeft
    <3>2. CASE ~StructureGoes(q, s[i], p, t)
      <4>1. p # "ERROR"
        BY <1>1, <1>2
      <4>2. InGoes(q, s[i], p, t)
        BY <2>2, <3>2, <4>1 DEF InGoes
      <4> QED
        BY <1>6, <2>2, <4>2, InsideLeft
    <3> QED
      BY <3>1, <3>2
  <2> QED
    BY <2>1, <2>2
<1> QED
  BY <1>3, <1>4, <1>6

\* At the end of the text nothing is left, in a state that may be the last.
LEMMA LeftAtEnd ==
  ASSUME NEW s \in Seq(Chars), NEW q \in Inside \cup {"GROUND", "ERROR"}, NEW y
  PROVE  y \in Left(q, s, Len(s) + 1) <=> q \in InNumber \cup {"GROUND"} /\ y = <<>>
<1> DEFINE n == Len(s) + 1
<1>1. n \in 1 .. n /\ n .. n = {n} /\ n > Len(s) /\ n \in Nat
  OBVIOUS
<1>2. Readings(s)[n] = {<<>>}
  BY <1>1, ReadingsUnfold DEF ReadFrom
<1>3. Completes(q, s, n, n) <=> q \in InNumber \cup {"GROUND"}
  <2>1. CASE q \in Inside
    <3>1. q # "GROUND"
      BY <2>1, States DEF Inside
    <3> QED
      BY <1>1, <2>1, <3>1, InsideEnds
  <2>2. CASE q = "GROUND"
    BY <2>2, CompletesIn
  <2>3. CASE q = "ERROR"
    BY <2>3, CompletesIn DEF InNumber
  <2> QED
    BY <2>1, <2>2, <2>3
<1>4. q \in InNumber \cup {"GROUND"} => With(Late(q), <<>>) = <<>>
  <2>1. InNumber \subseteq AfterValue
    BY DEF AfterValue, NumberStates, InNumber
  <2>2. q \in InNumber \cup {"GROUND"} => Late(q) = None
    BY <2>1, States
  <2>3. <<>> \in Seq(Tokens)
    OBVIOUS
  <2>4. With(None, <<>>) = <<>>
    BY <2>3, WithToken
  <2> QED
    BY <2>2, <2>4
<1> HIDE DEF n
<1>5. ASSUME y \in Left(q, s, n) PROVE q \in InNumber \cup {"GROUND"} /\ y = <<>>
  <2>1. PICK j \in n .. n : Completes(q, s, n, j) /\ \E x \in Readings(s)[j] : y = With(Late(q), x)
    BY <1>1, <1>5, LeftIs DEF n
  <2> QED
    BY <1>1, <1>2, <1>3, <1>4, <2>1
<1>6. ASSUME q \in InNumber \cup {"GROUND"} PROVE <<>> \in Left(q, s, n)
  <2>1. n \in n .. Len(s) + 1 /\ <<>> \in Readings(s)[n] /\ n \in 1 .. Len(s) + 1
    BY <1>1, <1>2 DEF n
  <2>2. With(Late(q), <<>>) \in Left(q, s, n)
    BY <1>3, <1>6, <2>1, LeftIs
  <2> QED
    BY <1>4, <1>6, <2>2
<1> QED
  BY <1>5, <1>6 DEF n
-----------------------------------------------------------------------------
\* --- the invariant ------------------------------------------------------------

LInv ==
  /\ TypeOK
  /\ state \in Inside \cup {"GROUND", "ERROR", "rejected"}
  /\ state \in AfterValue => tokens # <<>> /\ tokens[Len(tokens)] = "VALUE"
  /\ JsonReadings(text) = {x \in {tokens \o y : y \in Left(state, text, read + 1)} : MayBeJson(x)}

LEMMA GoesInside ==
  ASSUME NEW q, NEW c, NEW p, NEW t, Goes(q, c, p, t)
  PROVE  p \in Inside \cup {"GROUND", "ERROR"}
BY DEF Goes, OwnGoes, StructureGoes, StringGoes, WordGoes, NumberGoes, Inside, NumberStates,
   WordStates, StringStates, InNumber

\* Where a rule leads to, the wildcard's too, is a state of the table.
LEMMA RulesInTable ==
  ASSUME NEW q, NEW c, NEW r \in RulesFor(q, c)
  PROVE  r[3] \in {w[3] : w \in TRANSFORMATIONS}
<1>1. r \in TRANSFORMATIONS \/ r = <<q, {c}, "STRING", None>>
  BY DEF RulesFor
<1>2. \E w \in TRANSFORMATIONS : w[3] = "STRING"
  <2>1. PICK w : w = <<"GROUND", {Quote}, "STRING", None>>
    OBVIOUS
  <2>2. w \in StringRules
    BY <2>1 DEF StringRules
  <2> QED
    BY <2>1, <2>2 DEF TRANSFORMATIONS
<1>3. CASE r \in TRANSFORMATIONS
  BY <1>3
<1>4. CASE r = <<q, {c}, "STRING", None>>
  <2>1. r[3] = "STRING"
    BY <1>4
  <2> QED
    BY <1>2, <2>1
<1> QED
  BY <1>1, <1>3, <1>4

LEMMA GroundInTable ==
  "GROUND" \in {w[3] : w \in TRANSFORMATIONS}
<1>1. PICK w : w = <<"GROUND", Space, "GROUND", None>>
  OBVIOUS
<1>2. w \in {<<q, Space, "GROUND", None>> : q \in InNumber \cup {"GROUND"}}
  BY <1>1
<1>3. w \in TRANSFORMATIONS /\ w[3] = "GROUND"
  BY <1>1, <1>2 DEF TRANSFORMATIONS
<1> QED
  BY <1>3

LEMMA EmitIs ==
  ASSUME NEW T \in Seq(Tokens), NEW t \in Tokens \cup {None}
  PROVE  /\ TokenOf(t) \in Seq(Tokens)
         /\ (IF t = None THEN T ELSE Append(T, t)) = T \o TokenOf(t)
         /\ T \o TokenOf(t) \in Seq(Tokens)
         /\ Len(T \o TokenOf(t)) = Len(T) + (IF t = None THEN 0 ELSE 1)
         /\ t # None => T \o TokenOf(t) # <<>> /\ (T \o TokenOf(t))[Len(T \o TokenOf(t))] = t
<1>1. CASE t = None
  <2>1. TokenOf(t) = <<>> /\ T \o <<>> = T
    BY <1>1, ConcatEmptySeq DEF TokenOf
  <2> QED
    BY <1>1, <2>1
<1>2. CASE t # None
  <2>1. TokenOf(t) = <<t>> /\ t \in Tokens
    BY <1>2 DEF TokenOf
  <2>2. Append(T, t) = T \o <<t>>
    BY <2>1, AppendIsConcat
  <2>3. /\ Append(T, t) \in Seq(Tokens) /\ Len(Append(T, t)) = Len(T) + 1
        /\ Append(T, t)[Len(T) + 1] = t /\ Append(T, t) # <<>>
    BY <2>1, AppendProperties
  <2> QED
    BY <1>2, <2>1, <2>2, <2>3
<1> QED
  BY <1>1, <1>2

LEMMA LInit == Init => LInv
<1> SUFFICES ASSUME Init PROVE LInv
  OBVIOUS
<1>1. text \in Seq(Chars) /\ read = 0 /\ state = "GROUND" /\ tokens = <<>>
  BY JsonLexerAssumption DEF Init
<1>2. TypeOK
  BY <1>1, GroundInTable DEF TypeOK
<1>3. "GROUND" \notin AfterValue
  BY DEF AfterValue, NumberStates, InNumber
<1>4. Left(state, text, read + 1) = Readings(text)[1]
  BY <1>1, LeftOnGround
<1>5. \A y \in Readings(text)[1] : tokens \o y = y
  <2>1. Readings(text)[1] \in SUBSET Seq(Tokens)
    BY <1>1, ReadingsUnfold
  <2> QED
    BY <1>1, <2>1, ConcatEmptySeq
<1>6. JsonReadings(text)
        = {x \in {tokens \o y : y \in Left(state, text, read + 1)} : MayBeJson(x)}
  BY <1>4, <1>5 DEF JsonReadings
<1> QED
  BY <1>1, <1>2, <1>3, <1>6 DEF LInv

LEMMA LNext == LInv /\ [Next]_vars => LInv'
<1> SUFFICES ASSUME LInv, [Next]_vars PROVE LInv'
  OBVIOUS
<1> DEFINE i == read + 1
           c == text[i]
           Now == {x \in {tokens \o y : y \in Left(state, text, i)} : MayBeJson(x)}
<1>1. CASE UNCHANGED vars
  BY <1>1 DEF LInv, vars, TypeOK, Next
<1>2. CASE Read
  <2>1. /\ text' = text /\ read' = read + 1 /\ i \in 1 .. Len(text) /\ c \in Chars
        /\ read' \in 0 .. Len(text) /\ read' + 1 = i + 1 /\ i + 1 \in 1 .. Len(text) + 1
        /\ i \in 1 .. Len(text) + 1
    BY <1>2 DEF Read, LInv, TypeOK
  <2>2. /\ state \in Inside \cup {"GROUND", "ERROR"} /\ text \in Seq(Chars)
        /\ tokens \in Seq(Tokens) /\ Len(tokens) <= read /\ Len(tokens) \in Nat /\ read \in Nat
        /\ state \in AfterValue => tokens # <<>> /\ tokens[Len(tokens)] = "VALUE"
        /\ JsonReadings(text) = Now
    BY <1>2 DEF Read, LInv, TypeOK
  <2> HIDE DEF c
  <2>3. ASSUME NEW r \in RulesFor(state, c), state' = r[3], tokens' = Emit(r[4])
        PROVE  LInv'
    <3> DEFINE p == r[3]
               t == r[4]
               Then == {x \in {tokens' \o z : z \in Left(p, text, i + 1)} : MayBeJson(x)}
    <3>1. Goes(state, c, p, t)
      BY <2>1, Rules
    <3>2. p \in {w[3] : w \in TRANSFORMATIONS}
      BY RulesInTable
    <3> HIDE DEF p, t
    <3>3. /\ t \in Tokens \cup {None} /\ p \in Inside \cup {"GROUND", "ERROR"}
          /\ p \in AfterValue => t = "VALUE" \/ (t = None /\ state \in AfterValue)
      BY <3>1, GoesTypes, GoesInside
    <3>4. state' = p /\ tokens' = tokens \o TokenOf(t) /\ TokenOf(t) \in Seq(Tokens)
      BY <2>2, <2>3, <3>3, EmitIs DEF Emit, p, t
    <3>5. TypeOK'
      <4>1. tokens' \in Seq(Tokens) /\ Len(tokens') <= read'
        BY <2>1, <2>2, <3>3, <3>4, EmitIs
      <4> QED
        BY <2>1, <2>2, <3>2, <3>4, <4>1 DEF TypeOK
    <3>6. p \in AfterValue => tokens' # <<>> /\ tokens'[Len(tokens')] = "VALUE"
      <4>1. CASE t = None
        <5>1. tokens' = tokens
          BY <2>2, <3>3, <3>4, <4>1, EmitIs
        <5>2. None # "VALUE"
          BY DEF None
        <5> QED
          BY <2>2, <3>3, <4>1, <5>1, <5>2
      <4>2. CASE t # None
        BY <2>2, <3>3, <3>4, <4>2, EmitIs
      <4> QED
        BY <4>1, <4>2
    <3>7. \A z \in Left(p, text, i + 1) :
            z \in Seq(Tokens) /\ With(t, z) \in Seq(Tokens) /\ tokens' \o z = tokens \o With(t, z)
      <4> SUFFICES ASSUME NEW z \in Left(p, text, i + 1)
                   PROVE  /\ z \in Seq(Tokens) /\ With(t, z) \in Seq(Tokens)
                          /\ tokens' \o z = tokens \o With(t, z)
        OBVIOUS
      <4>1. z \in Seq(Tokens)
        BY <2>1, <2>2, LeftIs
      <4>2. (tokens \o TokenOf(t)) \o z = tokens \o (TokenOf(t) \o z)
        BY <2>2, <3>4, <4>1, ConcatAssociative
      <4> QED
        BY <3>3, <3>4, <4>1, <4>2, WithToken DEF With
    <3>8. ASSUME NEW y \in Left(state, text, i), MayBeJson(tokens \o y)
          PROVE  \E z \in Left(p, text, i + 1) : tokens \o y = tokens' \o z
      <4>1. y \in Seq(Tokens)
        BY <2>1, <2>2, LeftIs
      <4>2. PICK p1, t1 :
              Goes(state, c, p1, t1) /\ \E z \in Left(p1, text, i + 1) : y = With(t1, z)
        BY <2>1, <2>2, <3>8, <4>1, CharacterRead DEF c
      <4>3. p1 = p /\ t1 = t
        BY <3>1, <4>2, OneWay
      <4> QED
        BY <3>7, <4>2, <4>3
    <3>9. ASSUME NEW z \in Left(p, text, i + 1), MayBeJson(tokens' \o z)
          PROVE  \E y \in Left(state, text, i) : tokens' \o z = tokens \o y
      <4>1. With(t, z) \in Seq(Tokens) /\ tokens' \o z = tokens \o With(t, z)
        BY <3>7
      <4>2. MayBeJson(tokens \o With(t, z))
        BY <3>9, <4>1
      <4>3. With(t, z) \in Left(state, text, i)
        BY <2>1, <2>2, <3>1, <4>1, <4>2, CharacterRead DEF c
      <4> QED
        BY <4>1, <4>3
    <3> HIDE DEF i
    <3>10. Now = Then
      BY <3>8, <3>9
    <3>11. JsonReadings(text) = Then
      BY <2>2, <3>10
    <3> QED
      BY <2>1, <3>3, <3>4, <3>5, <3>6, <3>11 DEF LInv
  <2>4. ASSUME RulesFor(state, c) = {}, state' = "rejected", tokens' = tokens
        PROVE  LInv'
    <3>1. \A p, t : ~Goes(state, c, p, t)
      BY <2>1, <2>4, Rules
    <3>2. \A y \in Left(state, text, i) : ~MayBeJson(tokens \o y)
      <4> SUFFICES ASSUME NEW y \in Left(state, text, i), MayBeJson(tokens \o y)
                   PROVE  FALSE
        OBVIOUS
      <4>1. y \in Seq(Tokens)
        BY <2>1, <2>2, LeftIs
      <4>2. \E p, t : Goes(state, c, p, t)
        BY <2>1, <2>2, <4>1, CharacterRead DEF c
      <4> QED
        BY <3>1, <4>2
    <3>3. Left("rejected", text, i + 1) = {}
      <4>1. \A j : ~Completes("rejected", text, i + 1, j)
        BY DEF Completes, NumberStates, WordStates, StringStates, InNumber
      <4> QED
        BY <4>1 DEF Left
    <3>4. "rejected" \notin AfterValue
      BY DEF AfterValue, NumberStates, InNumber
    <3>5. TypeOK'
      BY <2>1, <2>2, <2>4 DEF TypeOK
    <3>6. JsonReadings(text) = {}
      BY <2>2, <3>2
    <3>7. {x \in {tokens' \o y : y \in Left("rejected", text, i + 1)} : MayBeJson(x)} = {}
      BY <3>3
    <3> QED
      BY <2>1, <2>4, <3>4, <3>5, <3>6, <3>7 DEF LInv
  <2> QED
    BY <1>2, <2>3, <2>4 DEF Read, c
<1> QED
  BY <1>1, <1>2 DEF Next

\* At every character the token lists of the text are the tokens so far followed by
\* what is left: the loop of is_valid (line 172) loses and adds nothing that matters.
THEOREM LexerInvariant == Spec => []LInv
<1>1. Init => LInv
  BY LInit
<1>2. LInv /\ [Next]_vars => LInv'
  BY LNext
<1> QED
  BY <1>1, <1>2, PTL DEF Spec

\* The table stays among its states, and gives at most a token for a character.
THEOREM LexerTypeCorrect == Spec => []TypeOK
<1>1. LInv => TypeOK
  BY DEF LInv
<1> QED
  BY <1>1, LexerInvariant, PTL

LEMMA LDone == LInv => ReadsTheTokens
<1> SUFFICES ASSUME LInv, Done PROVE Accepted = JsonReadings(text)
  BY DEF ReadsTheTokens
<1>1. /\ text \in Seq(Chars) /\ tokens \in Seq(Tokens)
      /\ JsonReadings(text)
           = {x \in {tokens \o y : y \in Left(state, text, read + 1)} : MayBeJson(x)}
      /\ state \in Inside \cup {"GROUND", "ERROR", "rejected"}
      /\ state \in AfterValue => tokens # <<>> /\ tokens[Len(tokens)] = "VALUE"
  BY DEF LInv, TypeOK
<1>2. CASE state = "rejected"
  <2>1. \A j : ~Completes("rejected", text, read + 1, j)
    BY DEF Completes, NumberStates, WordStates, StringStates, InNumber
  <2>2. Left(state, text, read + 1) = {}
    BY <1>2, <2>1 DEF Left
  <2>3. Accepted = {}
    BY <1>2 DEF Accepted, EXITSTATES
  <2> QED
    BY <1>1, <2>2, <2>3
<1>3. CASE state # "rejected"
  <2>1. read = Len(text)
    BY <1>3 DEF Done
  <2>2. \A y : y \in Left(state, text, read + 1) <=> state \in InNumber \cup {"GROUND"} /\ y = <<>>
    BY <1>1, <1>3, <2>1, LeftAtEnd
  <2>3. tokens \o <<>> = tokens
    BY <1>1, ConcatEmptySeq
  <2>4. JsonReadings(text)
          = IF state \in InNumber \cup {"GROUND"} /\ MayBeJson(tokens) THEN {tokens} ELSE {}
    BY <1>1, <2>2, <2>3
  <2>5. EXITSTATES = (InNumber \cup {"GROUND"}) \ {"DECIMALOK"}
    BY DEF EXITSTATES, InNumber
  <2>6. state = "DECIMALOK" => ~MayBeJson(tokens)
    <3>1. "DECIMALOK" \in AfterValue
      BY DEF AfterValue, NumberStates, InNumber
    <3> QED
      BY <1>1, <3>1 DEF MayBeJson
  <2> QED
    BY <2>4, <2>5, <2>6 DEF Accepted
<1> QED
  BY <1>2, <1>3

\* Every text, of any length: the table ends with the one token list that the text has
\* by the lexemes of RFC 4627, up to the three deviations of IsLaxLexeme, and that may
\* come from an array or object, or with none if it has none.  So a text has at most one,
\* and the end state missing from EXITSTATES rejects no array.
THEOREM TableReadsTokens == Spec => []ReadsTheTokens
<1>1. LInv => ReadsTheTokens
  BY LDone
<1> QED
  BY <1>1, LexerInvariant, PTL
=============================================================================
