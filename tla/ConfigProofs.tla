---------------------------- MODULE ConfigProofs ----------------------------
(***************************************************************************)
(* Theorems about Config, for data sets of any shape and depth: what the   *)
(* loaded settings have at each path, that nothing but the servers is      *)
(* converted, and what filter_dataset leaves of a report.                  *)
(*                                                                         *)
(* merge and filter_dataset are recursive functions.  That each recursion  *)
(* has a solution follows from the depth of the nodes (MergeUnfolds,       *)
(* FilterUnfolds); the properties then go along a path, one entry at a     *)
(* time, with an invariant of what the nodes met on the way have to do     *)
(* with each other (MergeTrail, ConvertTrail, FilterTrail).                *)
(***************************************************************************)
EXTENDS Config, WellFoundedInduction, TLAPS

LEMMA LeastNumber ==
  ASSUME NEW S \in SUBSET Nat, S # {}
  PROVE  \E n \in S : \A m \in Nat : m < n => m \notin S
<1>1. PICK n \in S : \A m \in S : ~(<<m, n>> \in OpToRel(<, Nat))
  BY NatLessThanWellFounded, WFMin
<1> QED
  BY <1>1 DEF OpToRel

\* Induction up to a number, for a set.
LEMMA UpTo ==
  ASSUME NEW N \in Nat, NEW S, 0 \in S,
         \A n \in Nat : n < N /\ n \in S => n + 1 \in S
  PROVE  \A n \in 0 .. N : n \in S
<1> DEFINE out == {n \in 0 .. N : n \notin S}
<1> SUFFICES ASSUME out # {} PROVE FALSE
  OBVIOUS
<1>1. PICK n \in out : \A m \in Nat : m < n => m \notin out
  <2>1. out \in SUBSET Nat
    OBVIOUS
  <2> QED
    BY <2>1, LeastNumber
<1>2. n # 0 /\ n - 1 \in Nat /\ n - 1 < N /\ n - 1 < n /\ (n - 1) + 1 = n
  OBVIOUS
<1>3. n - 1 \in S
  BY <1>1, <1>2
<1> QED
  BY <1>2, <1>3
-----------------------------------------------------------------------------
\* --- nodes and trails ------------------------------------------------------

\* The entries of a dictionary.
LEMMA Entries ==
  ASSUME NEW t \in Nodes, IsDict(t)
  PROVE  /\ t = Dict([k \in DOMAIN t.items |-> t.items[k]])
         /\ \A k \in DOMAIN t.items :
              t.items[k] \in Nodes /\ Depth[t.items[k]] < Depth[t]
<1>1. IsTree(t)
  BY NodesAssumption
<1> QED
  BY <1>1 DEF IsTree, IsDict, IsList

LEMMA Elements ==
  ASSUME NEW t \in Nodes, IsList(t)
  PROVE  /\ t.elements \in Seq(Nodes)
         /\ \A i \in DOMAIN t.elements : Depth[t.elements[i]] < Depth[t]
<1>1. IsTree(t)
  BY NodesAssumption
<1> QED
  BY <1>1 DEF IsTree, IsDict, IsList

LEMMA Kinds ==
  ASSUME NEW t \in Nodes
  PROVE  t.kind \in {"leaf", "dict", "list"} /\ Depth[t] \in Nat
<1>1. IsTree(t) /\ Depth \in [Nodes -> Nat]
  BY NodesAssumption
<1> QED
  BY <1>1 DEF IsTree, IsDict, IsList

LEMMA EmptyDict ==
  /\ Dict(<<>>) \in Dicts /\ Dict(<<>>) \in Nodes /\ DOMAIN Dict(<<>>).items = {}
BY NodesAssumption DEF Dicts, Dict

LEMMA NotThereIsNoNode ==
  /\ NotThere \notin Nodes /\ ~IsDict(NotThere)
  /\ \A k : Child(NotThere, k) = NotThere
<1>1. NotThere.kind = "not there"
  BY DEF NotThere
<1> QED
  BY <1>1, Kinds DEF IsDict, Child

LEMMA ChildOfNode ==
  ASSUME NEW t \in Nodes, NEW k
  PROVE  IF IsDict(t) /\ k \in DOMAIN t.items
         THEN Child(t, k) = t.items[k] /\ Child(t, k) \in Nodes
         ELSE Child(t, k) = NotThere
BY Entries DEF Child

\* The trail is a solution of its equations.
TrailTo(g, t, path, m) ==
  g = [n \in 0 .. m |-> IF n = 0 THEN t ELSE Child(g[n - 1], path[n])]

LEMMA TrailExists ==
  ASSUME NEW t, NEW path, NEW m \in Nat
  PROVE  \E g : TrailTo(g, t, path, m)
<1> DEFINE S == {n \in Nat : \E g : TrailTo(g, t, path, n)}
<1>1. 0 \in S
  <2> DEFINE g == [n \in 0 .. 0 |-> t]
  <2>1. TrailTo(g, t, path, 0)
    BY DEF TrailTo
  <2> QED
    BY <2>1
<1>2. ASSUME NEW n \in Nat, n \in S PROVE n + 1 \in S
  <2>1. PICK f : TrailTo(f, t, path, n)
    BY <1>2
  <2>2. \A i \in 0 .. n : f[i] = IF i = 0 THEN t ELSE Child(f[i - 1], path[i])
    BY <2>1 DEF TrailTo
  <2> DEFINE g == [i \in 0 .. n + 1 |-> IF i <= n THEN f[i] ELSE Child(f[n], path[n + 1])]
  <2>3. \A i \in 0 .. n + 1 : g[i] = IF i <= n THEN f[i] ELSE Child(f[n], path[n + 1])
    OBVIOUS
  <2>4. \A i \in 0 .. n + 1 : g[i] = IF i = 0 THEN t ELSE Child(g[i - 1], path[i])
    <3> SUFFICES ASSUME NEW i \in 0 .. n + 1
                 PROVE  g[i] = IF i = 0 THEN t ELSE Child(g[i - 1], path[i])
      OBVIOUS
    <3> HIDE DEF g
    <3>1. CASE i <= n
      <4>1. i # 0 => i - 1 \in 0 .. n + 1 /\ i - 1 <= n
        BY <3>1
      <4> QED
        BY <2>2, <2>3, <3>1, <4>1
    <3>2. CASE i = n + 1
      <4>1. i # 0 /\ i - 1 = n /\ n \in 0 .. n + 1 /\ ~(i <= n)
        BY <3>2
      <4> QED
        BY <2>3, <3>2, <4>1
    <3> QED
      BY <3>1, <3>2
  <2>5. g = [i \in 0 .. n + 1 |-> g[i]]
    OBVIOUS
  <2>6. TrailTo(g, t, path, n + 1)
    <3> HIDE DEF g
    <3> QED
      BY <2>4, <2>5 DEF TrailTo
  <2> QED
    BY <2>6
<1> HIDE DEF S
<1>3. m \in S
  BY <1>1, <1>2, UpTo
<1> QED
  BY <1>3 DEF S

LEMMA TrailSteps ==
  ASSUME NEW t, NEW path \in Seq(STRING)
  PROVE  /\ Len(path) \in Nat
         /\ Trail(t, path)[0] = t
         /\ \A n \in 0 .. Len(path) - 1 :
              Trail(t, path)[n + 1] = Child(Trail(t, path)[n], path[n + 1])
<1> DEFINE m == Len(path)
<1>1. m \in Nat
  OBVIOUS
<1>2. PICK g : TrailTo(g, t, path, m)
  BY <1>1, TrailExists
<1>3. TrailTo(Trail(t, path), t, path, m)
  BY <1>2 DEF Trail, TrailTo
<1>4. \A n \in 0 .. m : Trail(t, path)[n] = IF n = 0 THEN t
                                          ELSE Child(Trail(t, path)[n - 1], path[n])
  BY <1>3 DEF TrailTo
<1>5. \A n \in 0 .. m - 1 : n + 1 \in 0 .. m /\ n + 1 # 0 /\ (n + 1) - 1 = n
  BY <1>1
<1> QED
  BY <1>1, <1>4, <1>5
\* The same for what is left of keys along a path.
KeyTrailTo(g, keys, path, m) ==
  g = [n \in 0 .. m |-> IF n = 0 THEN keys ELSE Narrowed(g[n - 1], path[n])]

LEMMA KeyTrailExists ==
  ASSUME NEW keys, NEW path, NEW m \in Nat
  PROVE  \E g : KeyTrailTo(g, keys, path, m)
<1> DEFINE S == {n \in Nat : \E g : KeyTrailTo(g, keys, path, n)}
<1>1. 0 \in S
  <2> DEFINE g == [n \in 0 .. 0 |-> keys]
  <2>1. KeyTrailTo(g, keys, path, 0)
    BY DEF KeyTrailTo
  <2> QED
    BY <2>1
<1>2. ASSUME NEW n \in Nat, n \in S PROVE n + 1 \in S
  <2>1. PICK f : KeyTrailTo(f, keys, path, n)
    BY <1>2
  <2>2. \A i \in 0 .. n : f[i] = IF i = 0 THEN keys ELSE Narrowed(f[i - 1], path[i])
    BY <2>1 DEF KeyTrailTo
  <2> DEFINE g == [i \in 0 .. n + 1 |-> IF i <= n THEN f[i] ELSE Narrowed(f[n], path[n + 1])]
  <2>3. \A i \in 0 .. n + 1 : g[i] = IF i <= n THEN f[i] ELSE Narrowed(f[n], path[n + 1])
    OBVIOUS
  <2>4. \A i \in 0 .. n + 1 : g[i] = IF i = 0 THEN keys ELSE Narrowed(g[i - 1], path[i])
    <3> SUFFICES ASSUME NEW i \in 0 .. n + 1
                 PROVE  g[i] = IF i = 0 THEN keys ELSE Narrowed(g[i - 1], path[i])
      OBVIOUS
    <3> HIDE DEF g
    <3>1. CASE i <= n
      <4>1. i # 0 => i - 1 \in 0 .. n + 1 /\ i - 1 <= n
        BY <3>1
      <4> QED
        BY <2>2, <2>3, <3>1, <4>1
    <3>2. CASE i = n + 1
      <4>1. i # 0 /\ i - 1 = n /\ n \in 0 .. n + 1 /\ ~(i <= n)
        BY <3>2
      <4> QED
        BY <2>3, <3>2, <4>1
    <3> QED
      BY <3>1, <3>2
  <2>5. g = [i \in 0 .. n + 1 |-> g[i]]
    OBVIOUS
  <2>6. KeyTrailTo(g, keys, path, n + 1)
    <3> HIDE DEF g
    <3> QED
      BY <2>4, <2>5 DEF KeyTrailTo
  <2> QED
    BY <2>6
<1> HIDE DEF S
<1>3. m \in S
  BY <1>1, <1>2, UpTo
<1> QED
  BY <1>3 DEF S

LEMMA KeyTrailSteps ==
  ASSUME NEW keys, NEW path \in Seq(STRING)
  PROVE  /\ Len(path) \in Nat
         /\ KeyTrail(keys, path)[0] = keys
         /\ \A n \in 0 .. Len(path) - 1 :
              KeyTrail(keys, path)[n + 1] = Narrowed(KeyTrail(keys, path)[n], path[n + 1])
<1> DEFINE m == Len(path)
<1>1. m \in Nat
  OBVIOUS
<1>2. PICK g : KeyTrailTo(g, keys, path, m)
  BY <1>1, KeyTrailExists
<1>3. KeyTrailTo(KeyTrail(keys, path), keys, path, m)
  BY <1>2 DEF KeyTrail, KeyTrailTo
<1>4. \A n \in 0 .. m : KeyTrail(keys, path)[n] = IF n = 0 THEN keys
                                          ELSE Narrowed(KeyTrail(keys, path)[n - 1], path[n])
  BY <1>3 DEF KeyTrailTo
<1>5. \A n \in 0 .. m - 1 : n + 1 \in 0 .. m /\ n + 1 # 0 /\ (n + 1) - 1 = n
  BY <1>1
<1> QED
  BY <1>1, <1>4, <1>5
-----------------------------------------------------------------------------
\* --- merge: the recursion has a solution -----------------------------------

\* A dictionary is laid over another by laying its entries, which are less deep.
LEMMA LaidLocal ==
  ASSUME NEW f, NEW g, NEW d \in Dicts, NEW o \in Dicts,
         \A p \in Dicts \X Dicts : Depth[p[2]] < Depth[o] => f[p] = g[p]
  PROVE  Laid(f, d, o) = Laid(g, d, o)
<1>1. ASSUME NEW k \in DOMAIN o.items, Descends(Default(d, k), o.items[k])
      PROVE  f[<<Default(d, k), o.items[k]>>] = g[<<Default(d, k), o.items[k]>>]
  <2>1. o \in Nodes /\ IsDict(o) /\ d \in Nodes /\ IsDict(d)
    BY DEF Dicts
  <2>2. o.items[k] \in Dicts /\ Depth[o.items[k]] < Depth[o]
    BY <1>1, <2>1, Entries DEF Descends, Dicts
  <2>3. Default(d, k) \in Dicts
    BY <1>1, <2>1, Entries, EmptyDict DEF Descends, Default, Dicts
  <2> DEFINE p == <<Default(d, k), o.items[k]>>
  <2>4. p \in Dicts \X Dicts /\ p[2] = o.items[k]
    BY <2>2, <2>3
  <2> QED
    BY <2>2, <2>4
<1> DEFINE entry(m, k) ==
             IF k \notin DOMAIN o.items THEN d.items[k]
             ELSE IF Descends(Default(d, k), o.items[k]) THEN m[<<Default(d, k), o.items[k]>>]
             ELSE o.items[k]
<1>2. \A k \in DOMAIN d.items \cup DOMAIN o.items : entry(f, k) = entry(g, k)
  BY <1>1
<1>3. /\ Laid(f, d, o) = Dict([k \in DOMAIN d.items \cup DOMAIN o.items |-> entry(f, k)])
      /\ Laid(g, d, o) = Dict([k \in DOMAIN d.items \cup DOMAIN o.items |-> entry(g, k)])
  BY DEF Laid
<1> HIDE DEF entry
<1>4. [k \in DOMAIN d.items \cup DOMAIN o.items |-> entry(f, k)]
        = [k \in DOMAIN d.items \cup DOMAIN o.items |-> entry(g, k)]
  BY <1>2
<1> QED
  BY <1>3, <1>4

\* A solution for the dictionaries of less than a depth.
Shallow(n) == {p \in Dicts \X Dicts : Depth[p[2]] < n}
MergeTo(g, n) == g = [p \in Shallow(n) |-> Laid(g, p[1], p[2])]

LEMMA ShallowPairs ==
  ASSUME NEW p \in Dicts \X Dicts
  PROVE  p[1] \in Dicts /\ p[2] \in Dicts /\ Depth[p[2]] \in Nat
<1>1. p[1] \in Dicts /\ p[2] \in Dicts
  OBVIOUS
<1> QED
  BY <1>1, Kinds DEF Dicts

LEMMA MergeUnique ==
  ASSUME NEW m \in Nat, NEW n \in Nat, NEW f, NEW g, MergeTo(f, m), MergeTo(g, n)
  PROVE  \A p \in Shallow(m) \cap Shallow(n) : f[p] = g[p]
<1> DEFINE differ == {k \in Nat : \E p \in Shallow(m) \cap Shallow(n) :
                                    Depth[p[2]] = k /\ f[p] # g[p]}
<1> SUFFICES ASSUME differ # {} PROVE FALSE
  <2>1. \A p \in Shallow(m) \cap Shallow(n) : Depth[p[2]] \in Nat
    BY ShallowPairs DEF Shallow
  <2> QED
    BY <2>1
<1>1. PICK k \in differ : \A j \in Nat : j < k => j \notin differ
  <2>1. differ \in SUBSET Nat
    OBVIOUS
  <2> HIDE DEF differ
  <2> QED
    BY <2>1, LeastNumber
<1>2. PICK p \in Shallow(m) \cap Shallow(n) : Depth[p[2]] = k /\ f[p] # g[p]
  BY <1>1
<1>3. p \in Dicts \X Dicts /\ k \in Nat /\ k < m /\ k < n
  BY <1>2 DEF Shallow
<1>4. \A q \in Dicts \X Dicts : Depth[q[2]] < Depth[p[2]] => f[q] = g[q]
  <2> SUFFICES ASSUME NEW q \in Dicts \X Dicts, Depth[q[2]] < k PROVE f[q] = g[q]
    BY <1>2
  <2>1. Depth[q[2]] \in Nat
    BY ShallowPairs
  <2>2. q \in Shallow(m) \cap Shallow(n)
    BY <1>3, <2>1 DEF Shallow
  <2>3. Depth[q[2]] \notin differ
    BY <1>1, <2>1
  <2> QED
    BY <2>1, <2>2, <2>3
<1>5. Laid(f, p[1], p[2]) = Laid(g, p[1], p[2])
  BY <1>3, <1>4, ShallowPairs, LaidLocal
<1>6. f[p] = Laid(f, p[1], p[2]) /\ g[p] = Laid(g, p[1], p[2])
  <2> HIDE DEF differ
  <2> QED
    BY <1>2 DEF MergeTo
<1> QED
  BY <1>2, <1>5, <1>6

LEMMA MergeExists ==
  ASSUME NEW m \in Nat
  PROVE  \E g : MergeTo(g, m)
<1> DEFINE S == {n \in Nat : \E g : MergeTo(g, n)}
<1>1. 0 \in S
  <2>1. Shallow(0) = {}
    BY ShallowPairs DEF Shallow
  <2>2. MergeTo([p \in Shallow(0) |-> p], 0)
    BY <2>1 DEF MergeTo
  <2> QED
    BY <2>2
<1>2. ASSUME NEW n \in Nat, n \in S PROVE n + 1 \in S
  <2>1. PICK f : MergeTo(f, n)
    BY <1>2
  <2> DEFINE g == [p \in Shallow(n + 1) |-> Laid(f, p[1], p[2])]
  <2>2. \A p \in Shallow(n + 1) : g[p] = Laid(f, p[1], p[2])
    OBVIOUS
  <2>3. \A p \in Shallow(n) : p \in Shallow(n + 1) /\ f[p] = Laid(f, p[1], p[2])
    <3>1. \A p \in Shallow(n) : p \in Shallow(n + 1)
      BY ShallowPairs DEF Shallow
    <3> QED
      BY <2>1, <3>1 DEF MergeTo
  <2>4. \A p \in Shallow(n) : f[p] = g[p]
    <3> HIDE DEF g
    <3> QED
      BY <2>2, <2>3
  <2>5. ASSUME NEW p \in Shallow(n + 1)
        PROVE  Laid(f, p[1], p[2]) = Laid(g, p[1], p[2])
    <3>1. p \in Dicts \X Dicts /\ Depth[p[2]] < n + 1
      BY DEF Shallow
    <3>2. \A q \in Dicts \X Dicts : Depth[q[2]] < Depth[p[2]] => q \in Shallow(n)
      BY <3>1, ShallowPairs DEF Shallow
    <3>3. p[1] \in Dicts /\ p[2] \in Dicts
      BY <3>1, ShallowPairs
    <3> HIDE DEF g
    <3> QED
      BY <2>4, <3>2, <3>3, LaidLocal
  <2>6. g = [p \in Shallow(n + 1) |-> g[p]]
    OBVIOUS
  <2>7. MergeTo(g, n + 1)
    <3> HIDE DEF g
    <3> QED
      BY <2>2, <2>5, <2>6 DEF MergeTo
  <2> QED
    BY <2>7
<1> HIDE DEF S
<1>3. m \in S
  BY <1>1, <1>2, UpTo
<1> QED
  BY <1>3 DEF S

LEMMA MergeUnfolds ==
  ASSUME NEW d \in Dicts, NEW o \in Dicts
  PROVE  MergeTrees[<<d, o>>] = Laid(MergeTrees, d, o)
<1> DEFINE part(p) == CHOOSE g : MergeTo(g, Depth[p[2]] + 1)
           F == [p \in Dicts \X Dicts |-> part(p)[p]]
<1>1. \A p \in Dicts \X Dicts : MergeTo(part(p), Depth[p[2]] + 1)
  BY MergeExists, ShallowPairs
<1>2. \A p \in Dicts \X Dicts : F[p] = part(p)[p]
  OBVIOUS
<1>3. F = [p \in Dicts \X Dicts |-> F[p]]
  OBVIOUS
<1> HIDE DEF part, F
<1>4. ASSUME NEW p \in Dicts \X Dicts
      PROVE  F[p] = Laid(F, p[1], p[2])
  <2>1. p[1] \in Dicts /\ p[2] \in Dicts /\ Depth[p[2]] \in Nat
    BY ShallowPairs
  <2>2. part(p)[p] = Laid(part(p), p[1], p[2])
    <3>1. p \in Shallow(Depth[p[2]] + 1)
      BY <2>1 DEF Shallow
    <3> QED
      BY <1>1, <3>1 DEF MergeTo
  <2>3. ASSUME NEW q \in Dicts \X Dicts, Depth[q[2]] < Depth[p[2]]
        PROVE  part(p)[q] = F[q]
    <3>1. Depth[q[2]] \in Nat
      BY ShallowPairs
    <3>2. q \in Shallow(Depth[q[2]] + 1) \cap Shallow(Depth[p[2]] + 1)
      BY <2>1, <2>3, <3>1 DEF Shallow
    <3>3. /\ MergeTo(part(p), Depth[p[2]] + 1) /\ MergeTo(part(q), Depth[q[2]] + 1)
          /\ Depth[p[2]] + 1 \in Nat /\ Depth[q[2]] + 1 \in Nat
      BY <1>1, <2>1, <3>1
    <3>4. part(p)[q] = part(q)[q]
      BY <3>2, <3>3, MergeUnique
    <3> QED
      BY <1>2, <3>4
  <2>4. Laid(part(p), p[1], p[2]) = Laid(F, p[1], p[2])
    BY <2>1, <2>3, LaidLocal
  <2> QED
    BY <1>2, <2>2, <2>4
<1>5. F = [p \in Dicts \X Dicts |-> Laid(F, p[1], p[2])]
  BY <1>3, <1>4
<1>6. MergeTrees = [p \in Dicts \X Dicts |-> Laid(MergeTrees, p[1], p[2])]
  BY <1>5 DEF MergeTrees
<1>7. <<d, o>> \in Dicts \X Dicts /\ <<d, o>>[1] = d /\ <<d, o>>[2] = o
  OBVIOUS
<1> QED
  BY <1>6, <1>7
-----------------------------------------------------------------------------
\* --- what merge makes of a path ---------------------------------------------

\* An entry of two dictionaries laid over each other, from their entries.
LEMMA ChildOfMerge ==
  ASSUME NEW d \in Dicts, NEW o \in Dicts, NEW k
  PROVE  /\ IsDict(MergeTrees[<<d, o>>])
         /\ Child(MergeTrees[<<d, o>>], k) =
              IF Child(o, k) = NotThere THEN Child(d, k)
              ELSE IF ~IsDict(Child(o, k)) THEN Child(o, k)
              ELSE IF Child(d, k) = NotThere THEN MergeTrees[<<Dict(<<>>), Child(o, k)>>]
              ELSE IF IsDict(Child(d, k)) THEN MergeTrees[<<Child(d, k), Child(o, k)>>]
              ELSE Child(o, k)
<1> DEFINE keys == DOMAIN d.items \cup DOMAIN o.items
           entry(i) ==
             IF i \notin DOMAIN o.items THEN d.items[i]
             ELSE IF Descends(Default(d, i), o.items[i])
             THEN MergeTrees[<<Default(d, i), o.items[i]>>]
             ELSE o.items[i]
           m == MergeTrees[<<d, o>>]
<1>1. d \in Nodes /\ IsDict(d) /\ o \in Nodes /\ IsDict(o)
  BY DEF Dicts
<1>2. m = Dict([i \in keys |-> entry(i)])
  BY MergeUnfolds DEF Laid
<1> HIDE DEF m
<1>3. IsDict(m) /\ DOMAIN m.items = keys /\ \A i \in keys : m.items[i] = entry(i)
  <2> HIDE DEF keys, entry
  <2> QED
    BY <1>2 DEF Dict, IsDict
<1>4. Child(m, k) = IF k \in keys THEN entry(k) ELSE NotThere
  <2> HIDE DEF keys, entry
  <2> QED
    BY <1>3 DEF Child
<1>5. /\ k \in DOMAIN o.items => Child(o, k) = o.items[k] /\ o.items[k] \in Nodes
      /\ k \notin DOMAIN o.items => Child(o, k) = NotThere
      /\ k \in DOMAIN d.items => Child(d, k) = d.items[k] /\ d.items[k] \in Nodes
      /\ k \notin DOMAIN d.items => Child(d, k) = NotThere
  BY <1>1, ChildOfNode
<1>6. IsDict(Dict(<<>>))
  BY DEF IsDict, Dict
<1>7. CASE k \notin DOMAIN o.items
  BY <1>3, <1>4, <1>5, <1>7 DEF m
<1>8. CASE k \in DOMAIN o.items
  <2>1. Child(o, k) # NotThere /\ Child(o, k) = o.items[k]
    BY <1>5, <1>8, NotThereIsNoNode
  <2>2. Child(m, k) = IF IsDict(o.items[k]) /\ IsDict(Default(d, k))
                      THEN MergeTrees[<<Default(d, k), o.items[k]>>] ELSE o.items[k]
    BY <1>4, <1>8 DEF Descends
  <2>3. CASE k \in DOMAIN d.items
    <3>1. Default(d, k) = Child(d, k) /\ Child(d, k) # NotThere
      BY <1>5, <2>3, NotThereIsNoNode DEF Default
    <3> HIDE DEF keys, entry
    <3> QED
      BY <1>3, <2>1, <2>2, <3>1 DEF m
  <2>4. CASE k \notin DOMAIN d.items
    <3>1. Default(d, k) = Dict(<<>>) /\ Child(d, k) = NotThere
      BY <1>5, <2>4 DEF Default
    <3> HIDE DEF keys, entry
    <3> QED
      BY <1>3, <1>6, <2>1, <2>2, <3>1 DEF m
  <2> QED
    BY <2>3, <2>4
<1> QED
  BY <1>7, <1>8

\* Whether a file has put something else than a dictionary further up.
CutOff(over, n) == \E i \in 0 .. n - 1 : over[i] # NotThere /\ ~IsDict(over[i])

\* What the n-th nodes along a path have to do with each other: two dictionaries
\* and what merge makes of them, an override taken as it is, or no override.
Laying(default, over, merged, n) ==
  \/ /\ ~CutOff(over, n) /\ over[n] \in Dicts
     /\ \/ default[n] \in Dicts /\ merged[n] = MergeTrees[<<default[n], over[n]>>]
        \/ default[n] = NotThere /\ merged[n] = MergeTrees[<<Dict(<<>>), over[n]>>]
  \/ /\ ~CutOff(over, n) /\ over[n] \in Nodes
     /\ merged[n] = over[n] /\ (IsDict(over[n]) => ~IsDict(default[n]))
  \/ ~CutOff(over, n) /\ over[n] = NotThere /\ merged[n] = default[n]
  \/ CutOff(over, n) /\ over[n] = NotThere /\ merged[n] = NotThere

LEMMA CutOffSteps ==
  ASSUME NEW over, NEW n \in Nat
  PROVE  /\ ~CutOff(over, 0)
         /\ CutOff(over, n + 1) <=> CutOff(over, n) \/ (over[n] # NotThere /\ ~IsDict(over[n]))
<1>1. 0 .. 0 - 1 = {} /\ 0 .. (n + 1) - 1 = (0 .. n - 1) \cup {n}
  OBVIOUS
<1> QED
  BY <1>1 DEF CutOff

LEMMA LayingStep ==
  ASSUME NEW default, NEW over, NEW merged, NEW n \in Nat, NEW k,
         Laying(default, over, merged, n),
         default[n + 1] = Child(default[n], k),
         over[n + 1] = Child(over[n], k),
         merged[n + 1] = Child(merged[n], k)
  PROVE  Laying(default, over, merged, n + 1)
<1>1. CASE /\ ~CutOff(over, n) /\ over[n] \in Dicts
           /\ \/ default[n] \in Dicts /\ merged[n] = MergeTrees[<<default[n], over[n]>>]
              \/ default[n] = NotThere /\ merged[n] = MergeTrees[<<Dict(<<>>), over[n]>>]
  <2>1. ~CutOff(over, n + 1)
    BY <1>1, CutOffSteps DEF Dicts
  <2>2. PICK d \in Dicts : /\ merged[n] = MergeTrees[<<d, over[n]>>]
                           /\ Child(d, k) = default[n + 1]
    <3>1. CASE default[n] \in Dicts
      BY <1>1, <3>1, NotThereIsNoNode DEF Dicts
    <3>2. CASE default[n] = NotThere
      <4>1. Child(Dict(<<>>), k) = NotThere /\ Child(NotThere, k) = NotThere
        BY EmptyDict, NotThereIsNoNode DEF Child
      <4> QED
        BY <1>1, <3>2, <4>1, EmptyDict, NotThereIsNoNode DEF Dicts
    <3> QED
      BY <1>1, <3>1, <3>2
  <2>3. merged[n + 1] =
          IF over[n + 1] = NotThere THEN default[n + 1]
          ELSE IF ~IsDict(over[n + 1]) THEN over[n + 1]
          ELSE IF default[n + 1] = NotThere THEN MergeTrees[<<Dict(<<>>), over[n + 1]>>]
          ELSE IF IsDict(default[n + 1]) THEN MergeTrees[<<default[n + 1], over[n + 1]>>]
          ELSE over[n + 1]
    BY <1>1, <2>2, ChildOfMerge
  <2>4. over[n + 1] = NotThere \/ over[n + 1] \in Nodes
    BY <1>1, ChildOfNode DEF Dicts
  <2>5. default[n + 1] = NotThere \/ default[n + 1] \in Nodes
    BY <2>2, ChildOfNode DEF Dicts
  <2> QED
    BY <2>1, <2>3, <2>4, <2>5, NotThereIsNoNode DEF Laying, Dicts
<1>2. CASE /\ ~CutOff(over, n) /\ over[n] \in Nodes
           /\ merged[n] = over[n] /\ (IsDict(over[n]) => ~IsDict(default[n]))
  <2>1. over[n + 1] = NotThere \/ over[n + 1] \in Nodes
    BY <1>2, ChildOfNode
  <2>2. CASE IsDict(over[n])
    <3>1. ~CutOff(over, n + 1) /\ default[n + 1] = NotThere /\ merged[n + 1] = over[n + 1]
      BY <1>2, <2>2, CutOffSteps DEF Child
    <3> QED
      BY <2>1, <3>1, NotThereIsNoNode DEF Laying
  <2>3. CASE ~IsDict(over[n])
    <3>1. CutOff(over, n + 1) /\ over[n + 1] = NotThere /\ merged[n + 1] = NotThere
      BY <1>2, <2>3, CutOffSteps, NotThereIsNoNode DEF Child
    <3> QED
      BY <3>1 DEF Laying
  <2> QED
    BY <2>2, <2>3
<1>3. CASE ~CutOff(over, n) /\ over[n] = NotThere /\ merged[n] = default[n]
  BY <1>3, CutOffSteps, NotThereIsNoNode DEF Laying
<1>4. CASE CutOff(over, n) /\ over[n] = NotThere /\ merged[n] = NotThere
  BY <1>4, CutOffSteps, NotThereIsNoNode DEF Laying
<1> QED
  BY <1>1, <1>2, <1>3, <1>4 DEF Laying

LEMMA MergeTrail ==
  ASSUME NEW d \in Dicts, NEW o \in Dicts, NEW path \in Seq(STRING)
  PROVE  \A n \in 0 .. Len(path) :
           Laying(Trail(d, path), Trail(o, path), Trail(MergeTrees[<<d, o>>], path), n)
<1> DEFINE default == Trail(d, path)
           over == Trail(o, path)
           merged == Trail(MergeTrees[<<d, o>>], path)
           S == {n \in Nat : Laying(default, over, merged, n)}
<1>1. /\ Len(path) \in Nat
      /\ default[0] = d /\ over[0] = o /\ merged[0] = MergeTrees[<<d, o>>]
      /\ \A n \in 0 .. Len(path) - 1 :
           /\ default[n + 1] = Child(default[n], path[n + 1])
           /\ over[n + 1] = Child(over[n], path[n + 1])
           /\ merged[n + 1] = Child(merged[n], path[n + 1])
  BY TrailSteps
<1> HIDE DEF default, over, merged
<1>2. 0 \in S
  BY <1>1, CutOffSteps DEF Laying
<1>3. ASSUME NEW n \in Nat, n < Len(path), n \in S PROVE n + 1 \in S
  <2>1. n \in 0 .. Len(path) - 1
    BY <1>1, <1>3
  <2>2. /\ default[n + 1] = Child(default[n], path[n + 1])
        /\ over[n + 1] = Child(over[n], path[n + 1])
        /\ merged[n + 1] = Child(merged[n], path[n + 1])
    BY <1>1, <2>1
  <2>3. Laying(default, over, merged, n)
    BY <1>3
  <2>4. Laying(default, over, merged, n + 1)
    BY <2>2, <2>3, LayingStep
  <2> QED
    BY <2>4
<1> HIDE DEF S
<1>4. \A n \in 0 .. Len(path) : n \in S
  BY <1>1, <1>2, <1>3, UpTo
<1> QED
  BY <1>4 DEF S, default, over, merged

\* So the loaded settings have, at a path, what OverridesWin says.
LEMMA MergedAt ==
  ASSUME NEW d \in Dicts, NEW o \in Dicts, NEW path \in Seq(STRING)
  PROVE  At(MergeTrees[<<d, o>>], path) =
           IF Trail(o, path)[Len(path)] # NotThere THEN At(o, path)
           ELSE IF \E n \in 0 .. Len(path) - 1 :
                     Trail(o, path)[n] # NotThere /\ ~IsDict(Trail(o, path)[n])
           THEN NotThere
           ELSE At(d, path)
<1> DEFINE n == Len(path)
           default == Trail(d, path)
           over == Trail(o, path)
           merged == Trail(MergeTrees[<<d, o>>], path)
<1>1. Len(path) \in 0 .. Len(path)
  BY TrailSteps
<1>2. Laying(default, over, merged, n)
  BY <1>1, MergeTrail
<1>3. \A a \in Dicts, b \in Dicts : IsDict(MergeTrees[<<a, b>>])
  BY ChildOfMerge
<1>4. over[n] \in Nodes => over[n] # NotThere
  BY NotThereIsNoNode
<1>5. Seen(NotThere) = NotThere
  BY NotThereIsNoNode DEF Seen
<1>6. Seen(merged[n]) = IF over[n] # NotThere THEN Seen(over[n])
                        ELSE IF CutOff(over, n) THEN NotThere ELSE Seen(default[n])
  <2> HIDE DEF n, default, over, merged
  <2> QED
    BY <1>2, <1>3, <1>4, <1>5, EmptyDict DEF Laying, Seen, Dicts
<1> QED
  BY <1>6 DEF At, CutOff
-----------------------------------------------------------------------------
\* --- filter_dataset: the recursion has a solution ----------------------------

LEMMA MaxIsOne ==
  ASSUME NEW n \in Nat, NEW S \in SUBSET (1 .. n), S # {}
  PROVE  Max(S) \in S
<1> DEFINE below == {n - x : x \in S}
<1>0. \A x \in S : x \in Int /\ x <= n /\ n - x \in Nat
  OBVIOUS
<1>1. below \in SUBSET Nat /\ below # {}
  BY <1>0
<1>2. PICK b \in below : \A m \in Nat : m < b => m \notin below
  BY <1>1, LeastNumber
<1>3. PICK x \in S : b = n - x
  BY <1>2
<1>4. \A y \in S : x >= y
  <2> SUFFICES ASSUME NEW y \in S, ~(x >= y) PROVE FALSE
    OBVIOUS
  <2>1. n - y \in Nat /\ n - y < b /\ n - y \in below
    BY <1>0, <1>3
  <2> QED
    BY <1>2, <2>1
<1> QED
  BY <1>3, <1>4 DEF Max

\* The list of keys, and the entry of a key in the dictionaries among them.
LEMMA KeyLists ==
  ASSUME NEW keys \in Nodes, IsList(keys) \/ IsText(keys), NEW k
  PROVE  DictsWith(KeyList(keys), k) # {} =>
           LET entry == KeyList(keys)[Max(DictsWith(KeyList(keys), k))].items[k]
           IN  /\ entry \in Nodes /\ entry = LastEntry(KeyList(keys), k)
               /\ k \in Wanted(KeyList(keys))
<1> DEFINE list == KeyList(keys)
           some == DictsWith(list, k)
<1> SUFFICES ASSUME some # {}
             PROVE  /\ list[Max(some)].items[k] \in Nodes
                    /\ k \in Wanted(list)
  BY DEF LastEntry
<1>1. ~IsText(keys)
  <2> SUFFICES ASSUME IsText(keys) PROVE FALSE
    OBVIOUS
  <2>1. list = <<Leaf("a letter")>>
    BY DEF KeyList
  <2> HIDE DEF list
  <2>2. DOMAIN list = 1 .. 1 /\ list[1] = Leaf("a letter")
    <3>1. \A x : DOMAIN <<x>> = 1 .. 1 /\ <<x>>[1] = x
      OBVIOUS
    <3> QED
      BY <2>1, <3>1, Zenon
  <2>3. ~IsDict(Leaf("a letter"))
    BY DEF Leaf, IsDict
  <2>4. \A i \in DOMAIN list : ~IsDict(list[i])
    <3>1. \A i \in 1 .. 1 : i = 1
      OBVIOUS
    <3> QED
      BY <2>2, <2>3, <3>1, Zenon
  <2>5. some = {}
    BY <2>4 DEF DictsWith
  <2> QED
    BY <2>5
<1>2. list \in Seq(Nodes)
  BY <1>1, Elements DEF KeyList
<1> HIDE DEF list
<1>3. some \in SUBSET (1 .. Len(list)) /\ Len(list) \in Nat
  BY <1>2 DEF DictsWith
<1>4. Max(some) \in some
  <2> HIDE DEF some
  <2> QED
    BY <1>3, MaxIsOne
<1>5. PICK i : i = Max(some)
  OBVIOUS
<1>6. i \in DOMAIN list /\ IsDict(list[i]) /\ k \in DOMAIN list[i].items /\ list[i] \in Nodes
  BY <1>2, <1>4, <1>5 DEF DictsWith
<1>7. list[i].items[k] \in Nodes
  BY <1>6, Entries
<1>8. list[i] \in ToSet(list)
  BY <1>6 DEF ToSet
<1> HIDE DEF some
<1> QED
  BY <1>5, <1>6, <1>7, <1>8 DEF Wanted

\* A report is filtered by filtering its entries, which are less deep.
LEMMA FilteredLocal ==
  ASSUME NEW f, NEW g, NEW t \in Nodes, NEW keys \in Nodes,
         \A p \in Nodes \X Nodes : Depth[p[1]] < Depth[t] => f[p] = g[p]
  PROVE  Filtered(f, t, keys) = Filtered(g, t, keys)
<1>1. ASSUME IsDict(t), NEW k \in DOMAIN t.items, NEW sub \in Nodes
      PROVE  f[<<t.items[k], sub>>] = g[<<t.items[k], sub>>]
  <2>1. t.items[k] \in Nodes /\ Depth[t.items[k]] < Depth[t]
    BY <1>1, Entries
  <2> DEFINE p == <<t.items[k], sub>>
  <2>2. p \in Nodes \X Nodes /\ p[1] = t.items[k]
    BY <2>1
  <2> QED
    BY <2>1, <2>2
<1>2. CASE IsDict(keys)
  <2>1. CASE IsDict(t)
    <3> DEFINE entry(m, k) == IF k \in DOMAIN keys.items
                              THEN m[<<t.items[k], keys.items[k]>>] ELSE t.items[k]
    <3>1. \A k \in DOMAIN t.items : entry(f, k) = entry(g, k)
      BY <1>1, <1>2, <2>1, Entries
    <3>2. \A m : FilterEach(m, t, keys) =
                   IF DOMAIN keys.items = {} THEN t
                   ELSE IF DOMAIN keys.items \subseteq DOMAIN t.items
                   THEN Whole([k \in DOMAIN t.items |-> entry(m, k)])
                   ELSE Error
      BY <2>1 DEF FilterEach
    <3> HIDE DEF entry
    <3>3. [k \in DOMAIN t.items |-> entry(f, k)] = [k \in DOMAIN t.items |-> entry(g, k)]
      BY <3>1
    <3>4. FilterEach(f, t, keys) = FilterEach(g, t, keys)
      BY <3>2, <3>3
    <3> QED
      BY <1>2, <3>4 DEF Filtered
  <2>2. CASE ~IsDict(t)
    BY <1>2, <2>2 DEF Filtered, FilterEach
  <2> QED
    BY <2>1, <2>2
<1>3. CASE ~IsDict(keys) /\ (IsList(keys) \/ IsText(keys))
  <2> DEFINE list == KeyList(keys)
  <2>1. CASE IsDict(t)
    <3> DEFINE entry(m, k) == IF DictsWith(list, k) # {}
                              THEN m[<<t.items[k], LastEntry(list, k)>>] ELSE t.items[k]
    <3>1. ASSUME NEW k \in Found(t, list) PROVE entry(f, k) = entry(g, k)
      <4>1. k \in DOMAIN t.items
        BY <2>1 DEF Found
      <4>2. DictsWith(list, k) # {} => LastEntry(list, k) \in Nodes
        BY <1>3, KeyLists
      <4> HIDE DEF list
      <4> QED
        BY <1>1, <2>1, <4>1, <4>2
    <3>2. \A m : FilterNamed(m, t, list) =
                   IF Wanted(list) = {} THEN Dict(<<>>)
                   ELSE Whole([k \in Found(t, list) |-> entry(m, k)])
      BY <2>1 DEF FilterNamed
    <3> HIDE DEF entry, list
    <3>3. [k \in Found(t, list) |-> entry(f, k)] = [k \in Found(t, list) |-> entry(g, k)]
      BY <3>1
    <3>4. FilterNamed(f, t, list) = FilterNamed(g, t, list)
      BY <3>2, <3>3
    <3> QED
      BY <1>3, <3>4 DEF Filtered, list
  <2>2. CASE ~IsDict(t)
    BY <1>3, <2>2 DEF Filtered, FilterNamed
  <2> QED
    BY <2>1, <2>2
<1>4. CASE ~IsDict(keys) /\ ~(IsList(keys) \/ IsText(keys))
  BY <1>4 DEF Filtered
<1> QED
  BY <1>2, <1>3, <1>4

\* A solution for the reports of less than a depth.
Flat(n) == {p \in Nodes \X Nodes : Depth[p[1]] < n}
FilterTo(g, n) == g = [p \in Flat(n) |-> Filtered(g, p[1], p[2])]

LEMMA FlatPairs ==
  ASSUME NEW p \in Nodes \X Nodes
  PROVE  p[1] \in Nodes /\ p[2] \in Nodes /\ Depth[p[1]] \in Nat
<1>1. p[1] \in Nodes /\ p[2] \in Nodes
  OBVIOUS
<1> QED
  BY <1>1, Kinds

LEMMA FilterUnique ==
  ASSUME NEW m \in Nat, NEW n \in Nat, NEW f, NEW g, FilterTo(f, m), FilterTo(g, n)
  PROVE  \A p \in Flat(m) \cap Flat(n) : f[p] = g[p]
<1> DEFINE differ == {k \in Nat : \E p \in Flat(m) \cap Flat(n) :
                                    Depth[p[1]] = k /\ f[p] # g[p]}
<1> SUFFICES ASSUME differ # {} PROVE FALSE
  <2>1. \A p \in Flat(m) \cap Flat(n) : Depth[p[1]] \in Nat
    BY FlatPairs DEF Flat
  <2> QED
    BY <2>1
<1>1. PICK k \in differ : \A j \in Nat : j < k => j \notin differ
  <2>1. differ \in SUBSET Nat
    OBVIOUS
  <2> HIDE DEF differ
  <2> QED
    BY <2>1, LeastNumber
<1>2. PICK p \in Flat(m) \cap Flat(n) : Depth[p[1]] = k /\ f[p] # g[p]
  BY <1>1
<1>3. p \in Nodes \X Nodes /\ k \in Nat /\ k < m /\ k < n
  BY <1>2 DEF Flat
<1>4. \A q \in Nodes \X Nodes : Depth[q[1]] < Depth[p[1]] => f[q] = g[q]
  <2> SUFFICES ASSUME NEW q \in Nodes \X Nodes, Depth[q[1]] < k PROVE f[q] = g[q]
    BY <1>2
  <2>1. Depth[q[1]] \in Nat
    BY FlatPairs
  <2>2. q \in Flat(m) \cap Flat(n)
    BY <1>3, <2>1 DEF Flat
  <2>3. Depth[q[1]] \notin differ
    BY <1>1, <2>1
  <2> QED
    BY <2>1, <2>2, <2>3
<1>5. Filtered(f, p[1], p[2]) = Filtered(g, p[1], p[2])
  BY <1>3, <1>4, FlatPairs, FilteredLocal
<1>6. f[p] = Filtered(f, p[1], p[2]) /\ g[p] = Filtered(g, p[1], p[2])
  <2> HIDE DEF differ
  <2> QED
    BY <1>2 DEF FilterTo
<1> QED
  BY <1>2, <1>5, <1>6

LEMMA FilterExists ==
  ASSUME NEW m \in Nat
  PROVE  \E g : FilterTo(g, m)
<1> DEFINE S == {n \in Nat : \E g : FilterTo(g, n)}
<1>1. 0 \in S
  <2>1. Flat(0) = {}
    BY FlatPairs DEF Flat
  <2>2. FilterTo([p \in Flat(0) |-> p], 0)
    BY <2>1 DEF FilterTo
  <2> QED
    BY <2>2
<1>2. ASSUME NEW n \in Nat, n \in S PROVE n + 1 \in S
  <2>1. PICK f : FilterTo(f, n)
    BY <1>2
  <2> DEFINE g == [p \in Flat(n + 1) |-> Filtered(f, p[1], p[2])]
  <2>2. \A p \in Flat(n + 1) : g[p] = Filtered(f, p[1], p[2])
    OBVIOUS
  <2>3. \A p \in Flat(n) : p \in Flat(n + 1) /\ f[p] = Filtered(f, p[1], p[2])
    <3>1. \A p \in Flat(n) : p \in Flat(n + 1)
      BY FlatPairs DEF Flat
    <3> QED
      BY <2>1, <3>1 DEF FilterTo
  <2>4. \A p \in Flat(n) : f[p] = g[p]
    <3> HIDE DEF g
    <3> QED
      BY <2>2, <2>3
  <2>5. ASSUME NEW p \in Flat(n + 1)
        PROVE  Filtered(f, p[1], p[2]) = Filtered(g, p[1], p[2])
    <3>1. p \in Nodes \X Nodes /\ Depth[p[1]] < n + 1
      BY DEF Flat
    <3>2. \A q \in Nodes \X Nodes : Depth[q[1]] < Depth[p[1]] => q \in Flat(n)
      BY <3>1, FlatPairs DEF Flat
    <3>3. p[1] \in Nodes /\ p[2] \in Nodes
      BY <3>1, FlatPairs
    <3> HIDE DEF g
    <3> QED
      BY <2>4, <3>2, <3>3, FilteredLocal
  <2>6. g = [p \in Flat(n + 1) |-> g[p]]
    OBVIOUS
  <2>7. FilterTo(g, n + 1)
    <3> HIDE DEF g
    <3> QED
      BY <2>2, <2>5, <2>6 DEF FilterTo
  <2> QED
    BY <2>7
<1> HIDE DEF S
<1>3. m \in S
  BY <1>1, <1>2, UpTo
<1> QED
  BY <1>3 DEF S

LEMMA FilterUnfolds ==
  ASSUME NEW t \in Nodes, NEW keys \in Nodes
  PROVE  Filter[<<t, keys>>] = Filtered(Filter, t, keys)
<1> DEFINE part(p) == CHOOSE g : FilterTo(g, Depth[p[1]] + 1)
           F == [p \in Nodes \X Nodes |-> part(p)[p]]
<1>1. \A p \in Nodes \X Nodes : FilterTo(part(p), Depth[p[1]] + 1)
  BY FilterExists, FlatPairs
<1>2. \A p \in Nodes \X Nodes : F[p] = part(p)[p]
  OBVIOUS
<1>3. F = [p \in Nodes \X Nodes |-> F[p]]
  OBVIOUS
<1> HIDE DEF part, F
<1>4. ASSUME NEW p \in Nodes \X Nodes
      PROVE  F[p] = Filtered(F, p[1], p[2])
  <2>1. p[1] \in Nodes /\ p[2] \in Nodes /\ Depth[p[1]] \in Nat
    BY FlatPairs
  <2>2. part(p)[p] = Filtered(part(p), p[1], p[2])
    <3>1. p \in Flat(Depth[p[1]] + 1)
      BY <2>1 DEF Flat
    <3> QED
      BY <1>1, <3>1 DEF FilterTo
  <2>3. ASSUME NEW q \in Nodes \X Nodes, Depth[q[1]] < Depth[p[1]]
        PROVE  part(p)[q] = F[q]
    <3>1. Depth[q[1]] \in Nat
      BY FlatPairs
    <3>2. q \in Flat(Depth[q[1]] + 1) \cap Flat(Depth[p[1]] + 1)
      BY <2>1, <2>3, <3>1 DEF Flat
    <3>3. /\ FilterTo(part(p), Depth[p[1]] + 1) /\ FilterTo(part(q), Depth[q[1]] + 1)
          /\ Depth[p[1]] + 1 \in Nat /\ Depth[q[1]] + 1 \in Nat
      BY <1>1, <2>1, <3>1
    <3>4. part(p)[q] = part(q)[q]
      BY <3>2, <3>3, FilterUnique
    <3> QED
      BY <1>2, <3>4
  <2>4. Filtered(part(p), p[1], p[2]) = Filtered(F, p[1], p[2])
    BY <2>1, <2>3, FilteredLocal
  <2> QED
    BY <1>2, <2>2, <2>4
<1>5. F = [p \in Nodes \X Nodes |-> Filtered(F, p[1], p[2])]
  BY <1>3, <1>4
<1>6. Filter = [p \in Nodes \X Nodes |-> Filtered(Filter, p[1], p[2])]
  BY <1>5 DEF Filter
<1>7. <<t, keys>> \in Nodes \X Nodes /\ <<t, keys>>[1] = t /\ <<t, keys>>[2] = keys
  OBVIOUS
<1> QED
  BY <1>6, <1>7
-----------------------------------------------------------------------------
\* --- what filter_dataset leaves of a path ------------------------------------

LEMMA Tags ==
  /\ Everything # Nothing /\ Everything \notin Nodes /\ Nothing \notin Nodes
  /\ Error \notin Nodes /\ Error # Dict(<<>>) /\ Error # NotThere
  /\ ~IsDict(Error) /\ IsDict(Dict(<<>>)) /\ \A k : Child(Dict(<<>>), k) = NotThere
<1>1. /\ Everything.kind = "everything" /\ Nothing.kind = "nothing" /\ Error.kind = "error"
      /\ NotThere.kind = "not there" /\ Dict(<<>>).kind = "dict"
  BY DEF Everything, Nothing, Error, NotThere, Dict
<1> QED
  BY <1>1, Kinds, EmptyDict DEF IsDict, Child

\* A filtered dictionary and its entries, unless it is an error.
LEMMA WholeEntries ==
  ASSUME NEW entries, Whole(entries) # Error
  PROVE  /\ IsDict(Whole(entries))
         /\ \A k \in DOMAIN entries : entries[k] # Error
         /\ \A k : Child(Whole(entries), k) = IF k \in DOMAIN entries THEN entries[k] ELSE NotThere
<1>1. Whole(entries) = Dict(entries) /\ \A k \in DOMAIN entries : entries[k] # Error
  BY DEF Whole
<1>2. Dict(entries).kind = "dict" /\ Dict(entries).items = entries
  BY DEF Dict
<1> QED
  BY <1>1, <1>2 DEF IsDict, Child

\* What is left of a node and what the keys say of it: they go on to be applied,
\* let all of it through, or nothing, or there is nothing.
Keeping(t, keys, left) ==
  \/ t \in Nodes /\ keys \in Nodes /\ left = Filter[<<t, keys>>] /\ left # Error
  \/ keys = Everything /\ left = t /\ t \in Nodes \cup {NotThere}
  \/ keys = Nothing /\ left = NotThere
  \/ left = NotThere /\ t = NotThere

LEMMA ChildOfFilter ==
  ASSUME NEW t \in Nodes, NEW keys \in Nodes, NEW k, Filter[<<t, keys>>] # Error
  PROVE  /\ IF IsDict(t) THEN IsDict(Filter[<<t, keys>>])
            ELSE Filter[<<t, keys>>] \in {t, Dict(<<>>)}
         /\ Keeping(Child(t, k), Narrowed(keys, k), Child(Filter[<<t, keys>>], k))
<1> DEFINE f == Filter[<<t, keys>>]
           a == Child(t, k)
           n == Narrowed(keys, k)
           c == Child(f, k)
<1>1. f = Filtered(Filter, t, keys)
  BY FilterUnfolds
<1>2. keys \notin {Everything, Nothing}
  BY Tags
<1>3. IF IsDict(t) /\ k \in DOMAIN t.items THEN a = t.items[k] /\ a \in Nodes
                                           ELSE a = NotThere
  BY ChildOfNode
<1>4. CASE IsDict(keys)
  <2>1. f = FilterEach(Filter, t, keys)
    BY <1>1, <1>4 DEF Filtered
  <2>2. n = IF k \in DOMAIN keys.items THEN keys.items[k] ELSE Everything
    BY <1>2, <1>4 DEF Narrowed
  <2>3. CASE DOMAIN keys.items = {}
    <3>1. f = t /\ n = Everything
      BY <2>1, <2>2, <2>3 DEF FilterEach
    <3> QED
      BY <1>3, <3>1 DEF Keeping
  <2>4. CASE DOMAIN keys.items # {}
    <3> DEFINE entries == [i \in DOMAIN t.items |->
                             IF i \in DOMAIN keys.items THEN Filter[<<t.items[i], keys.items[i]>>]
                                                        ELSE t.items[i]]
    <3>1. IsDict(t) /\ f = Whole(entries)
      BY <2>1, <2>4 DEF FilterEach
    <3>2. /\ DOMAIN entries = DOMAIN t.items
          /\ \A i \in DOMAIN t.items :
               entries[i] = IF i \in DOMAIN keys.items THEN Filter[<<t.items[i], keys.items[i]>>]
                                                       ELSE t.items[i]
      OBVIOUS
    <3> HIDE DEF entries, f
    <3>3. f # Error
      BY DEF f
    <3>4. /\ IsDict(f) /\ \A i \in DOMAIN entries : entries[i] # Error
          /\ c = IF k \in DOMAIN entries THEN entries[k] ELSE NotThere
      BY <3>1, <3>3, WholeEntries
    <3>5. CASE k \notin DOMAIN t.items
      BY <1>3, <3>1, <3>2, <3>4, <3>5 DEF Keeping, f
    <3>6. CASE k \in DOMAIN t.items /\ k \in DOMAIN keys.items
      <4>1. keys.items[k] \in Nodes
        BY <1>4, <3>6, Entries
      <4>2. /\ a \in Nodes /\ n \in Nodes /\ c = Filter[<<a, n>>] /\ c # Error
        BY <1>3, <2>2, <3>1, <3>2, <3>4, <3>6, <4>1
      <4> QED
        BY <3>1, <3>4, <4>2 DEF Keeping, f
    <3>7. CASE k \in DOMAIN t.items /\ k \notin DOMAIN keys.items
      <4>1. n = Everything /\ c = a /\ a \in Nodes
        BY <1>3, <2>2, <3>1, <3>2, <3>4, <3>7
      <4> QED
        BY <3>1, <3>4, <4>1 DEF Keeping, f
    <3> QED
      BY <3>5, <3>6, <3>7
  <2> QED
    BY <2>3, <2>4
<1>5. CASE ~IsDict(keys) /\ (IsList(keys) \/ IsText(keys))
  <2> DEFINE list == KeyList(keys)
  <2>1. f = FilterNamed(Filter, t, list)
    BY <1>1, <1>5 DEF Filtered
  <2>2. n = IF k \notin Wanted(list) THEN Nothing
            ELSE IF DictsWith(list, k) = {} THEN Everything
            ELSE list[Max(DictsWith(list, k))].items[k]
    BY <1>2, <1>5 DEF Narrowed
  <2>3. DictsWith(list, k) # {} =>
          /\ list[Max(DictsWith(list, k))].items[k] \in Nodes
          /\ list[Max(DictsWith(list, k))].items[k] = LastEntry(list, k)
          /\ k \in Wanted(list)
    BY <1>5, KeyLists
  <2> HIDE DEF list
  <2>4. CASE Wanted(list) = {}
    <3>1. f = Dict(<<>>) /\ n = Nothing
      BY <2>1, <2>2, <2>4 DEF FilterNamed
    <3> HIDE DEF f
    <3> QED
      BY <3>1, Tags DEF Keeping, f
  <2>5. CASE Wanted(list) # {} /\ ~IsDict(t)
    <3>1. f = Dict(<<>>)
      BY <2>1, <2>5 DEF FilterNamed
    <3> HIDE DEF f
    <3> QED
      BY <1>3, <2>5, <3>1, Tags DEF Keeping, f
  <2>6. CASE Wanted(list) # {} /\ IsDict(t)
    <3> DEFINE entries == [i \in Found(t, list) |->
                             IF DictsWith(list, i) # {} THEN Filter[<<t.items[i], LastEntry(list, i)>>]
                                                        ELSE t.items[i]]
    <3>1. f = Whole(entries)
      BY <2>1, <2>6 DEF FilterNamed
    <3>2. /\ DOMAIN entries = Found(t, list)
          /\ \A i \in Found(t, list) :
               entries[i] = IF DictsWith(list, i) # {} THEN Filter[<<t.items[i], LastEntry(list, i)>>]
                                                       ELSE t.items[i]
      OBVIOUS
    <3> HIDE DEF entries, f
    <3>3. f # Error
      BY DEF f
    <3>4. /\ IsDict(f) /\ \A i \in DOMAIN entries : entries[i] # Error
          /\ c = IF k \in DOMAIN entries THEN entries[k] ELSE NotThere
      BY <3>1, <3>3, WholeEntries
    <3>5. k \in Found(t, list) <=> k \in Wanted(list) /\ k \in DOMAIN t.items
      BY <2>6 DEF Found
    <3>6. CASE k \notin Found(t, list)
      <4>1. c = NotThere /\ (n = Nothing \/ a = NotThere)
        BY <1>3, <2>2, <3>2, <3>4, <3>5, <3>6
      <4> QED
        BY <2>6, <3>4, <4>1 DEF Keeping, f
    <3>7. CASE k \in Found(t, list) /\ DictsWith(list, k) # {}
      <4>1. a \in Nodes /\ n \in Nodes /\ c = Filter[<<a, n>>] /\ c # Error
        BY <1>3, <2>2, <2>3, <2>6, <3>2, <3>4, <3>5, <3>7
      <4> QED
        BY <2>6, <3>4, <4>1 DEF Keeping, f
    <3>8. CASE k \in Found(t, list) /\ DictsWith(list, k) = {}
      <4>1. n = Everything /\ c = a /\ a \in Nodes
        BY <1>3, <2>2, <2>6, <3>2, <3>4, <3>5, <3>8
      <4> QED
        BY <2>6, <3>4, <4>1 DEF Keeping, f
    <3> QED
      BY <3>6, <3>7, <3>8
  <2> QED
    BY <2>4, <2>5, <2>6
<1>6. CASE ~IsDict(keys) /\ ~(IsList(keys) \/ IsText(keys))
  BY <1>1, <1>6 DEF Filtered
<1> QED
  BY <1>4, <1>5, <1>6

LEMMA KeepingStep ==
  ASSUME NEW t, NEW keys, NEW left, NEW k, Keeping(t, keys, left)
  PROVE  Keeping(Child(t, k), Narrowed(keys, k), Child(left, k))
<1>1. CASE t \in Nodes /\ keys \in Nodes /\ left = Filter[<<t, keys>>] /\ left # Error
  BY <1>1, ChildOfFilter
<1>2. CASE keys = Everything /\ left = t /\ t \in Nodes \cup {NotThere}
  <2>1. Narrowed(keys, k) = Everything /\ Child(left, k) = Child(t, k)
    BY <1>2 DEF Narrowed
  <2>2. Child(t, k) \in Nodes \cup {NotThere}
    BY <1>2, ChildOfNode, NotThereIsNoNode
  <2> QED
    BY <2>1, <2>2 DEF Keeping
<1>3. CASE keys = Nothing /\ left = NotThere
  <2>1. Narrowed(keys, k) = Nothing /\ Child(left, k) = NotThere
    BY <1>3, NotThereIsNoNode DEF Narrowed
  <2> QED
    BY <2>1 DEF Keeping
<1>4. CASE left = NotThere /\ t = NotThere
  BY <1>4, NotThereIsNoNode DEF Keeping
<1> QED
  BY <1>1, <1>2, <1>3, <1>4 DEF Keeping

LEMMA FilterTrail ==
  ASSUME NEW t \in Nodes, NEW keys \in Nodes, NEW path \in Seq(STRING),
         Filter[<<t, keys>>] # Error
  PROVE  \A n \in 0 .. Len(path) :
           Keeping(Trail(t, path)[n], KeyTrail(keys, path)[n],
                   Trail(Filter[<<t, keys>>], path)[n])
<1> DEFINE from == Trail(t, path)
           by == KeyTrail(keys, path)
           left == Trail(Filter[<<t, keys>>], path)
           S == {n \in Nat : Keeping(from[n], by[n], left[n])}
<1>1. /\ Len(path) \in Nat
      /\ from[0] = t /\ by[0] = keys /\ left[0] = Filter[<<t, keys>>]
      /\ \A n \in 0 .. Len(path) - 1 :
           /\ from[n + 1] = Child(from[n], path[n + 1])
           /\ by[n + 1] = Narrowed(by[n], path[n + 1])
           /\ left[n + 1] = Child(left[n], path[n + 1])
  BY TrailSteps, KeyTrailSteps
<1> HIDE DEF from, by, left
<1>2. 0 \in S
  BY <1>1 DEF Keeping
<1>3. ASSUME NEW n \in Nat, n < Len(path), n \in S PROVE n + 1 \in S
  <2>1. n \in 0 .. Len(path) - 1
    BY <1>1, <1>3
  <2>2. /\ from[n + 1] = Child(from[n], path[n + 1])
        /\ by[n + 1] = Narrowed(by[n], path[n + 1])
        /\ left[n + 1] = Child(left[n], path[n + 1])
    BY <1>1, <2>1
  <2>3. Keeping(from[n], by[n], left[n])
    BY <1>3
  <2>4. Keeping(from[n + 1], by[n + 1], left[n + 1])
    BY <2>2, <2>3, KeepingStep
  <2> QED
    BY <2>4
<1> HIDE DEF S
<1>4. \A n \in 0 .. Len(path) : n \in S
  BY <1>1, <1>2, <1>3, UpTo
<1> QED
  BY <1>4 DEF S, from, by, left

\* So a filtered report has, at a path, what FilterKeepsFields says.
LEMMA FilteredAt ==
  ASSUME NEW t \in Nodes, NEW keys \in Nodes, NEW path \in Seq(STRING),
         Filter[<<t, keys>>] # Error
  PROVE  IF ~Passes(keys, path) THEN At(Filter[<<t, keys>>], path) = NotThere
         ELSE \/ At(Filter[<<t, keys>>], path) = At(t, path)
              \/ /\ At(t, path).kind \in {"leaf", "list"}
                 /\ Trail(Filter[<<t, keys>>], path)[Len(path)] = Dict(<<>>)
<1> DEFINE n == Len(path)
           from == Trail(t, path)
           by == KeyTrail(keys, path)
           left == Trail(Filter[<<t, keys>>], path)
<1>1. Len(path) \in 0 .. Len(path)
  BY TrailSteps
<1>2. Keeping(from[n], by[n], left[n])
  BY <1>1, FilterTrail
<1>3. Seen(NotThere) = NotThere
  BY NotThereIsNoNode DEF Seen
<1>4. ASSUME from[n] \in Nodes, by[n] \in Nodes, left[n] = Filter[<<from[n], by[n]>>],
             left[n] # Error
      PROVE  \/ Seen(left[n]) = Seen(from[n])
             \/ Seen(from[n]).kind \in {"leaf", "list"} /\ left[n] = Dict(<<>>)
  <2>1. IF IsDict(from[n]) THEN IsDict(left[n]) ELSE left[n] \in {from[n], Dict(<<>>)}
    BY <1>4, ChildOfFilter
  <2>2. ~IsDict(from[n]) => Seen(from[n]).kind \in {"leaf", "list"}
    BY <1>4, Kinds DEF Seen, IsDict
  <2> QED
    BY <2>1, <2>2 DEF Seen
<1>5. IF by[n] = Nothing THEN Seen(left[n]) = NotThere
      ELSE \/ Seen(left[n]) = Seen(from[n])
           \/ Seen(from[n]).kind \in {"leaf", "list"} /\ left[n] = Dict(<<>>)
  <2> HIDE DEF n, from, by, left
  <2> QED
    BY <1>2, <1>3, <1>4, Tags DEF Keeping
<1> QED
  BY <1>5 DEF At, Passes
-----------------------------------------------------------------------------
\* --- what process converts ----------------------------------------------------

\* The parts of merged settings are nodes or merged themselves, and well-formed.
IsMerged(t) == \E a \in Dicts, b \in Dicts : t = MergeTrees[<<a, b>>]
IsFormed(t) == IsDict(t) /\ t = Dict([i \in DOMAIN t.items |-> t.items[i]])

LEMMA PartsOfMerge ==
  ASSUME NEW d \in Dicts, NEW o \in Dicts, NEW k
  PROVE  /\ IsFormed(MergeTrees[<<d, o>>])
         /\ \/ Child(MergeTrees[<<d, o>>], k) \in Nodes \cup {NotThere}
            \/ IsMerged(Child(MergeTrees[<<d, o>>], k))
<1> DEFINE m == MergeTrees[<<d, o>>]
<1>1. IsFormed(m)
  <2> DEFINE entries ==
               [i \in DOMAIN d.items \cup DOMAIN o.items |->
                  IF i \notin DOMAIN o.items THEN d.items[i]
                  ELSE IF Descends(Default(d, i), o.items[i])
                  THEN MergeTrees[<<Default(d, i), o.items[i]>>]
                  ELSE o.items[i]]
  <2>1. m = Dict(entries)
    BY MergeUnfolds DEF Laid
  <2>2. entries = [i \in DOMAIN entries |-> entries[i]]
    OBVIOUS
  <2> HIDE DEF m, entries
  <2>3. m.items = entries
    BY <2>1 DEF Dict
  <2>4. IsDict(m)
    BY <2>1 DEF Dict, IsDict
  <2> QED
    BY <2>1, <2>2, <2>3, <2>4 DEF IsFormed
<1>2. /\ Child(d, k) = NotThere \/ Child(d, k) \in Nodes
      /\ Child(o, k) = NotThere \/ Child(o, k) \in Nodes
  BY ChildOfNode DEF Dicts
<1>3. Child(m, k) \in Nodes \cup {NotThere} \/ IsMerged(Child(m, k))
  <2>1. Dict(<<>>) \in Dicts
    BY EmptyDict
  <2>2. \/ Child(m, k) \in {Child(d, k), Child(o, k)}
        \/ IsDict(Child(o, k)) /\ Child(m, k) = MergeTrees[<<Dict(<<>>), Child(o, k)>>]
        \/ /\ IsDict(Child(o, k)) /\ IsDict(Child(d, k))
           /\ Child(m, k) = MergeTrees[<<Child(d, k), Child(o, k)>>]
    BY ChildOfMerge
  <2> HIDE DEF m
  <2> QED
    BY <1>2, <2>1, <2>2, NotThereIsNoNode DEF Dicts, IsMerged
<1> QED
  BY <1>1, <1>3

LEMMA MergedIsNoList ==
  ASSUME NEW t, IsMerged(t)
  PROVE  IsFormed(t) /\ ~IsList(t)
<1>1. IsFormed(t)
  BY PartsOfMerge DEF IsMerged
<1> QED
  BY <1>1 DEF IsFormed, IsDict, IsList

LEMMA ServersOfMerge ==
  ASSUME NEW d \in Dicts, NEW o \in Dicts
  PROVE  /\ IsDict(Child(MergeTrees[<<d, o>>], "memcached")) =>
              IsFormed(Child(MergeTrees[<<d, o>>], "memcached"))
         /\ IsList(ServersIn(MergeTrees[<<d, o>>])) => ServersIn(MergeTrees[<<d, o>>]) \in Nodes
<1> DEFINE m == MergeTrees[<<d, o>>]
           memcached == Child(m, "memcached")
<1>1. memcached \in Nodes \cup {NotThere} \/ IsMerged(memcached)
  BY PartsOfMerge
<1>2. ~IsList(NotThere)
  BY DEF NotThere, IsList
<1>3. ServersIn(m) = Child(memcached, "servers")
  BY DEF ServersIn
<1> HIDE DEF m, memcached
<1>4. CASE memcached \in Nodes
  <2>1. IsDict(memcached) => IsFormed(memcached)
    BY <1>4, Entries DEF IsFormed
  <2>2. ServersIn(m) \in Nodes \cup {NotThere}
    BY <1>3, <1>4, ChildOfNode
  <2> QED
    BY <1>2, <2>1, <2>2 DEF m, memcached
<1>5. CASE memcached = NotThere
  BY <1>2, <1>3, <1>5, NotThereIsNoNode DEF m, memcached
<1>6. CASE IsMerged(memcached)
  <2>1. PICK a \in Dicts, b \in Dicts : memcached = MergeTrees[<<a, b>>]
    BY <1>6 DEF IsMerged
  <2>2. ServersIn(m) \in Nodes \cup {NotThere} \/ IsMerged(ServersIn(m))
    BY <1>3, <2>1, PartsOfMerge
  <2> QED
    BY <1>2, <1>6, <2>2, MergedIsNoList DEF m, memcached
<1> QED
  BY <1>1, <1>4, <1>5, <1>6

\* Setting an entry of an entry.
IsEntry(t, k, j) ==
  /\ IsFormed(t) /\ k \in DOMAIN t.items
  /\ IsFormed(t.items[k]) /\ j \in DOMAIN t.items[k].items
OnlyEntrySet(w, t, k, j, x) ==
  /\ IsDict(w) /\ IsDict(Child(w, k)) /\ IsDict(Child(t, k))
  /\ \A i : i # k => Child(w, i) = Child(t, i)
  /\ \A i : i # j => Child(Child(w, k), i) = Child(Child(t, k), i)
  /\ Child(Child(w, k), j) = x

LEMMA EntrySet ==
  ASSUME NEW t, NEW k, NEW j, NEW x, IsEntry(t, k, j)
  PROVE  OnlyEntrySet([t EXCEPT !.items[k].items[j] = x], t, k, j, x)
<1> DEFINE u == [t EXCEPT !.items[k].items[j] = x]
           e == t.items[k]
           v == [e EXCEPT !.items[j] = x]
<1>1. PICK items : items = t.items
  OBVIOUS
<1>2. PICK within : within = e.items
  OBVIOUS
<1>3. t = [kind |-> "dict", items |-> items] /\ items = [i \in DOMAIN items |-> items[i]]
  BY <1>1 DEF Dict, IsFormed, IsEntry
<1>4. e = [kind |-> "dict", items |-> within] /\ within = [i \in DOMAIN within |-> within[i]]
  BY <1>2 DEF Dict, IsFormed, IsEntry
<1>5. j \in DOMAIN within /\ k \in DOMAIN items
  BY <1>1, <1>2 DEF IsEntry
<1>6. v = [kind |-> "dict", items |-> [within EXCEPT ![j] = x]]
  <2> HIDE DEF e
  <2> QED
    BY <1>4
<1>7. u = [kind |-> "dict", items |-> [items EXCEPT ![k] = v]]
  <2>1. u = [t EXCEPT !.items = [t.items EXCEPT ![k] = v]]
    BY <1>1, <1>2 DEF u, v, e
  <2> HIDE DEF u, v, e
  <2> QED
    BY <1>1, <1>3, <2>1
<1>8. /\ v.kind = "dict" /\ DOMAIN v.items = DOMAIN within /\ v.items[j] = x
      /\ \A i \in DOMAIN within : i # j => v.items[i] = within[i]
  <2> HIDE DEF v, e
  <2> QED
    BY <1>2, <1>4, <1>6, <1>5 DEF e
<1>9. /\ u.kind = "dict" /\ DOMAIN u.items = DOMAIN items /\ u.items[k] = v
      /\ \A i \in DOMAIN items : i # k => u.items[i] = items[i]
  <2> HIDE DEF u, v, e
  <2> QED
    BY <1>1, <1>3, <1>7, <1>5
<1>10. t.kind = "dict" /\ e.kind = "dict" /\ j \in DOMAIN within /\ k \in DOMAIN items
  BY <1>3, <1>4, <1>5
<1>11. Child(u, k) = v /\ Child(t, k) = e
  <2> HIDE DEF u, v
  <2> QED
    BY <1>1, <1>9, <1>10 DEF Child, IsDict
<1>12. /\ \A i : i # k => Child(u, i) = Child(t, i)
       /\ \A i : i # j => Child(v, i) = Child(e, i)
       /\ Child(v, j) = x
  <2> HIDE DEF u, v, e
  <2> QED
    BY <1>1, <1>2, <1>8, <1>9, <1>10 DEF Child, IsDict
<1> QED
  BY <1>8, <1>9, <1>10, <1>11, <1>12 DEF IsDict, OnlyEntrySet

\* The settings processed are those loaded, but for the servers.
LEMMA ProcessedParts ==
  ASSUME NEW d \in Dicts, NEW o \in Dicts
  PROVE  LET m == MergeTrees[<<d, o>>]
             p == Processed(m)
         IN  /\ IsDict(m) /\ IsDict(p)
             /\ \A k : k # "memcached" => Child(p, k) = Child(m, k)
             /\ \/ p = m
                \/ /\ IsDict(Child(p, "memcached")) /\ IsDict(Child(m, "memcached"))
                   /\ \A k : k # "servers" =>
                        Child(Child(p, "memcached"), k) = Child(Child(m, "memcached"), k)
             /\ ServersIn(p) = IF IsIgnored(ServersIn(m)) THEN ServersIn(m)
                               ELSE Converted(ServersIn(m))
<1> DEFINE m == MergeTrees[<<d, o>>]
           memcached == Child(m, "memcached")
           p == Processed(m)
<1>1. IsFormed(m) /\ IsDict(m)
  BY PartsOfMerge DEF IsFormed
<1>2. IsDict(memcached) => IsFormed(memcached)
  BY ServersOfMerge
<1> HIDE DEF m
<1>3. CASE IsIgnored(ServersIn(m))
  BY <1>1, <1>3 DEF Processed, m
<1>4. CASE ~IsIgnored(ServersIn(m))
  <2>1. ServersIn(m) # NotThere /\ ServersIn(m) = Child(memcached, "servers")
    BY <1>4 DEF IsIgnored, ServersIn
  <2>2. IsDict(memcached) /\ "servers" \in DOMAIN memcached.items
    BY <2>1 DEF Child
  <2>3. "memcached" \in DOMAIN m.items /\ memcached = m.items["memcached"]
    BY <2>2, NotThereIsNoNode DEF Child
  <2>4. p = [m EXCEPT !.items["memcached"].items["servers"] = Converted(ServersIn(m))]
    BY <1>4 DEF Processed
  <2>5. OnlyEntrySet(p, m, "memcached", "servers", Converted(ServersIn(m)))
    <3>1. IsEntry(m, "memcached", "servers")
      BY <1>1, <1>2, <2>2, <2>3 DEF IsEntry
    <3>2. OnlyEntrySet([m EXCEPT !.items["memcached"].items["servers"] = Converted(ServersIn(m))],
                       m, "memcached", "servers", Converted(ServersIn(m)))
      BY <3>1, EntrySet
    <3> HIDE DEF p
    <3> QED
      BY <2>4, <3>2, Zenon
  <2>6. ServersIn(p) = Converted(ServersIn(m))
    BY <2>5 DEF ServersIn, OnlyEntrySet
  <2> QED
    BY <1>1, <1>4, <2>5, <2>6 DEF m, OnlyEntrySet
<1> QED
  BY <1>3, <1>4

\* So every path but those of the servers leads to what it led to before.
LEMMA ConvertedAt ==
  ASSUME NEW d \in Dicts, NEW o \in Dicts, NEW path \in Seq(STRING),
         Len(path) < 2 \/ path[1] # "memcached" \/ path[2] # "servers"
  PROVE  At(Processed(MergeTrees[<<d, o>>]), path) = At(MergeTrees[<<d, o>>], path)
<1> DEFINE m == MergeTrees[<<d, o>>]
           p == Processed(m)
           before == Trail(m, path)
           after == Trail(p, path)
           S == {n \in Nat : \/ n = 0
                             \/ n = 1 /\ path[1] = "memcached"
                             \/ after[n] = before[n]}
<1>1. /\ IsDict(m) /\ IsDict(p)
      /\ \A k : k # "memcached" => Child(p, k) = Child(m, k)
      /\ \/ p = m
         \/ /\ IsDict(Child(p, "memcached")) /\ IsDict(Child(m, "memcached"))
            /\ \A k : k # "servers" =>
                 Child(Child(p, "memcached"), k) = Child(Child(m, "memcached"), k)
  BY ProcessedParts
<1> HIDE DEF m, p
<1>2. /\ Len(path) \in Nat
      /\ before[0] = m /\ after[0] = p
      /\ \A n \in 0 .. Len(path) - 1 :
           /\ before[n + 1] = Child(before[n], path[n + 1])
           /\ after[n + 1] = Child(after[n], path[n + 1])
  BY TrailSteps
<1> HIDE DEF before, after
<1>3. CASE p = m
  BY <1>3 DEF m, p
<1>4. CASE p # m
  <2>1. 0 \in S
    OBVIOUS
  <2>2. ASSUME NEW n \in Nat, n < Len(path), n \in S PROVE n + 1 \in S
    <3>1. n \in 0 .. Len(path) - 1
      BY <1>2, <2>2
    <3>2. before[n + 1] = Child(before[n], path[n + 1]) /\ after[n + 1] = Child(after[n], path[n + 1])
      BY <1>2, <3>1
    <3>3. CASE n = 0
      <4>1. after[1] = Child(p, path[1]) /\ before[1] = Child(m, path[1])
        BY <1>2, <3>2, <3>3
      <4> QED
        BY <1>1, <3>3, <4>1
    <3>4. CASE n = 1 /\ path[1] = "memcached"
      <4>1. path[2] # "servers" /\ 0 \in 0 .. Len(path) - 1
        BY <1>2, <2>2, <3>4
      <4>2. before[1] = Child(m, "memcached") /\ after[1] = Child(p, "memcached")
        <5>1. before[0 + 1] = Child(before[0], path[0 + 1]) /\ after[0 + 1] = Child(after[0], path[0 + 1])
          BY <1>2, <4>1
        <5> QED
          BY <1>2, <3>4, <5>1
      <4>3. after[2] = before[2]
        BY <1>1, <1>4, <3>2, <3>4, <4>1, <4>2
      <4> QED
        BY <3>4, <4>3
    <3>5. CASE after[n] = before[n]
      BY <3>2, <3>5
    <3> QED
      BY <2>2, <3>3, <3>4, <3>5
  <2> HIDE DEF S
  <2>3. Len(path) \in S
    <3>1. Len(path) \in 0 .. Len(path)
      BY <1>2
    <3> QED
      BY <1>2, <2>1, <2>2, <3>1, UpTo
  <2>4. At(p, path) = Seen(after[Len(path)]) /\ At(m, path) = Seen(before[Len(path)])
    BY DEF At, before, after
  <2>5. Len(path) = 0 => At(p, path) = At(m, path)
    BY <1>1, <1>2, <2>4 DEF Seen
  <2>6. ASSUME Len(path) = 1, path[1] = "memcached"
        PROVE  At(p, path) = At(m, path)
    <3>1. 0 \in 0 .. Len(path) - 1
      BY <2>6
    <3>2. before[0 + 1] = Child(before[0], path[0 + 1]) /\ after[0 + 1] = Child(after[0], path[0 + 1])
      BY <1>2, <3>1
    <3>3. before[1] = Child(m, "memcached") /\ after[1] = Child(p, "memcached")
      BY <1>2, <2>6, <3>2
    <3> QED
      BY <1>1, <1>4, <2>6, <2>4, <3>3 DEF Seen
  <2>7. Len(path) = 0 \/ (Len(path) = 1 /\ path[1] = "memcached")
          \/ after[Len(path)] = before[Len(path)]
    BY <2>3 DEF S
  <2>8. At(p, path) = At(m, path)
    BY <2>5, <2>6, <2>7, <2>4
  <2> QED
    BY <2>8 DEF m, p
<1> QED
  BY <1>3, <1>4

\* And the servers are pairs of a host and a port.
LEMMA ConvertedServers ==
  ASSUME NEW servers \in Nodes, IsList(servers), IsConvertible(servers)
  PROVE  LET given == servers.elements
             nodes == Converted(servers).elements
         IN  /\ Len(nodes) = Len(given)
             /\ \A i \in DOMAIN given :
                  LET text == given[i].value
                  IN  nodes[i] = IF text \in DOMAIN HostPort /\ HostPort[text].port = "number"
                                 THEN Pair(HostPort[text].host, "number")
                                 ELSE Pair(text, "default")
<1> DEFINE given == servers.elements
           nodes == Converted(servers).elements
<1>1. ~IsDict(servers) /\ ~IsText(servers) /\ ~IsIgnored(servers)
  <2>1. servers.kind = "list"
    BY DEF IsList
  <2>2. NotThere.kind = "not there" /\ None.kind = "leaf" /\ Number.kind = "leaf"
    BY DEF NotThere, None, Number, Leaf
  <2> QED
    BY <2>1, <2>2 DEF IsDict, IsText, IsIgnored
<1>2. given \in Seq(Nodes)
  BY Elements
<1>3. nodes = [i \in DOMAIN given |-> SplitPort(given[i].value)]
  BY <1>1 DEF Converted, List
<1> HIDE DEF nodes, given
<1>4. Len(nodes) = Len(given)
  <2>1. DOMAIN given = 1 .. Len(given) /\ Len(given) \in Nat
    BY <1>2
  <2>2. nodes \in Seq({SplitPort(given[i].value) : i \in DOMAIN given}) /\ DOMAIN nodes = 1 .. Len(given)
    BY <1>3, <2>1
  <2> QED
    BY <2>1, <2>2
<1>5. ASSUME NEW i \in DOMAIN given, NEW text, text = given[i].value
      PROVE  nodes[i] = IF text \in DOMAIN HostPort /\ HostPort[text].port = "number"
                        THEN Pair(HostPort[text].host, "number")
                        ELSE Pair(text, "default")
  <2>1. IsAddress(text)
    <3>1. given[i] \in ToSet(given)
      BY DEF ToSet
    <3> QED
      BY <1>1, <1>5, <3>1 DEF IsConvertible, given
  <2>2. nodes[i] = SplitPort(text)
    BY <1>3, <1>5
  <2>3. CASE text \in DOMAIN HostPort /\ HostPort[text].port # "two colons"
    <3>1. SplitPort(text) = Pair(HostPort[text].host, HostPort[text].port)
      BY <2>3 DEF SplitPort
    <3>2. HostPort[text].port # "junk"
      BY <2>1, <3>1 DEF IsAddress, Pair
    <3>3. HostPort[text].port = "number"
      BY <2>3, <3>2, HostPortAssumption
    <3> QED
      BY <2>2, <2>3, <3>1, <3>3
  <2>4. CASE ~(text \in DOMAIN HostPort /\ HostPort[text].port # "two colons")
    BY <2>2, <2>4 DEF SplitPort
  <2> QED
    BY <2>3, <2>4
<1> QED
  BY <1>4, <1>5 DEF nodes, given
-----------------------------------------------------------------------------
\* --- the invariant --------------------------------------------------------------

\* What every state has: the data set is the defaults until merge has laid the
\* overrides over them, and conf and the filtered report are made of what is there.
Loaded == dataset = MergeTrees[<<Defaults, overrides>>]

CInv ==
  /\ phase \in {"search", "merge", "process", "ready", "failed"}
  /\ tried \in 0 .. Directories
  /\ overrides \in Contents \cup {Dict(<<>>)} /\ overrides # NotThere
  /\ IsDict(dataset)
  /\ phase \in {"search", "merge"} => dataset = Defaults
  /\ phase \in {"process", "ready"} => IsDict(overrides) /\ Loaded
  /\ phase = "ready" => IsConvertible(ServersIn(dataset)) /\ conf = Processed(dataset)
  /\ report \in Reports \cup {NotThere}
  /\ report # NotThere => phase = "ready" /\ filtered = Filter[<<report, Fields(conf)>>]

\* The defaults and the overrides that merge is given are dictionaries of nodes.
LEMMA Given ==
  ASSUME overrides \in Contents \cup {Dict(<<>>)}, IsDict(overrides)
  PROVE  Defaults \in Dicts /\ overrides \in Dicts
<1>1. Defaults \in Dicts /\ Dict(<<>>) \in Dicts
  BY NodesAssumption
<1>2. ~IsDict(NotThere)
  BY NotThereIsNoNode
<1>3. overrides \in Nodes
  BY <1>1, <1>2, NodesAssumption DEF Dicts
<1> QED
  BY <1>1, <1>3 DEF Dicts

\* The invariant holds of every reachable state.
THEOREM ConfigInvariant == Spec => []CInv
<1>1. Init => CInv
  <2> SUFFICES ASSUME Init PROVE CInv
    OBVIOUS
  <2>1. Dict(<<>>) # NotThere
    BY DEF Dict, NotThere
  <2>2. IsDict(Defaults)
    BY NodesAssumption DEF Dicts
  <2>3. tried \in 0 .. Directories
    BY BoundsAssumption DEF Init
  <2> QED
    BY <2>1, <2>2, <2>3 DEF Init, CInv
<1>2. CInv /\ [Next]_vars => CInv'
  <2> SUFFICES ASSUME CInv, [Next]_vars PROVE CInv'
    OBVIOUS
  <2>1. CASE Search
    <3>1. tried' \in 0 .. Directories
      BY <2>1, BoundsAssumption DEF CInv, Search, MoreDirectories
    <3>2. PICK found \in Contents :
            IF found = NotThere THEN UNCHANGED <<phase, overrides>>
            ELSE phase' = "merge" /\ overrides' = found
      BY <2>1 DEF Search
    <3>3. phase' \in {"search", "merge"} /\ overrides' \in Contents \cup {Dict(<<>>)}
            /\ overrides' # NotThere
      BY <2>1, <3>2 DEF CInv, Search
    <3>4. UNCHANGED <<dataset, conf, report, filtered>> /\ phase = "search"
      BY <2>1 DEF Search
    <3> QED
      BY <3>1, <3>3, <3>4 DEF CInv
  <2>2. CASE GiveUp
    BY <2>2 DEF CInv, GiveUp
  <2>3. CASE Merge
    <3>1. UNCHANGED <<tried, overrides, conf, report, filtered>> /\ phase = "merge"
      BY <2>3 DEF Merge
    <3>2. CASE IsDict(overrides)
      <4>1. phase' = "process" /\ dataset' = MergeTrees[<<Defaults, overrides>>]
        BY <2>3, <3>1, <3>2 DEF Merge, CInv
      <4>2. IsDict(dataset')
        BY <3>2, <4>1, Given, PartsOfMerge DEF CInv, IsFormed
      <4> QED
        BY <3>1, <3>2, <4>1, <4>2 DEF CInv, Loaded
    <3>3. CASE ~IsDict(overrides)
      BY <2>3, <3>1, <3>3 DEF Merge, CInv
    <3> QED
      BY <3>2, <3>3
  <2>4. CASE Process
    <3>1. UNCHANGED <<tried, overrides, dataset, report, filtered>> /\ phase = "process"
      BY <2>4 DEF Process
    <3>2. \/ phase' = "ready" /\ IsConvertible(ServersIn(dataset)) /\ conf' = Processed(dataset)
          \/ phase' = "failed" /\ UNCHANGED conf
      BY <2>4 DEF Process
    <3> QED
      BY <3>1, <3>2 DEF CInv, Loaded
  <2>5. CASE Report
    <3>1. /\ UNCHANGED <<phase, tried, overrides, dataset, conf>> /\ phase = "ready"
          /\ report' \in Reports /\ filtered' = Filter[<<report', Fields(conf)>>]
      BY <2>5 DEF Report
    <3> QED
      BY <3>1 DEF CInv, Loaded
  <2>6. CASE UNCHANGED vars
    BY <2>6 DEF CInv, Loaded, vars
  <2> QED
    BY <2>1, <2>2, <2>3, <2>4, <2>5, <2>6 DEF Next
<1> QED
  BY <1>1, <1>2, PTL DEF Spec

\* When the settings are ready, so are the fields and every report to filter.
LEMMA FieldsAreNodes ==
  ASSUME CInv, phase = "ready"
  PROVE  Fields(conf) \in Nodes
<1>1. IsDict(overrides) /\ Loaded /\ conf = Processed(dataset)
  BY DEF CInv
<1>2. Defaults \in Dicts /\ overrides \in Dicts
  BY <1>1, Given DEF CInv
<1>3. Fields(dataset) \in Nodes
  BY <1>1, FieldsAssumption DEF CInv, Loaded
<1>4. Child(conf, "health_fields") = Child(dataset, "health_fields")
  BY <1>1, <1>2, ProcessedParts DEF Loaded
<1> QED
  BY <1>3, <1>4 DEF Fields

\* The types of the variables: what is loaded and processed is a dictionary, and
\* a filtered report is one or an error.
THEOREM ConfigTypeCorrect == Spec => []TypeOK
<1>1. CInv => TypeOK
  <2> SUFFICES ASSUME CInv PROVE TypeOK
    OBVIOUS
  <2>1. phase = "ready" => IsDict(conf)
    BY Given, ProcessedParts DEF CInv, Loaded
  <2>2. ASSUME report # NotThere PROVE filtered.kind \in {"dict", "error"}
    <3>1. report \in Dicts /\ report \in Nodes /\ IsDict(report)
      BY <2>2, NodesAssumption DEF CInv, Dicts
    <3>2. Fields(conf) \in Nodes /\ filtered = Filter[<<report, Fields(conf)>>]
      BY <2>2, FieldsAreNodes DEF CInv
    <3>3. filtered # Error => IsDict(filtered)
      BY <3>1, <3>2, ChildOfFilter
    <3> QED
      BY <3>3 DEF Error, IsDict
  <2> QED
    BY <2>1, <2>2 DEF CInv, TypeOK
<1> QED
  BY <1>1, ConfigInvariant, PTL

\* The loaded settings are, path by path, what the file has and else what the
\* defaults have, whatever both of them hold (merge).
THEOREM OverridesHold == Spec => []OverridesWin
<1>1. CInv => OverridesWin
  <2> SUFFICES ASSUME CInv, phase \in {"process", "ready"}, NEW path \in Paths
               PROVE  LET over == Trail(overrides, path)
                      IN  At(dataset, path) =
                            IF over[Len(path)] # NotThere THEN At(overrides, path)
                            ELSE IF \E n \in 0 .. Len(path) - 1 :
                                      over[n] # NotThere /\ ~IsDict(over[n])
                            THEN NotThere
                            ELSE At(Defaults, path)
    BY DEF OverridesWin
  <2>1. path \in Seq(STRING)
    BY BoundsAssumption
  <2>2. Defaults \in Dicts /\ overrides \in Dicts /\ dataset = MergeTrees[<<Defaults, overrides>>]
    BY Given DEF CInv, Loaded
  <2> QED
    BY <2>1, <2>2, MergedAt
<1> QED
  BY <1>1, ConfigInvariant, PTL

\* Processing turns the servers into pairs of a host and a port and changes
\* nothing else, at any path (process, convert, splitport).
THEOREM OnlyServers == Spec => []OnlyServersConverted
<1>1. CInv => OnlyServersConverted
  <2> SUFFICES ASSUME CInv, phase = "ready" PROVE OnlyServersConverted
    BY DEF OnlyServersConverted
  <2>1. /\ dataset = MergeTrees[<<Defaults, overrides>>] /\ conf = Processed(dataset)
        /\ IsConvertible(ServersIn(dataset)) /\ Defaults \in Dicts /\ overrides \in Dicts
    BY Given DEF CInv, Loaded
  <2>2. ASSUME NEW path \in Paths,
               Len(path) < 2 \/ path[1] # "memcached" \/ path[2] # "servers"
        PROVE  At(conf, path) = At(dataset, path)
    <3>1. path \in Seq(STRING)
      BY BoundsAssumption
    <3> QED
      BY <2>1, <2>2, <3>1, ConvertedAt
  <2>3. ASSUME IsList(ServersIn(dataset))
        PROVE  LET given == ServersIn(dataset).elements
                   nodes == ServersIn(conf).elements
               IN  /\ Len(nodes) = Len(given)
                   /\ \A i \in DOMAIN given :
                        LET text == given[i].value
                        IN  nodes[i] = IF /\ text \in DOMAIN HostPort
                                          /\ HostPort[text].port = "number"
                                       THEN Pair(HostPort[text].host, "number")
                                       ELSE Pair(text, "default")
    <3>1. ServersIn(dataset) \in Nodes
      BY <2>1, <2>3, ServersOfMerge
    <3>2. ~IsIgnored(ServersIn(dataset))
      <4>1. NotThere.kind = "not there" /\ None.kind = "leaf" /\ Number.kind = "leaf"
        BY DEF NotThere, None, Number, Leaf
      <4> QED
        BY <2>3, <4>1 DEF IsIgnored, IsList
    <3>3. ServersIn(conf) = Converted(ServersIn(dataset))
      BY <2>1, <3>2, ProcessedParts
    <3> QED
      BY <2>1, <2>3, <3>1, <3>3, ConvertedServers
  <2> QED
    BY <2>2, <2>3 DEF OnlyServersConverted
<1> QED
  BY <1>1, ConfigInvariant, PTL

\* A report that comes through the filter has, at every path, what the fields let
\* through and no more (filter_dataset, mergedicts).
THEOREM ReportsKeepFields == Spec => []FilterKeepsFields
<1>1. CInv => FilterKeepsFields
  <2> SUFFICES ASSUME CInv, phase = "ready", report # NotThere, filtered # Error,
                      NEW path \in Paths
               PROVE  IF ~Passes(Fields(conf), path) THEN At(filtered, path) = NotThere
                      ELSE \/ At(filtered, path) = At(report, path)
                           \/ /\ At(report, path).kind \in {"leaf", "list"}
                              /\ Trail(filtered, path)[Len(path)] = Dict(<<>>)
    BY DEF FilterKeepsFields
  <2>1. path \in Seq(STRING)
    BY BoundsAssumption
  <2>2. report \in Nodes
    BY NodesAssumption DEF CInv, Dicts
  <2>3. Fields(conf) \in Nodes /\ filtered = Filter[<<report, Fields(conf)>>]
    BY FieldsAreNodes DEF CInv
  <2> QED
    BY <2>1, <2>2, <2>3, FilteredAt
<1> QED
  BY <1>1, ConfigInvariant, PTL
=============================================================================
