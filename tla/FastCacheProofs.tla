-------------------------- MODULE FastCacheProofs --------------------------
(***************************************************************************)
(* Theorems about FastCache, for any values, retention period and size of  *)
(* slices: the slices partition the cached values whatever the clock does, *)
(* and with a clock that never goes back no slice mixes two rounds and the *)
(* cache implements ExpiringSet.                                           *)
(***************************************************************************)
EXTENDS FastCache, FunctionTheorems, FiniteSetTheorems, TLAPS

\* The clock is not set back; fastcache.py keeps its promise only then.
ForwardClock == Steps \subseteq Nat

\* The stretch of SliceSize seconds a time lies in, counted from time 0.
Stretch(t) == t \div SliceSize

\* The inductive invariants: what holds however the clock is set, and what holds
\* as long as it only goes forward.
SlicesInv ==
  /\ TypeOK /\ Integrity
  /\ IsFiniteSet(values)

RoundInv ==
  /\ last_time <= now
  /\ last_slice = TimeToSlice(last_time)
  /\ OneRoundPerSlice
-----------------------------------------------------------------------------
\* --- division -------------------------------------------------------------

LEMMA Division ==
  ASSUME NEW a \in Int, NEW n \in Int, n > 0
  PROVE  /\ a \div n \in Int /\ a % n \in 0 .. n - 1
         /\ a = n * (a \div n) + (a % n)
         /\ a >= 0 => a \div n >= 0
<1>1. a \div n \in Int
  OBVIOUS
<1>2. a % n \in 0 .. n - 1
  OBVIOUS
<1>3. a = n * (a \div n) + (a % n)
  OBVIOUS
<1>4. a >= 0 => a \div n >= 0
  OBVIOUS
<1> QED
  BY <1>1, <1>2, <1>3, <1>4

LEMMA Remainder ==
  ASSUME NEW n \in Int, n > 0, NEW k \in Int, NEW r \in 0 .. n - 1
  PROVE  (n * k + r) % n = r
OBVIOUS

\* A round more or less does not change the slice.
LEMMA RoundsCancel ==
  ASSUME NEW n \in Int, n > 0, NEW k \in Int, NEW x \in Int
  PROVE  (x + n * k) % n = x % n
<1> DEFINE d == x \div n
           r == x % n
<1>1. d \in Int /\ r \in 0 .. n - 1 /\ x = n * d + r
  BY Division
<1> HIDE DEF d, r
<1>2. x + n * k = n * (d + k) + r
  BY <1>1
<1>3. (n * (d + k) + r) % n = r
  BY <1>1, Remainder
<1> QED
  BY <1>2, <1>3 DEF r

\* Two times of one slice are whole rounds apart.
LEMMA SameSlice ==
  ASSUME NEW n \in Int, n > 0, NEW x \in Int, NEW y \in Int, x % n = y % n, x > y
  PROVE  x - y >= n
<1> DEFINE c == x \div n
           d == y \div n
           r == y % n
<1>1. c \in Int /\ d \in Int /\ r \in Int /\ x = n * c + r /\ y = n * d + r
  BY Division
<1> HIDE DEF c, d, r
<1>2. c > d
  BY <1>1
<1>3. n * c - n * d >= n
  BY <1>1, <1>2
<1> QED
  BY <1>1, <1>3

LEMMA Constants ==
  /\ SliceSize \in Int /\ SliceSize > 0
  /\ SliceCount \in Int /\ SliceCount > 0
  /\ Retention = SliceSize * SliceCount
<1>1. SliceSize \in Int /\ SliceSize > 0 /\ Retention \in Int /\ Retention > 0
      /\ Retention % SliceSize = 0
  BY FastCacheAssumption
<1>2. SliceCount \in Int /\ Retention = SliceSize * SliceCount
  BY <1>1, Division DEF SliceCount
<1>3. SliceCount > 0
  BY <1>1, <1>2
<1> QED
  BY <1>1, <1>2, <1>3

LEMMA StretchType ==
  ASSUME NEW t \in Nat
  PROVE  /\ Stretch(t) \in Nat /\ TimeToSlice(t) \in Slices
         /\ TimeToSlice(t) = Stretch(t) % SliceCount
         /\ SliceSize * Stretch(t) <= t /\ t < SliceSize * Stretch(t) + SliceSize
<1> DEFINE a == Stretch(t)
<1>1. /\ a \in Nat
      /\ t = SliceSize * a + (t % SliceSize) /\ t % SliceSize \in 0 .. SliceSize - 1
  BY Constants, Division DEF Stretch
<1>2. TimeToSlice(t) = a % SliceCount
  BY DEF TimeToSlice, Stretch
<1> HIDE DEF a
<1>3. a % SliceCount \in 0 .. SliceCount - 1
  BY <1>1, Constants, Division
<1>4. SliceSize * a <= t /\ t < SliceSize * a + SliceSize
  <2> DEFINE b == SliceSize * a
             r == t % SliceSize
  <2>1. b \in Int /\ t = b + r /\ r \in 0 .. SliceSize - 1
    BY <1>1, Constants
  <2> HIDE DEF b, r
  <2>2. b <= t /\ t < b + SliceSize
    BY <2>1, Constants
  <2> QED
    BY <2>2 DEF b
<1>5. TimeToSlice(t) \in Slices
  BY <1>2, <1>3 DEF Slices
<1> QED
  BY <1>1, <1>2, <1>4, <1>5 DEF a

\* What a distance in stretches says about the distance in seconds, and back.
LEMMA Ages ==
  ASSUME NEW t \in Nat, NEW u \in Nat
  PROVE  /\ Stretch(u) - Stretch(t) < SliceCount => u - t < Retention
         /\ Stretch(u) - Stretch(t) >= SliceCount => u - t > Retention - SliceSize
         /\ t <= u => Stretch(t) <= Stretch(u)
<1> DEFINE a == Stretch(t)
           b == Stretch(u)
           S == SliceSize
           N == SliceCount
<1>1. /\ S \in Int /\ S > 0 /\ N \in Int /\ N > 0 /\ Retention = S * N
      /\ a \in Int /\ b \in Int
      /\ S * a <= t /\ t < S * a + S /\ S * b <= u /\ u < S * b + S
  <2>1. /\ a \in Nat /\ S * a <= t /\ t < S * a + S
    BY StretchType
  <2>2. /\ b \in Nat /\ S * b <= u /\ u < S * b + S
    BY StretchType
  <2> QED
    BY <2>1, <2>2, Constants
<1> HIDE DEF a, b, S, N
<1>2. S * a \in Int /\ S * b \in Int /\ S * N \in Int
  BY <1>1
<1>3. b - a < N => S * b + S <= S * a + S * N
  <2> SUFFICES ASSUME b + 1 <= a + N PROVE S * b + S <= S * a + S * N
    BY <1>1
  <2>1. S * (b + 1) <= S * (a + N)
    BY <1>1
  <2> QED
    BY <1>1, <2>1
<1>4. b - a >= N => S * b >= S * a + S * N
  <2> SUFFICES ASSUME b >= a + N PROVE S * b >= S * a + S * N
    BY <1>1
  <2>1. S * b >= S * (a + N)
    BY <1>1
  <2> QED
    BY <1>1, <2>1
<1>5. t <= u => a <= b
  <2> SUFFICES ASSUME a >= b + 1 PROVE u < t
    BY <1>1
  <2>1. S * a >= S * (b + 1)
    BY <1>1
  <2> QED
    BY <1>1, <1>2, <2>1
<1>6. b - a < N => u - t < Retention
  BY <1>1, <1>2, <1>3
<1>7. b - a >= N => u - t > Retention - S
  BY <1>1, <1>2, <1>4
<1> QED
  BY <1>5, <1>6, <1>7 DEF a, b, S, N
-----------------------------------------------------------------------------
\* --- the slices -----------------------------------------------------------

\* vs are the values listed in the slices of h, each in one of them.
Lists(h, vs) ==
  /\ \A v : v \in vs <=> \E s \in Slices : v \in h[s]
  /\ \A s, t \in Slices : \A v \in h[s] : v \in h[t] => s = t

LEMMA IntegrityLists ==
  ASSUME NEW h, NEW vs
  PROVE  (/\ vs = UNION {h[s] : s \in Slices}
          /\ \A s, t \in Slices : s # t => h[s] \cap h[t] = {})
         <=> Lists(h, vs)
<1>1. (\A s, t \in Slices : s # t => h[s] \cap h[t] = {})
        <=> (\A s, t \in Slices : \A v \in h[s] : v \in h[t] => s = t)
  OBVIOUS
<1>2. (vs = UNION {h[s] : s \in Slices})
        <=> (\A v : v \in vs <=> \E s \in Slices : v \in h[s])
  <2>1. \A v : v \in UNION {h[s] : s \in Slices} <=> \E s \in Slices : v \in h[s]
    OBVIOUS
  <2> QED
    BY <2>1
<1> QED
  BY <1>1, <1>2 DEF Lists

LEMMA IntegrityIs ==
  /\ Integrity <=> Lists(time_hash, values)
  /\ Integrity' <=> Lists(time_hash', values')
BY IntegrityLists DEF Integrity

\* The slices a purge empties are slices.
LEMMA EmptiedSlices ==
  ASSUME TypeOK
  PROVE  Emptied \subseteq Slices
<1>1. \A x \in Int : x % SliceCount \in Slices
  BY Constants, Division DEF Slices
<1>2. last_slice \in Int
  BY Constants DEF TypeOK, Slices
<1> QED
  BY <1>1, <1>2 DEF Emptied, Passed

\* A purge keeps the values of the slices it does not empty.
LEMMA PurgeKeeps ==
  ASSUME SlicesInv
  PROVE  \A v : v \in PurgedValues <=>
           \E s \in Slices : s \notin Emptied /\ v \in time_hash[s]
<1>1. Lists(time_hash, values) /\ Emptied \subseteq Slices
  BY IntegrityIs, EmptiedSlices DEF SlicesInv
<1>2. CASE Wrapped
  BY <1>2 DEF PurgedValues, Emptied
<1>3. CASE ~Wrapped
  <2>1. \A v : v \in PurgedValues <=>
          v \in values /\ \A s \in Emptied : v \notin time_hash[s]
    BY <1>3 DEF PurgedValues
  <2> QED
    BY <1>1, <2>1 DEF Lists
<1> QED
  BY <1>2, <1>3

\* What a purge leaves is well formed.
LEMMA PurgeLists ==
  ASSUME SlicesInv
  PROVE  /\ PurgedValues \subseteq values /\ IsFiniteSet(PurgedValues)
         /\ PurgedHash \in [Slices -> SUBSET Values]
         /\ Lists(PurgedHash, PurgedValues)
         /\ HistoryOf(PurgedValues) \in [Values -> 0 .. MaxTime]
<1>1. PurgedValues \subseteq values
  BY DEF PurgedValues
<1>2. IsFiniteSet(PurgedValues)
  BY <1>1, FS_Subset DEF SlicesInv
<1>3. PurgedHash \in [Slices -> SUBSET Values]
  BY DEF PurgedHash, SlicesInv, TypeOK
<1>4. Lists(PurgedHash, PurgedValues)
  <2>1. \A s \in Slices : PurgedHash[s] = IF s \in Emptied THEN {} ELSE time_hash[s]
    BY DEF PurgedHash
  <2>2. Lists(time_hash, values)
    BY IntegrityIs DEF SlicesInv
  <2>3. \A v : v \in PurgedValues <=> \E s \in Slices : v \in PurgedHash[s]
    BY <2>1, PurgeKeeps
  <2>4. \A s, t \in Slices : \A v \in PurgedHash[s] : v \in PurgedHash[t] => s = t
    BY <2>1, <2>2 DEF Lists
  <2> QED
    BY <2>3, <2>4 DEF Lists
<1>5. HistoryOf(PurgedValues) \in [Values -> 0 .. MaxTime]
  BY FastCacheAssumption DEF HistoryOf, SlicesInv, TypeOK
<1> QED
  BY <1>1, <1>2, <1>3, <1>4, <1>5

\* With intact slices there are as many items as values.
LEMMA ItemsAreValues ==
  ASSUME SlicesInv
  PROVE  ItemCount = Cardinality(values)
<1> DEFINE items == {i \in Slices \X Values : i[2] \in time_hash[i[1]]}
           slicesOf == [v \in values |-> CHOOSE s \in Slices : v \in time_hash[s]]
           itemOf == [v \in values |-> <<slicesOf[v], v>>]
<1>1. Lists(time_hash, values) /\ time_hash \in [Slices -> SUBSET Values]
  BY IntegrityIs DEF SlicesInv, TypeOK
<1>2. \A v \in values : slicesOf[v] \in Slices /\ v \in time_hash[slicesOf[v]]
  BY <1>1 DEF Lists
<1> HIDE DEF slicesOf
<1>3. \A v \in values : itemOf[v] \in items
  BY <1>1, <1>2
<1>4. itemOf \in [values -> items] /\ \A v, w \in values : itemOf[v] = itemOf[w] => v = w
  BY <1>3
<1>5. \A i \in items : \E v \in values : itemOf[v] = i
  <2> SUFFICES ASSUME NEW i \in items PROVE i[2] \in values /\ itemOf[i[2]] = i
    OBVIOUS
  <2>1. i[1] \in Slices /\ i[2] \in time_hash[i[1]] /\ i = <<i[1], i[2]>>
    OBVIOUS
  <2>2. i[2] \in values
    BY <1>1, <2>1 DEF Lists
  <2>3. slicesOf[i[2]] = i[1]
    BY <1>1, <1>2, <2>1, <2>2 DEF Lists
  <2> QED
    BY <2>1, <2>2, <2>3
<1> HIDE DEF items, itemOf
<1>6. itemOf \in Bijection(values, items)
  BY <1>4, <1>5, Fun_IsBij
<1>7. ExistsBijection(values, items)
  BY <1>6 DEF ExistsBijection
<1>8. Cardinality(items) = Cardinality(values)
  BY <1>7, FS_Bijection DEF SlicesInv
<1> QED
  BY <1>8 DEF items, ItemCount

LEMMA ReplyTypes ==
  /\ <<"none">> \in Replies /\ <<"integrity check failed">> \in Replies
  /\ \A v \in Values : /\ <<"cached", v>> \in Replies /\ <<"already cached", v>> \in Replies
                       /\ \A b \in BOOLEAN : <<"is cached", v, b>> \in Replies
  /\ \A n \in Nat : <<"count", n>> \in Replies
BY DEF Replies
-----------------------------------------------------------------------------
\* --- the steps, whatever the clock does -------------------------------------

LEMMA CacheCases ==
  ASSUME Next
  PROVE  \/ \E v \in Values : Cache(v) \/ CacheAgain(v) \/ IsCached(v)
         \/ Count \/ Clear \/ IntegrityCheck \/ Tick
BY DEF Next

LEMMA PurgeStep ==
  ASSUME SlicesInv, PurgeOnly, reply' \in Replies
  PROVE  SlicesInv'
<1>1. now \in 0 .. MaxTime /\ now \in Nat
  BY FastCacheAssumption DEF SlicesInv, TypeOK
<1>2. TypeOK'
  BY <1>1, PurgeLists, StretchType DEF PurgeOnly, Purge, SlicesInv, TypeOK
<1>3. Lists(time_hash', values') /\ IsFiniteSet(values')
  BY PurgeLists DEF PurgeOnly
<1> QED
  BY <1>2, <1>3, IntegrityIs DEF SlicesInv

LEMMA SlicesStep ==
  ASSUME SlicesInv, [Next]_vars
  PROVE  SlicesInv'
<1>1. CASE UNCHANGED vars
  BY <1>1 DEF vars, SlicesInv, TypeOK, Integrity
<1>2. ASSUME NEW v \in Values, Cache(v)
      PROVE  SlicesInv'
  <2> DEFINE s == TimeToSlice(now)
  <2>1. now \in 0 .. MaxTime /\ now \in Nat /\ s \in Slices
    BY FastCacheAssumption, StretchType DEF SlicesInv, TypeOK
  <2> HIDE DEF s
  <2>2. /\ last_time' = now /\ now' = now /\ last_slice' = s
        /\ values' = PurgedValues \cup {v}
        /\ time_hash' = [PurgedHash EXCEPT ![s] = @ \cup {v}]
        /\ cachedAt' = [HistoryOf(PurgedValues) EXCEPT ![v] = now]
        /\ reply' = <<"cached", v>> /\ v \notin PurgedValues
    BY <1>2 DEF Cache, Purge, s
  <2>3. TypeOK'
    BY <2>1, <2>2, PurgeLists, ReplyTypes DEF SlicesInv, TypeOK
  <2>4. IsFiniteSet(values')
    BY <2>2, PurgeLists, FS_AddElement
  <2>5. Lists(time_hash', values')
    <3>1. \A t \in Slices :
            time_hash'[t] = IF t = s THEN PurgedHash[t] \cup {v} ELSE PurgedHash[t]
      BY <2>2, PurgeLists
    <3>2. Lists(PurgedHash, PurgedValues)
      BY PurgeLists
    <3>3. \A w : w \in values' <=> \E t \in Slices : w \in time_hash'[t]
      BY <2>1, <2>2, <3>1, <3>2 DEF Lists
    <3>4. \A t, u \in Slices : \A w \in time_hash'[t] : w \in time_hash'[u] => t = u
      BY <2>2, <3>1, <3>2 DEF Lists
    <3> QED
      BY <3>3, <3>4 DEF Lists
  <2> QED
    BY <2>3, <2>4, <2>5, IntegrityIs DEF SlicesInv
<1>3. ASSUME NEW v \in Values, CacheAgain(v)
      PROVE  SlicesInv'
  BY <1>3, PurgeStep, ReplyTypes DEF CacheAgain
<1>4. ASSUME NEW v \in Values, IsCached(v)
      PROVE  SlicesInv'
  <2>1. PurgeOnly /\ reply' = <<"is cached", v, v \in PurgedValues>>
    BY <1>4 DEF IsCached
  <2>2. (v \in PurgedValues) \in BOOLEAN
    OBVIOUS
  <2>3. reply' \in Replies
    BY <2>1, <2>2, ReplyTypes
  <2> QED
    BY <2>1, <2>3, PurgeStep
<1>5. CASE Count
  <2>1. Cardinality(PurgedValues) \in Nat
    BY PurgeLists, FS_CardinalityType
  <2> QED
    BY <1>5, <2>1, PurgeStep, ReplyTypes DEF Count
<1>6. CASE Clear
  <2>1. TypeOK'
    <3>1. HistoryOf({}) \in [Values -> 0 .. MaxTime]
      BY FastCacheAssumption DEF HistoryOf
    <3>2. reply' \in Replies /\ time_hash' \in [Slices -> SUBSET Values]
      BY <1>6, ReplyTypes DEF Clear
    <3> QED
      BY <1>6, <3>1, <3>2 DEF Clear, SlicesInv, TypeOK
  <2>2. Lists(time_hash', values') /\ IsFiniteSet(values')
    BY <1>6, FS_EmptySet DEF Clear, Lists
  <2> QED
    BY <2>1, <2>2, IntegrityIs DEF SlicesInv
<1>7. CASE IntegrityCheck
  <2>1. reply' \in Replies
    BY <1>7, ReplyTypes DEF IntegrityCheck
  <2>2. UNCHANGED <<values, time_hash, last_time, last_slice, now, cachedAt>>
    BY <1>7 DEF IntegrityCheck
  <2> QED
    BY <2>1, <2>2 DEF SlicesInv, TypeOK, Integrity
<1>8. CASE Tick
  BY <1>8 DEF Tick, SlicesInv, TypeOK, Integrity
<1> QED
  BY <1>1, <1>2, <1>3, <1>4, <1>5, <1>6, <1>7, <1>8, CacheCases
-----------------------------------------------------------------------------
\* --- the rounds, when the clock goes forward --------------------------------

\* The slices passed are those of the stretches between the two calls.
LEMMA PassedStretches ==
  ASSUME TypeOK, RoundInv, ~Wrapped
  PROVE  \A s : s \in Passed <=>
           \E y \in Stretch(last_time) + 1 .. Stretch(now) : s = y % SliceCount
<1> DEFINE a == Stretch(last_time)
           b == Stretch(now)
           N == SliceCount
           k == a \div N
           r == a % N
<1>1. last_time \in Nat /\ now \in Nat /\ last_time <= now
  BY FastCacheAssumption DEF TypeOK, RoundInv
<1>2. a \in Nat /\ b \in Nat /\ a <= b /\ b - a < N
  BY <1>1, Ages, StretchType, Constants DEF Wrapped
<1>3. last_slice = r /\ TimeToSlice(now) = b % N
  BY <1>1, StretchType DEF RoundInv
<1> HIDE DEF a, b
<1>4. /\ N \in Int /\ N > 0
      /\ k \in Int /\ r \in 0 .. N - 1 /\ a = N * k + r
  BY <1>2, Constants, Division
<1> HIDE DEF N, k, r
<1>5. SliceDelta = b - a
  <2>1. CASE r + (b - a) < N
    <3>1. b = N * k + (r + (b - a)) /\ r + (b - a) \in 0 .. N - 1
      BY <1>2, <1>4, <2>1
    <3>2. b % N = r + (b - a)
      BY <1>4, <3>1, Remainder
    <3> QED
      BY <1>2, <1>3, <1>4, <3>2 DEF SliceDelta, N
  <2>2. CASE r + (b - a) >= N
    <3> DEFINE j == k + 1
               q == r + (b - a) - N
    <3>1. j \in Int /\ q \in 0 .. N - 1 /\ b = N * j + q
      BY <1>2, <1>4, <2>2
    <3> HIDE DEF j
    <3>2. b % N = q
      BY <1>4, <3>1, Remainder
    <3> QED
      BY <1>2, <1>3, <1>4, <3>2 DEF SliceDelta, N
  <2> QED
    BY <1>2, <1>4, <2>1, <2>2
<1>6. \A s : s \in Passed <=> \E x \in r + 1 .. r + (b - a) : s = x % N
  BY <1>3, <1>5 DEF Passed, N
<1>7. \A x \in Int : (x + N * k) % N = x % N
  BY <1>4, RoundsCancel
<1>8. N * k \in Int
  BY <1>4
<1>9. ASSUME NEW s, NEW x \in r + 1 .. r + (b - a), s = x % N
      PROVE  \E y \in a + 1 .. b : s = y % N
  <2>1. x \in Int /\ x + N * k \in a + 1 .. b
    <3> DEFINE m == N * k
    <3>1. m \in Int /\ a = m + r /\ r \in Int
      BY <1>4, <1>8
    <3> HIDE DEF m
    <3>2. x \in Int /\ x + m \in a + 1 .. b
      BY <1>2, <3>1
    <3> QED
      BY <3>2 DEF m
  <2> QED
    BY <1>7, <1>9, <2>1
<1>10. ASSUME NEW s, NEW y \in a + 1 .. b, s = y % N
       PROVE  \E x \in r + 1 .. r + (b - a) : s = x % N
  <2>1. /\ y - N * k \in r + 1 .. r + (b - a) /\ y - N * k \in Int
        /\ (y - N * k) + N * k = y
    <3> DEFINE m == N * k
    <3>1. m \in Int /\ a = m + r /\ r \in Int
      BY <1>4, <1>8
    <3> HIDE DEF m
    <3>2. y - m \in r + 1 .. r + (b - a) /\ y - m \in Int /\ (y - m) + m = y
      BY <1>2, <3>1
    <3> QED
      BY <3>2 DEF m
  <2>2. ((y - N * k) + N * k) % N = (y - N * k) % N
    BY <1>7, <2>1
  <2> QED
    BY <1>10, <2>1, <2>2
<1> QED
  BY <1>6, <1>9, <1>10 DEF a, b, N

\* A purge empties the slice of a value exactly when SliceCount stretches have
\* begun since the one the value was added in, unless it empties all of them.
LEMMA EmptiedByAge ==
  ASSUME SlicesInv, RoundInv, NEW s \in Slices, NEW v \in time_hash[s]
  PROVE  /\ s \in Emptied => now - cachedAt[v] > Retention - SliceSize
         /\ s \notin Emptied => Stretch(now) - Stretch(cachedAt[v]) < SliceCount
<1> DEFINE c == cachedAt[v]
<1>1. /\ last_time \in Nat /\ now \in Nat /\ last_time <= now
      /\ v \in Values /\ c \in Nat
  BY FastCacheAssumption DEF SlicesInv, TypeOK, RoundInv
<1>2. c <= last_time /\ TimeToSlice(c) = s /\ Stretch(last_time) - Stretch(c) < SliceCount
  BY DEF RoundInv, OneRoundPerSlice, Stretch
<1>3. Stretch(c) % SliceCount = s /\ Stretch(c) <= Stretch(last_time)
  BY <1>1, <1>2, StretchType, Ages
<1>4. Stretch(c) \in Nat /\ Stretch(now) \in Nat /\ Stretch(last_time) \in Nat
  BY <1>1, StretchType
<1>5. SliceCount \in Int /\ SliceCount > 0 /\ Retention \in Int /\ SliceSize \in Int
  BY Constants, FastCacheAssumption
<1> HIDE DEF c
<1>6. CASE Wrapped
  BY <1>1, <1>2, <1>5, <1>6 DEF Wrapped, Emptied, c
<1>7. CASE ~Wrapped
  <2>1. s \in Emptied <=>
          \E y \in Stretch(last_time) + 1 .. Stretch(now) : s = y % SliceCount
    BY <1>7, PassedStretches DEF Emptied, SlicesInv
  <2>2. ASSUME s \in Emptied
        PROVE  now - c > Retention - SliceSize
    <3>1. PICK y \in Stretch(last_time) + 1 .. Stretch(now) : s = y % SliceCount
      BY <2>1, <2>2
    <3>2. y \in Int /\ y > Stretch(c)
      BY <1>3, <1>4
    <3>3. y - Stretch(c) >= SliceCount
      <4> DEFINE x == Stretch(c)
      <4>1. x \in Int /\ x % SliceCount = y % SliceCount /\ y > x
        BY <1>3, <1>4, <3>1, <3>2
      <4> HIDE DEF x
      <4>2. y - x >= SliceCount
        BY <1>5, <3>2, <4>1, SameSlice
      <4> QED
        BY <4>2 DEF x
    <3>4. Stretch(now) - Stretch(c) >= SliceCount
      BY <1>4, <1>5, <3>2, <3>3
    <3> QED
      BY <1>1, <3>4, Ages
  <2>3. ASSUME Stretch(now) - Stretch(c) >= SliceCount
        PROVE  s \in Emptied
    <3> DEFINE y == Stretch(c) + SliceCount * 1
    <3>1. y \in Stretch(last_time) + 1 .. Stretch(now)
      BY <1>2, <1>4, <1>5, <2>3
    <3>2. y % SliceCount = s
      BY <1>3, <1>4, <1>5, RoundsCancel
    <3> QED
      BY <2>1, <3>1, <3>2
  <2> QED
    BY <1>4, <1>5, <2>2, <2>3 DEF c
<1> QED
  BY <1>6, <1>7

\* What a purge leaves lies within one round, each value in its slice.
LEMMA PurgedRound ==
  ASSUME SlicesInv, RoundInv, NEW s \in Slices, NEW v \in PurgedHash[s]
  PROVE  /\ v \in PurgedValues /\ v \in Values
         /\ HistoryOf(PurgedValues)[v] = cachedAt[v]
         /\ TimeToSlice(cachedAt[v]) = s
         /\ cachedAt[v] <= now
         /\ Stretch(now) - Stretch(cachedAt[v]) < SliceCount
<1>1. s \notin Emptied /\ v \in time_hash[s]
  BY DEF PurgedHash
<1>2. v \in PurgedValues /\ v \in Values
  BY <1>1, PurgeKeeps DEF SlicesInv, TypeOK
<1>3. HistoryOf(PurgedValues)[v] = cachedAt[v]
  BY <1>2 DEF HistoryOf
<1>4. last_time \in Nat /\ now \in Nat /\ last_time <= now /\ cachedAt[v] \in Nat
  BY <1>2, FastCacheAssumption DEF SlicesInv, TypeOK, RoundInv
<1>5. TimeToSlice(cachedAt[v]) = s /\ cachedAt[v] <= last_time
  BY <1>1 DEF RoundInv, OneRoundPerSlice
<1>6. Stretch(now) - Stretch(cachedAt[v]) < SliceCount
  BY <1>1, EmptiedByAge
<1> QED
  BY <1>2, <1>3, <1>4, <1>5, <1>6

LEMMA PurgeRoundStep ==
  ASSUME SlicesInv, RoundInv, PurgeOnly
  PROVE  RoundInv'
<1>1. /\ last_time' = now /\ now' = now /\ last_slice' = TimeToSlice(now)
      /\ time_hash' = PurgedHash /\ cachedAt' = HistoryOf(PurgedValues)
  BY DEF PurgeOnly, Purge
<1>2. OneRoundPerSlice'
  BY <1>1, PurgedRound DEF OneRoundPerSlice, TimeToSlice, Stretch
<1>3. now \in Nat
  BY FastCacheAssumption DEF SlicesInv, TypeOK
<1> QED
  BY <1>1, <1>2, <1>3 DEF RoundInv, TimeToSlice

LEMMA RoundStep ==
  ASSUME ForwardClock, SlicesInv, RoundInv, [Next]_vars
  PROVE  RoundInv'
<1>1. CASE UNCHANGED vars
  BY <1>1 DEF vars, RoundInv, OneRoundPerSlice, TimeToSlice
<1>2. ASSUME NEW v \in Values, Cache(v)
      PROVE  RoundInv'
  <2> DEFINE s == TimeToSlice(now)
  <2>1. now \in Nat /\ s \in Slices /\ SliceCount > 0
    BY FastCacheAssumption, StretchType, Constants DEF SlicesInv, TypeOK
  <2> HIDE DEF s
  <2>2. /\ last_time' = now /\ now' = now /\ last_slice' = s
        /\ time_hash' = [PurgedHash EXCEPT ![s] = @ \cup {v}]
        /\ cachedAt' = [HistoryOf(PurgedValues) EXCEPT ![v] = now]
        /\ v \notin PurgedValues
    BY <1>2 DEF Cache, Purge, s
  <2>3. cachedAt'[v] = now
        /\ \A w \in Values \ {v} : cachedAt'[w] = HistoryOf(PurgedValues)[w]
    BY <2>2, PurgeLists
  <2>4. ASSUME NEW t \in Slices, NEW w \in time_hash'[t]
        PROVE  /\ TimeToSlice(cachedAt'[w]) = t /\ cachedAt'[w] <= now
               /\ Stretch(now) - Stretch(cachedAt'[w]) < SliceCount
    <3>1. CASE w \in PurgedHash[t]
      <4>1. w \in Values \ {v}
        BY <2>2, <3>1, PurgedRound
      <4> QED
        BY <2>3, <3>1, <4>1, PurgedRound
    <3>2. CASE w \notin PurgedHash[t]
      <4>1. w = v /\ t = s
        BY <2>2, <3>2, PurgeLists
      <4>2. Stretch(now) \in Nat
        BY <2>1, StretchType
      <4> QED
        BY <2>1, <2>3, <4>1, <4>2, Constants DEF s
    <3> QED
      BY <3>1, <3>2
  <2>5. OneRoundPerSlice'
    BY <2>2, <2>4 DEF OneRoundPerSlice, TimeToSlice, Stretch
  <2> QED
    BY <2>1, <2>2, <2>5 DEF RoundInv, TimeToSlice, s
<1>3. ASSUME NEW v \in Values, CacheAgain(v) \/ IsCached(v)
      PROVE  RoundInv'
  BY <1>3, PurgeRoundStep DEF CacheAgain, IsCached
<1>4. CASE Count
  BY <1>4, PurgeRoundStep DEF Count
<1>5. CASE Clear
  BY <1>5 DEF Clear, RoundInv, OneRoundPerSlice, TimeToSlice
<1>6. CASE IntegrityCheck
  BY <1>6 DEF IntegrityCheck, RoundInv, OneRoundPerSlice, TimeToSlice
<1>7. CASE Tick
  <2>1. PICK d \in Steps : now' = now + d
                   /\ UNCHANGED <<values, time_hash, last_time, last_slice, reply, cachedAt>>
    BY <1>7 DEF Tick
  <2>2. now \in Nat /\ last_time \in Nat /\ d \in Nat
    BY FastCacheAssumption DEF SlicesInv, TypeOK, ForwardClock
  <2>3. last_time' <= now'
    BY <2>1, <2>2 DEF RoundInv
  <2>4. OneRoundPerSlice' /\ last_slice' = TimeToSlice(last_time)'
    BY <2>1 DEF RoundInv, OneRoundPerSlice, TimeToSlice
  <2> QED
    BY <2>3, <2>4 DEF RoundInv
<1> QED
  BY <1>1, <1>2, <1>3, <1>4, <1>5, <1>6, <1>7, CacheCases
-----------------------------------------------------------------------------
\* --- the expiring set -------------------------------------------------------

\* A purge lets go of values that ExpiringSet lets go, and keeps none it does not.
LEMMA PurgeMayRemain ==
  ASSUME SlicesInv, RoundInv
  PROVE  /\ Set!MayRemain(PurgedValues) /\ PurgedValues \in SUBSET values
         /\ HistoryOf(PurgedValues) = Set!BornIn(PurgedValues)
<1>1. PurgedValues \subseteq values
  BY PurgeLists
<1>2. Lists(time_hash, values) /\ Lists(PurgedHash, PurgedValues)
  BY IntegrityIs, PurgeLists DEF SlicesInv
<1>3. ASSUME NEW v \in PurgedValues
      PROVE  now - cachedAt[v] < Retention
  <2>1. PICK s \in Slices : v \in PurgedHash[s]
    BY <1>2 DEF Lists
  <2>2. v \in Values /\ Stretch(now) - Stretch(cachedAt[v]) < SliceCount
    BY <2>1, PurgedRound
  <2>3. now \in Nat /\ cachedAt[v] \in Nat
    BY <2>2, FastCacheAssumption DEF SlicesInv, TypeOK
  <2> QED
    BY <2>2, <2>3, Ages
<1>4. ASSUME NEW v \in values \ PurgedValues
      PROVE  now - cachedAt[v] > Retention - SliceSize
  <2>1. PICK s \in Slices : v \in time_hash[s]
    BY <1>2 DEF Lists
  <2>2. s \in Emptied
    BY <2>1, PurgeKeeps
  <2> QED
    BY <2>1, <2>2, EmptiedByAge
<1>5. HistoryOf(PurgedValues) = Set!BornIn(PurgedValues)
  BY DEF HistoryOf, Set!BornIn
<1> QED
  BY <1>1, <1>3, <1>4, <1>5 DEF Set!MayRemain, Set!Age

\* A call that purges and changes nothing else lets go of them.
LEMMA PurgeLetsGo ==
  ASSUME SlicesInv, RoundInv, PurgeOnly
  PROVE  Set!LetGo(PurgedValues) /\ PurgedValues \in SUBSET values
BY PurgeMayRemain DEF PurgeOnly, Purge, Set!LetGo

LEMMA SetStep ==
  ASSUME ForwardClock, SlicesInv, RoundInv, [Next]_vars
  PROVE  [Set!Next]_Set!setVars
<1>1. CASE UNCHANGED vars
  BY <1>1 DEF vars, Set!setVars
<1>2. ASSUME NEW v \in Values, Cache(v)
      PROVE  Set!Add(v)
  BY <1>2, PurgeMayRemain DEF Cache, Purge, Set!Add
<1>3. ASSUME NEW v \in Values, CacheAgain(v)
      PROVE  Set!AddAgain(v)
  BY <1>3, PurgeLetsGo DEF CacheAgain, Set!AddAgain
<1>4. ASSUME NEW v \in Values, IsCached(v)
      PROVE  Set!Has(v)
  BY <1>4, PurgeLetsGo DEF IsCached, Set!Has
<1>5. ASSUME Count
      PROVE  Set!Count
  <2>1. Set!Cardinality(PurgedValues) = Cardinality(PurgedValues)
    BY Zenon DEF Cardinality, Set!Cardinality
  <2> QED
    BY <1>5, <2>1, PurgeLetsGo DEF Count, Set!Count
<1>6. ASSUME Clear
      PROVE  Set!Clear
  BY <1>6 DEF Clear, HistoryOf, Set!Clear, Set!BornIn
<1>7. ASSUME IntegrityCheck
      PROVE  Set!Check
  BY <1>7, ItemsAreValues DEF IntegrityCheck, Set!Check
<1>8. ASSUME Tick
      PROVE  Set!Pass \/ UNCHANGED Set!setVars
  <2>1. PICK d \in Steps :
          now' = now + d /\ UNCHANGED <<values, time_hash, last_time, last_slice, reply, cachedAt>>
    BY <1>8 DEF Tick
  <2>2. now \in Nat /\ d \in Nat
    BY FastCacheAssumption DEF SlicesInv, TypeOK, ForwardClock
  <2>3. CASE d = 0
    BY <2>1, <2>2, <2>3 DEF Set!setVars
  <2>4. CASE d > 0
    BY <2>1, <2>2, <2>4 DEF Set!Pass
  <2> QED
    BY <2>2, <2>3, <2>4
<1> QED
  BY <1>1, <1>2, <1>3, <1>4, <1>5, <1>6, <1>7, <1>8, CacheCases DEF Set!Next
-----------------------------------------------------------------------------
\* --- the theorems -----------------------------------------------------------

LEMMA CacheInit ==
  ASSUME Init
  PROVE  SlicesInv /\ RoundInv
<1>1. now \in 0 .. MaxTime /\ now \in Nat
  BY FastCacheAssumption DEF Init
<1>2. TypeOK
  <2>1. reply \in Replies /\ last_slice \in Slices
    BY <1>1, StretchType, ReplyTypes DEF Init
  <2>2. cachedAt \in [Values -> 0 .. MaxTime]
    BY FastCacheAssumption DEF Init
  <2> QED
    BY <1>1, <2>1, <2>2 DEF Init, TypeOK
<1>3. Lists(time_hash, values) /\ IsFiniteSet(values)
  BY FS_EmptySet DEF Init, Lists
<1>4. RoundInv
  BY <1>1 DEF Init, RoundInv, OneRoundPerSlice
<1> QED
  BY <1>2, <1>3, <1>4, IntegrityIs DEF SlicesInv

\* The inductive invariant that needs nothing of the clock.
THEOREM SlicesInvariant == Spec => []SlicesInv
<1>1. Init => SlicesInv
  BY CacheInit
<1>2. SlicesInv /\ [Next]_vars => SlicesInv'
  BY SlicesStep
<1> QED
  BY <1>1, <1>2, PTL DEF Spec

\* The variables keep their types, whatever the clock does.
THEOREM CacheTypeCorrect == Spec => []TypeOK
<1>1. SlicesInv => TypeOK
  BY DEF SlicesInv
<1> QED
  BY <1>1, SlicesInvariant, PTL

\* The slices partition the cached values, even when the clock is set back: no
\* "del self._values[item]" of _clear_slice misses its key.
THEOREM SlicesPartition == Spec => []Integrity
<1>1. SlicesInv => Integrity
  BY DEF SlicesInv
<1> QED
  BY <1>1, SlicesInvariant, PTL

\* integrity_check never raises, even when the clock is set back.
THEOREM CheckNeverFails == Spec => [](reply # <<"integrity check failed">>)
<1> DEFINE Fine == reply # <<"integrity check failed">>
<1>1. Init => Fine
  BY DEF Init
<1>2. SlicesInv /\ Fine /\ [Next]_vars => Fine'
  <2> SUFFICES ASSUME SlicesInv, Fine, [Next]_vars PROVE Fine'
    OBVIOUS
  <2>0. /\ <<"integrity check failed">>[1] = "integrity check failed"
        /\ <<"none">>[1] = "none"
        /\ \A n : <<"count", n>>[1] = "count"
        /\ \A v : <<"cached", v>>[1] = "cached" /\ <<"already cached", v>>[1] = "already cached"
        /\ \A v, b : <<"is cached", v, b>>[1] = "is cached"
    OBVIOUS
  <2>1. CASE UNCHANGED vars
    BY <2>1 DEF vars
  <2>2. ASSUME NEW v \in Values, Cache(v) \/ CacheAgain(v) \/ IsCached(v)
        PROVE  Fine'
    BY <2>0, <2>2 DEF Cache, CacheAgain, IsCached
  <2>3. CASE Count \/ Clear \/ Tick
    BY <2>0, <2>3 DEF Count, Clear, Tick
  <2>4. CASE IntegrityCheck
    BY <2>0, <2>4, ItemsAreValues DEF IntegrityCheck
  <2> QED
    BY <2>1, <2>2, <2>3, <2>4, CacheCases
<1> QED
  BY <1>1, <1>2, SlicesInvariant, PTL DEF Spec

\* The inductive invariant of a clock that only goes forward.
THEOREM RoundInvariant ==
  ASSUME ForwardClock
  PROVE  Spec => []RoundInv
<1>1. Init => RoundInv
  BY CacheInit
<1>2. SlicesInv /\ RoundInv /\ [Next]_vars => RoundInv'
  BY RoundStep
<1> QED
  BY <1>1, <1>2, SlicesInvariant, PTL DEF Spec

\* With such a clock a slice never holds values of two rounds, however long
\* nobody calls (_purge).
THEOREM OneRound ==
  ASSUME ForwardClock
  PROVE  Spec => []OneRoundPerSlice
<1>1. RoundInv => OneRoundPerSlice
  BY DEF RoundInv
<1> QED
  BY <1>1, RoundInvariant, PTL

\* With such a clock the cache is a set whose members expire: none is answered
\* for at the age of the retention period, and none is gone before the retention
\* period less a slice (Note 3 of fastcache.py).
THEOREM ImplementsSet ==
  ASSUME ForwardClock
  PROVE  Spec => ImplementsExpiringSet
<1>1. Init => Set!Init
  BY FastCacheAssumption DEF Init, Set!Init
<1>2. SlicesInv /\ RoundInv /\ [Next]_vars => [Set!Next]_Set!setVars
  BY SetStep
<1> QED
  BY <1>1, <1>2, SlicesInvariant, RoundInvariant, PTL
    DEF Spec, ImplementsExpiringSet, Set!Spec
=============================================================================
