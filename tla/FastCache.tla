----------------------------- MODULE FastCache -----------------------------
(***************************************************************************)
(* rax/fastcache/fastcache.py: a cache that files each value under the     *)
(* slice of time it was added in and, at the next call, empties all slices *)
(* that time has passed over since the last one.                           *)
(*                                                                         *)
(* The calls of one thread (Note 1 of the file) interleave with the clock  *)
(* only: a call reads int(time()) once.  _current_time and _current_slice  *)
(* are set and copied to _last_time and _last_slice by the same _purge, so *)
(* one pair of variables stands for both.  The list of a slice is the set  *)
(* of its items: Integrity says that no item can be listed twice.          *)
(***************************************************************************)
EXTENDS Integers, FiniteSets

CONSTANTS
  Values,
  Retention,   \* retention_period
  SliceSize,   \* slice_size
  Starts,      \* the times at which a cache may be created
  Steps,       \* how far the clock may go at once; negative when it is set back
  MaxTime      \* bound: the last time

\* __init__ refuses a retention period that is no multiple of the slice size.
ASSUME FastCacheAssumption ==
  /\ SliceSize \in Nat \ {0}
  /\ Retention \in Nat \ {0}
  /\ Retention % SliceSize = 0
  /\ MaxTime \in Nat
  /\ Starts \subseteq 0 .. MaxTime
  /\ Steps \subseteq Int

VARIABLES
  values,      \* _values
  time_hash,   \* _time_hash: the values of each slice
  last_time,   \* _last_time
  last_slice,  \* _last_slice
  now,         \* the clock, int(time())
  reply,       \* what the last call returned or raised
  cachedAt     \* history: when each cached value was added, 0 for the others

vars == <<values, time_hash, last_time, last_slice, now, reply, cachedAt>>

SliceCount == Retention \div SliceSize
Slices == 0 .. SliceCount - 1

TimeToSliceUncut(t) == t \div SliceSize   \* mutant: no wrapping

TimeToSlice(t) == (t \div SliceSize) % SliceCount

Replies ==
  {<<"none">>, <<"integrity check failed">>}
    \cup ({"cached", "already cached"} \X Values)
    \cup ({"is cached"} \X Values \X BOOLEAN)
    \cup ({"count"} \X Nat)

TypeOK ==
  /\ values \subseteq Values
  /\ time_hash \in [Slices -> SUBSET Values]
  /\ last_time \in 0 .. MaxTime
  /\ last_slice \in Slices
  /\ now \in 0 .. MaxTime
  /\ reply \in Replies
  /\ cachedAt \in [Values -> 0 .. MaxTime]

Init ==
  /\ values = {}
  /\ time_hash = [s \in Slices |-> {}]
  /\ now \in Starts
  /\ last_time = now
  /\ last_slice = TimeToSlice(now)
  /\ reply = <<"none">>
  /\ cachedAt = [v \in Values |-> 0]
-----------------------------------------------------------------------------
\* --- _purge ---------------------------------------------------------------

WrappedEarly == now - last_time >= Retention - SliceSize   \* mutant: >= for >

\* So much time has passed that every value has expired.
Wrapped == now - last_time > Retention - SliceSize

\* The number of slices time has passed into since the last call.
SliceDelta ==
  LET d == TimeToSlice(now) - last_slice
  IN  IF d < 0 THEN SliceCount + d ELSE d

PassedExclusive ==   \* mutant: the range ends before the current slice
  {x % SliceCount : x \in last_slice + 1 .. last_slice + SliceDelta - 1}

Passed == {x % SliceCount : x \in last_slice + 1 .. last_slice + SliceDelta}

Emptied == IF Wrapped THEN Slices ELSE Passed

PurgedHash == [s \in Slices |-> IF s \in Emptied THEN {} ELSE time_hash[s]]

\* mutant: clearing a slice forgets to delete its items from the dictionary
PurgedValuesKept == IF Wrapped THEN {} ELSE values

PurgedValues ==
  IF Wrapped THEN {} ELSE values \ UNION {time_hash[s] : s \in Emptied}

HistoryOf(vs) == [v \in Values |-> IF v \in vs THEN cachedAt[v] ELSE 0]

Purge ==
  /\ last_time' = now
  /\ last_slice' = TimeToSlice(now)
  /\ UNCHANGED now

\* A call that purges and changes nothing else.
PurgeOnly ==
  /\ Purge
  /\ values' = PurgedValues
  /\ time_hash' = PurgedHash
  /\ cachedAt' = HistoryOf(PurgedValues)
-----------------------------------------------------------------------------
\* --- the calls ------------------------------------------------------------

Cache(v) ==
  /\ v \notin PurgedValues
  /\ Purge
  /\ values' = PurgedValues \cup {v}
  /\ time_hash' = [PurgedHash EXCEPT ![TimeToSlice(now)] = @ \cup {v}]
  /\ cachedAt' = [HistoryOf(PurgedValues) EXCEPT ![v] = now]
  /\ reply' = <<"cached", v>>

CacheAgain(v) ==
  /\ v \in PurgedValues
  /\ PurgeOnly
  /\ reply' = <<"already cached", v>>

IsCached(v) ==
  /\ PurgeOnly
  /\ reply' = <<"is cached", v, v \in PurgedValues>>

Count ==
  /\ PurgeOnly
  /\ reply' = <<"count", Cardinality(PurgedValues)>>

\* clear() does not purge: the last call stays the last one that looked.
Clear ==
  /\ values' = {}
  /\ time_hash' = [s \in Slices |-> {}]
  /\ cachedAt' = HistoryOf({})
  /\ reply' = <<"none">>
  /\ UNCHANGED <<last_time, last_slice, now>>

\* The items of the slices, those listed under two slices counted twice.
ItemCount == Cardinality({i \in Slices \X Values : i[2] \in time_hash[i[1]]})

IntegrityCheck ==
  /\ reply' = IF ItemCount = Cardinality(values)
              THEN <<"none">>
              ELSE <<"integrity check failed">>
  /\ UNCHANGED <<values, time_hash, last_time, last_slice, now, cachedAt>>

Tick ==
  \E d \in Steps :
    /\ now + d \in 0 .. MaxTime
    /\ now' = now + d
    /\ UNCHANGED <<values, time_hash, last_time, last_slice, reply, cachedAt>>

Next ==
  \/ \E v \in Values : Cache(v) \/ CacheAgain(v) \/ IsCached(v)
  \/ Count \/ Clear \/ IntegrityCheck \/ Tick

Spec == Init /\ [][Next]_vars
-----------------------------------------------------------------------------
\* --- properties -----------------------------------------------------------

\* The slices partition the cached values: a value is listed once and only
\* while it is cached, so "del self._values[item]" in _clear_slice finds its
\* key and integrity_check never raises.
Integrity ==
  /\ values = UNION {time_hash[s] : s \in Slices}
  /\ \A s, t \in Slices : s # t => time_hash[s] \cap time_hash[t] = {}

\* A slice holds values of one stretch of SliceSize seconds only: it was
\* emptied on every way from one round of the slices to the next, however
\* long nobody called (lines 96 to 115).
OneRoundPerSlice ==
  \A s \in Slices : \A v \in time_hash[s] :
    /\ TimeToSlice(cachedAt[v]) = s
    /\ cachedAt[v] <= last_time
    /\ (last_time \div SliceSize) - (cachedAt[v] \div SliceSize) < SliceCount

\* The cache is a set whose members expire: is_cached, count and the exception
\* of cache answer for a value younger than the retention period less a slice
\* and never for one that has reached it (Note 3 of fastcache.py).
Set == INSTANCE ExpiringSet WITH held <- values, born <- cachedAt, Slack <- SliceSize
ImplementsExpiringSet == Set!Spec

=============================================================================
