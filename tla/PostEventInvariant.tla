------------------------- MODULE PostEventInvariant -------------------------
(***************************************************************************)
(* Why PostEvent never gives an id out twice: the inductive invariant.     *)
(*                                                                         *)
(* An id comes from data that may be old: a secondary lags by up to        *)
(* MaxLag, and the process may dawdle for MaxDelay between its query and   *)
(* its insert.  The id is still safe, because whatever was inserted in the *)
(* meantime is too young to have expired: its document is there, and the   *)
(* insert collides with it.                                                *)
(***************************************************************************)
EXTENDS PostEvent

\* What the argument needs of the constants: no clock drift, no failure that
\* leaves an event uncounted, and events that live longer than it takes to
\* look for an id and to insert under it.
NoDrift == \A w \in Workers : Skew[w] = 0
AllCounted == Faults \cap UncountingFaults = {}
LongLived == 2 * MaxDelay + MaxLag <= Ttl

\* The processes whose event is stored but not counted yet.
Pending == {w \in Workers : pc[w] = "count"}

\* i may be tried as an id by whoever computed it from data of date t: it is
\* at most the next id, what was stored from i upwards is younger than
\* t - MaxDelay, and if i has been given out its event is still there.
Usable(i, t) ==
  /\ i <= top + 1
  /\ \A e \in events : e.id >= i => e.created >= t - MaxDelay
  /\ i <= top => Taken(i)

\* The live events are the last ones given out, without a gap ...
LiveAreLatest ==
  /\ \A e \in events : e.id <= top /\ e.created <= now
  /\ \A e \in events : \A i \in e.id .. top : Taken(i)

\* ... each with an id of its own.
IdsUnique == \A e, f \in events : e.id = f.id => e = f

\* The counter lacks exactly the events whose process has yet to count them,
\* and those are live.
CounterLags ==
  /\ counter + Cardinality(Pending) = top
  /\ \A w \in Pending :
       \E e \in events : e.id = nextId[w] /\ startedAt[w] <= e.created
  /\ \A v, w \in Pending : nextId[v] = nextId[w] => v = w

\* Attempts and secondaries keep to their time limits.
InTime ==
  /\ \A w \in Workers : pc[w] \in InAttempt =>
       startedAt[w] <= now /\ now <= startedAt[w] + MaxDelay
  /\ \A r \in Replicas : replica[r].at <= now /\ now <= replica[r].at + MaxLag

\* Either answer a secondary may give leads to a usable id.
SnapshotsUsable ==
  \A r \in Replicas :
    /\ Usable(replica[r].counter + 1, replica[r].at)
    /\ \A e \in replica[r].events :
         IsNewest(e, replica[r].events) => Usable(e.id + 1, replica[r].at)

\* So the id in a process's hands is usable, and a document whose id is new
\* is stamped no earlier than the events before it.
DraftsUsable ==
  \A w \in Workers :
    /\ pc[w] \in {"stamp", "insert"} => Usable(nextId[w], startedAt[w] - MaxLag)
    /\ pc[w] = "insert" => startedAt[w] <= created[w] /\ created[w] <= now
    /\ pc[w] = "insert" /\ nextId[w] = top + 1 =>
         \A e \in events : e.created <= created[w]

\* A process at work has a request.
Serving == \A w \in Workers : pc[w] \in Busy => post[w] \in Posts

\* Ids are given out in order, because every old reading is still usable.
IdsInOrder ==
  /\ LiveAreLatest
  /\ IdsUnique
  /\ ExpiryFollowsIds
  /\ CounterLags
  /\ InTime
  /\ SnapshotsUsable
  /\ DraftsUsable

\* The inductive invariant, under NoDrift, AllCounted and LongLived.
IInv == TypeOK /\ Serving /\ IdsInOrder
=============================================================================
