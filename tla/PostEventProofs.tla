-------------------------- MODULE PostEventProofs --------------------------
(***************************************************************************)
(* Theorems about PostEvent, for every number of processes, secondaries    *)
(* and requests and every choice of the limits.                            *)
(***************************************************************************)
EXTENDS PostEventInvariant, TLAPS, FiniteSetTheorems

\* Every action is one of these; used to split a step into cases.
LEMMA NextCases ==
  ASSUME Next
  PROVE  \/ \E w \in Workers :
              \/ Receive(w) \/ ReadNewest(w) \/ ReadCounter(w) \/ Stamp(w)
              \/ NoUuid(w) \/ Insert(w) \/ Duplicate(w) \/ Count(w)
              \/ ReadFails(w) \/ InsertFails(w) \/ CountFails(w) \/ Crash(w)
         \/ \E r \in Replicas : Replicate(r)
         \/ Expire
         \/ Tick
BY DEF Next, Proceed
-----------------------------------------------------------------------------
\* --- type correctness ----------------------------------------------------

\* A process that drops its request leaves its variables well-typed.
LEMMA LeaveType ==
  ASSUME TypeOK, NEW w \in Workers, Leave(w)
  PROVE  /\ pc' \in [Workers -> Busy \cup {"idle"}]
         /\ post' \in [Workers -> 0 .. MaxPosts]
         /\ kind' \in [Workers -> AllKinds \cup {"none"}]
         /\ attempt' \in [Workers -> 0 .. InsertAttempts - 1]
         /\ tries' \in [Workers -> 0 .. PostAttempts - 1]
         /\ nextId' \in [Workers -> Nat]
         /\ created' \in [Workers -> Int]
         /\ startedAt' \in [Workers -> Nat]
BY ConstantsAssumption DEF TypeOK, Leave, DropDraft

\* So does one that answers it, whatever it answers.
LEMMA RespondType ==
  ASSUME TypeOK, NEW w \in Workers, NEW a \in Answers, Respond(w, a)
  PROVE  /\ pc' \in [Workers -> Busy \cup {"idle"}]
         /\ post' \in [Workers -> 0 .. MaxPosts]
         /\ kind' \in [Workers -> AllKinds \cup {"none"}]
         /\ attempt' \in [Workers -> 0 .. InsertAttempts - 1]
         /\ tries' \in [Workers -> 0 .. PostAttempts - 1]
         /\ nextId' \in [Workers -> Nat]
         /\ created' \in [Workers -> Int]
         /\ startedAt' \in [Workers -> Nat]
         /\ answer' \in [Posts -> Answers]
<1>1. Leave(w)
  BY DEF Respond
<1>2. answer' \in [Posts -> Answers]
  BY DEF TypeOK, Respond
<1> QED
  BY <1>1, <1>2, LeaveType

\* And one that tries again after an AutoReconnect.
LEMMA ReconnectType ==
  ASSUME TypeOK, NEW w \in Workers, Reconnect(w)
  PROVE  /\ pc' \in [Workers -> Busy \cup {"idle"}]
         /\ post' \in [Workers -> 0 .. MaxPosts]
         /\ kind' \in [Workers -> AllKinds \cup {"none"}]
         /\ attempt' \in [Workers -> 0 .. InsertAttempts - 1]
         /\ tries' \in [Workers -> 0 .. PostAttempts - 1]
         /\ nextId' \in [Workers -> Nat]
         /\ created' \in [Workers -> Int]
         /\ startedAt' \in [Workers -> Nat]
         /\ answer' \in [Posts -> Answers]
<1>1. CASE tries[w] + 1 < PostAttempts
  BY <1>1, ConstantsAssumption
  DEF TypeOK, Reconnect, NextTry, DropDraft, request, Busy
<1>2. CASE ~(tries[w] + 1 < PostAttempts)
  <2>1. Respond(w, "unavailable")
    BY <1>2 DEF Reconnect, GiveUp
  <2> QED
    BY <2>1, RespondType DEF Answers
<1> QED
  BY <1>1, <1>2

\* A process at work goes on serving its request, or has none.
LEMMA LeaveServing ==
  ASSUME TypeOK, Serving, NEW w \in Workers, Leave(w)
  PROVE  Serving'
BY DEF TypeOK, Serving, Leave, Busy

LEMMA ReconnectServing ==
  ASSUME TypeOK, Serving, NEW w \in Workers, pc[w] \in Busy, Reconnect(w)
  PROVE  Serving'
BY LeaveServing DEF TypeOK, Serving, Reconnect, GiveUp, Respond, request

\* The primary stores a well-typed document.
LEMMA StoreType ==
  ASSUME TypeOK, NEW w \in Workers, pc[w] # "idle", Serving, Store(w)
  PROVE  /\ events' \subseteq Event
         /\ counter' \in Nat
         /\ top' \in Nat
         /\ stored' \in [Posts -> Nat]
<1>1. post[w] \in Posts
  BY DEF Serving, TypeOK
<1> QED
  BY <1>1 DEF TypeOK, Store, Event, Posts

\* TypeOK and Serving are inductive together: the type of stored needs the
\* request of every process at work to be a real one.
LEMMA TypeStep ==
  ASSUME TypeOK, Serving, [Next]_vars
  PROVE  TypeOK' /\ Serving'
<1> USE ConstantsAssumption
<1>1. CASE UNCHANGED vars
  BY <1>1 DEF TypeOK, Serving, vars, store, request, draft, history
<1>2. ASSUME NEW w \in Workers, Receive(w)
      PROVE  TypeOK' /\ Serving'
  <2>1. PICK k \in Kinds :
          IF k = "invalid"
          THEN /\ answer' = [answer EXCEPT ![posts + 1] = "badRequest"]
               /\ UNCHANGED <<pc, request>>
          ELSE /\ pc' = [pc EXCEPT ![w] = "newest"]
               /\ post' = [post EXCEPT ![w] = posts + 1]
               /\ kind' = [kind EXCEPT ![w] = k]
               /\ UNCHANGED answer
    BY <1>2 DEF Receive
  <2>2. posts + 1 \in Posts /\ posts' = posts + 1 /\ posts' \in 0 .. MaxPosts
    BY <1>2 DEF Receive, TypeOK, Posts
  <2>3. UNCHANGED <<store, replica, attempt, tries, draft, now>>
    BY <1>2 DEF Receive
  <2>4. CASE k = "invalid"
    BY <2>1, <2>2, <2>3, <2>4
    DEF TypeOK, Serving, store, request, draft, Answers
  <2>5. CASE k # "invalid"
    <3>1. pc' \in [Workers -> Busy \cup {"idle"}]
      BY <2>1, <2>5 DEF TypeOK, Busy
    <3>2. post' \in [Workers -> 0 .. MaxPosts]
      BY <2>1, <2>2, <2>5 DEF TypeOK, Posts
    <3>3. kind' \in [Workers -> AllKinds \cup {"none"}]
      BY <2>1, <2>5 DEF TypeOK
    <3>4. Serving'
      BY <2>1, <2>2, <2>5 DEF TypeOK, Serving
    <3> QED
      BY <2>1, <2>2, <2>3, <2>5, <3>1, <3>2, <3>3, <3>4
      DEF TypeOK, store, draft
  <2> QED
    BY <2>4, <2>5
<1>3. ASSUME NEW w \in Workers, ReadNewest(w)
      PROVE  TypeOK' /\ Serving'
  <2>1. PICK r \in Replicas :
          \/ /\ replica[r].events = {}
             /\ pc' = [pc EXCEPT ![w] = "fallback"]
             /\ UNCHANGED nextId
          \/ \E e \in replica[r].events :
               /\ IsNewest(e, replica[r].events)
               /\ nextId' = [nextId EXCEPT ![w] = e.id + 1]
               /\ pc' = [pc EXCEPT ![w] = "stamp"]
    BY <1>3 DEF ReadNewest
  <2> QED
    BY <1>3, <2>1
    DEF ReadNewest, TypeOK, Serving, Busy, store, request, history, Event,
        Snapshot
<1>4. ASSUME NEW w \in Workers, ReadCounter(w)
      PROVE  TypeOK' /\ Serving'
  BY <1>4
  DEF ReadCounter, TypeOK, Serving, Busy, store, request, history, Snapshot
<1>5. ASSUME NEW w \in Workers, Stamp(w)
      PROVE  TypeOK' /\ Serving'
  BY <1>5
  DEF Stamp, StampedAt, TypeOK, Serving, Busy, store, request, history
<1>6. ASSUME NEW w \in Workers, NoUuid(w)
      PROVE  TypeOK' /\ Serving'
  <2>1. Respond(w, "badRequest") /\ "badRequest" \in Answers
    BY <1>6 DEF NoUuid, Answers
  <2>2. Serving'
    BY <2>1, LeaveServing DEF Respond
  <2> QED
    BY <1>6, <2>1, <2>2, RespondType DEF NoUuid, TypeOK, store
<1>7. ASSUME NEW w \in Workers, Insert(w)
      PROVE  TypeOK' /\ Serving'
  <2>1. Store(w) /\ pc[w] # "idle"
    BY <1>7 DEF Insert
  <2>2. /\ events' \subseteq Event
        /\ counter' \in Nat
        /\ top' \in Nat
        /\ stored' \in [Posts -> Nat]
    BY <2>1, StoreType
  <2> QED
    BY <1>7, <2>2 DEF Insert, TypeOK, Serving, Busy, request, draft, history
<1>8. ASSUME NEW w \in Workers, Duplicate(w)
      PROVE  TypeOK' /\ Serving'
  <2>1. CASE MoreAttempts(w)
    BY <1>8, <2>1
    DEF Duplicate, MoreAttempts, TypeOK, Serving, Busy, DropDraft, store, request
  <2>2. CASE ~MoreAttempts(w)
    <3>1. Respond(w, "unavailable") /\ "unavailable" \in Answers
      BY <1>8, <2>2 DEF Duplicate, GiveUp, Answers
    <3>2. Serving'
      BY <3>1, LeaveServing DEF Respond
    <3> QED
      BY <1>8, <3>1, <3>2, RespondType DEF Duplicate, TypeOK, store
  <2> QED
    BY <2>1, <2>2
<1>9. ASSUME NEW w \in Workers, Count(w)
      PROVE  TypeOK' /\ Serving'
  <2>1. Respond(w, Outcome(kind[w])) /\ Outcome(kind[w]) \in Answers
    BY <1>9 DEF Count, Answers, Outcome
  <2>2. Serving'
    BY <2>1, LeaveServing DEF Respond
  <2> QED
    BY <1>9, <2>1, <2>2, RespondType DEF Count, IncCounter, TypeOK
<1>10. ASSUME NEW w \in Workers, ReadFails(w)
       PROVE  TypeOK' /\ Serving'
  <2>1. Reconnect(w) /\ pc[w] \in Busy
    BY <1>10 DEF ReadFails, Busy
  <2>2. Serving'
    BY <2>1, ReconnectServing
  <2> QED
    BY <1>10, <2>1, <2>2, ReconnectType DEF ReadFails, TypeOK, store
<1>11. ASSUME NEW w \in Workers, InsertFails(w)
       PROVE  TypeOK' /\ Serving'
  <2>1. Reconnect(w) /\ pc[w] \in Busy /\ pc[w] # "idle"
    BY <1>11 DEF InsertFails, Busy
  <2>2. Serving'
    BY <2>1, ReconnectServing
  <2>3. /\ events' \subseteq Event
        /\ counter' \in Nat
        /\ top' \in Nat
        /\ stored' \in [Posts -> Nat]
    BY <1>11, <2>1, StoreType DEF InsertFails, store, TypeOK
  <2> QED
    BY <1>11, <2>1, <2>2, <2>3, ReconnectType DEF InsertFails, TypeOK
<1>12. ASSUME NEW w \in Workers, CountFails(w)
       PROVE  TypeOK' /\ Serving'
  <2>1. Reconnect(w) /\ pc[w] \in Busy
    BY <1>12 DEF CountFails, Busy
  <2>2. Serving'
    BY <2>1, ReconnectServing
  <2> QED
    BY <1>12, <2>1, <2>2, ReconnectType DEF CountFails, IncCounter, TypeOK
<1>13. ASSUME NEW w \in Workers, Crash(w)
       PROVE  TypeOK' /\ Serving'
  <2>1. Leave(w)
    BY <1>13 DEF Crash
  <2>2. Serving'
    BY <2>1, LeaveServing
  <2> QED
    BY <1>13, <2>1, <2>2, LeaveType DEF Crash, TypeOK, store, history
<1>14. ASSUME NEW r \in Replicas, Replicate(r)
       PROVE  TypeOK' /\ Serving'
  BY <1>14
  DEF Replicate, TypeOK, Serving, store, request, draft, history, Snapshot
<1>15. CASE Expire
  BY <1>15 DEF Expire, TypeOK, Serving, request, draft, history
<1>16. CASE Tick
  BY <1>16 DEF Tick, TypeOK, Serving, store, request, draft, history
<1> QED
  BY <1>1, <1>2, <1>3, <1>4, <1>5, <1>6, <1>7, <1>8, <1>9, <1>10, <1>11,
     <1>12, <1>13, <1>14, <1>15, <1>16, NextCases

LEMMA TypeInit == Init => TypeOK /\ Serving
BY ConstantsAssumption
DEF Init, TypeOK, Serving, Event, Snapshot, Busy, AllKinds, Answers, Posts

\* Every variable keeps its type: in particular the loop variables stay below
\* the 100 and the 10 attempts, ids are natural numbers, and only requests
\* that exist are stored and answered.
THEOREM TypeCorrect == Spec => []TypeOK
<1>1. TypeOK /\ Serving /\ [Next]_vars => TypeOK' /\ Serving'
  BY TypeStep
<1> QED
  BY TypeInit, <1>1, PTL DEF Spec
-----------------------------------------------------------------------------
\* --- ids in order --------------------------------------------------------

\* An id that is free to the primary is the next one: every smaller id that
\* an old reading could have led to is still live.
LEMMA FreeIsNext ==
  ASSUME IInv, NEW w \in Workers, pc[w] = "insert", ~Taken(nextId[w])
  PROVE  nextId[w] = top + 1
BY DEF IInv, TypeOK, IdsInOrder, DraftsUsable, Usable

\* Nothing relevant changes.
LEMMA NothingChanges ==
  ASSUME IInv,
         UNCHANGED <<events, counter, top, replica, now, pc, nextId, created,
                     startedAt>>
  PROVE  IdsInOrder'
BY DEF IInv, IdsInOrder, LiveAreLatest, IdsUnique, ExpiryFollowsIds,
   CounterLags, Pending, InTime, SnapshotsUsable, DraftsUsable, Usable, Taken

\* A process other than one about to count gives up its attempt.
LEMMA LetGo ==
  ASSUME IInv, NEW w \in Workers, pc[w] # "count",
         NEW x \in {"idle", "newest"},
         pc' = [pc EXCEPT ![w] = x],
         \A v \in Workers \ {w} : /\ nextId'[v] = nextId[v]
                                  /\ created'[v] = created[v]
                                  /\ startedAt'[v] = startedAt[v],
         UNCHANGED <<events, counter, top, replica, now>>
  PROVE  IdsInOrder'
<1>1. pc'[w] = x /\ \A v \in Workers \ {w} : pc'[v] = pc[v]
  BY DEF IInv, TypeOK
<1>2. Pending' = Pending /\ w \notin Pending
  BY <1>1 DEF Pending
<1>3. LiveAreLatest' /\ IdsUnique' /\ ExpiryFollowsIds'
  BY DEF IInv, IdsInOrder, LiveAreLatest, IdsUnique, ExpiryFollowsIds, Taken
<1>4. CounterLags'
  BY <1>2 DEF IInv, IdsInOrder, CounterLags, Pending
<1>5. InTime'
  BY <1>1 DEF IInv, IdsInOrder, InTime, InAttempt, Busy
<1>6. SnapshotsUsable'
  BY DEF IInv, IdsInOrder, SnapshotsUsable, Usable, Taken
<1>7. DraftsUsable'
  BY <1>1 DEF IInv, IdsInOrder, DraftsUsable, Usable, Taken
<1> QED
  BY <1>3, <1>4, <1>5, <1>6, <1>7 DEF IdsInOrder

\* A process counts its event and ends its attempt.
LEMMA LetGoCounted ==
  ASSUME IInv, NEW w \in Workers, pc[w] = "count",
         NEW x \in {"idle", "newest"},
         pc' = [pc EXCEPT ![w] = x],
         \A v \in Workers \ {w} : /\ nextId'[v] = nextId[v]
                                  /\ created'[v] = created[v]
                                  /\ startedAt'[v] = startedAt[v],
         counter' = counter + 1,
         UNCHANGED <<events, top, replica, now>>
  PROVE  IdsInOrder'
<1>1. pc'[w] = x /\ \A v \in Workers \ {w} : pc'[v] = pc[v]
  BY DEF IInv, TypeOK
<1>2. Pending' = Pending \ {w} /\ w \in Pending
  BY <1>1 DEF Pending
<1>3. LiveAreLatest' /\ IdsUnique' /\ ExpiryFollowsIds'
  BY DEF IInv, IdsInOrder, LiveAreLatest, IdsUnique, ExpiryFollowsIds, Taken
<1>4. CounterLags'
  <2>1. IsFiniteSet(Pending) /\ Cardinality(Pending) \in Nat
    BY ConstantsAssumption, FS_Subset, FS_CardinalityType DEF Pending
  <2>2. Cardinality(Pending') = Cardinality(Pending) - 1
    BY <1>2, <2>1, FS_RemoveElement
  <2>3. counter' + Cardinality(Pending') = top'
    BY <2>1, <2>2 DEF IInv, TypeOK, IdsInOrder, CounterLags
  <2> QED
    BY <1>2, <2>3 DEF IInv, IdsInOrder, CounterLags, Pending
<1>5. InTime'
  BY <1>1 DEF IInv, IdsInOrder, InTime, InAttempt, Busy
<1>6. SnapshotsUsable'
  BY DEF IInv, IdsInOrder, SnapshotsUsable, Usable, Taken
<1>7. DraftsUsable'
  BY <1>1 DEF IInv, IdsInOrder, DraftsUsable, Usable, Taken
<1> QED
  BY <1>3, <1>4, <1>5, <1>6, <1>7 DEF IdsInOrder

\* The ways to give up, as instances of LetGo and LetGoCounted.
LEMMA LeaveOrReconnect ==
  ASSUME TypeOK, NEW w \in Workers, Leave(w) \/ Reconnect(w)
  PROVE  /\ \E x \in {"idle", "newest"} : pc' = [pc EXCEPT ![w] = x]
         /\ \A v \in Workers \ {w} : /\ nextId'[v] = nextId[v]
                                     /\ created'[v] = created[v]
                                     /\ startedAt'[v] = startedAt[v]
BY DEF TypeOK, Leave, Reconnect, GiveUp, Respond, DropDraft
-----------------------------------------------------------------------------
\* A process has computed an id from the data of a secondary, or is on its
\* way to.
LEMMA ReadStep ==
  ASSUME IInv, NEW w \in Workers, ReadNewest(w) \/ ReadCounter(w)
  PROVE  IdsInOrder'
<1> USE ConstantsAssumption
<1>1. UNCHANGED <<events, counter, top, replica, now, created>>
  BY DEF ReadNewest, ReadCounter, store
<1>2. /\ pc[w] \in {"newest", "fallback"}
      /\ pc'[w] \in {"fallback", "stamp"}
      /\ \A v \in Workers \ {w} : /\ pc'[v] = pc[v]
                                  /\ nextId'[v] = nextId[v]
                                  /\ startedAt'[v] = startedAt[v]
  BY DEF ReadNewest, ReadCounter, IInv, TypeOK
<1>3. Pending' = Pending /\ w \notin Pending
  BY <1>2 DEF Pending
<1>4. LiveAreLatest' /\ IdsUnique' /\ ExpiryFollowsIds'
  BY <1>1 DEF IInv, IdsInOrder, LiveAreLatest, IdsUnique, ExpiryFollowsIds, Taken
<1>5. CounterLags'
  BY <1>1, <1>2, <1>3 DEF IInv, IdsInOrder, CounterLags, Pending
<1>6. startedAt'[w] <= now /\ now <= startedAt'[w] + MaxDelay
  <2>1. CASE ReadNewest(w)
    BY <2>1 DEF ReadNewest, IInv, TypeOK
  <2>2. CASE ReadCounter(w)
    BY <2>2 DEF ReadCounter, IInv, IdsInOrder, InTime, InAttempt, Busy
  <2> QED
    BY <2>1, <2>2
<1>7. InTime'
  BY <1>1, <1>2, <1>6 DEF IInv, IdsInOrder, InTime, InAttempt, Busy
<1>8. SnapshotsUsable'
  BY <1>1 DEF IInv, IdsInOrder, SnapshotsUsable, Usable, Taken
<1>9. ASSUME pc'[w] = "stamp"
      PROVE  Usable(nextId'[w], startedAt'[w] - MaxLag)
  <2>1. PICK r \in Replicas :
          /\ nextId'[w] \in Nat
          /\ Usable(nextId'[w], replica[r].at)
    <3>1. CASE ReadNewest(w)
      <4>1. PICK r \in Replicas : \E e \in replica[r].events :
              /\ IsNewest(e, replica[r].events)
              /\ nextId' = [nextId EXCEPT ![w] = e.id + 1]
        BY <1>9, <3>1 DEF ReadNewest, IInv, TypeOK
      <4>2. PICK e \in replica[r].events :
              /\ IsNewest(e, replica[r].events)
              /\ nextId' = [nextId EXCEPT ![w] = e.id + 1]
        BY <4>1
      <4>3. nextId'[w] = e.id + 1 /\ e.id \in Nat
        BY <4>2 DEF IInv, TypeOK, Snapshot, Event
      <4> QED
        BY <4>2, <4>3 DEF IInv, IdsInOrder, SnapshotsUsable
    <3>2. CASE ReadCounter(w)
      <4>1. PICK r \in Replicas : nextId'[w] = replica[r].counter + 1
        BY <3>2 DEF ReadCounter, IInv, TypeOK
      <4> QED
        BY <4>1 DEF IInv, IdsInOrder, SnapshotsUsable, TypeOK, Snapshot
    <3> QED
      BY <3>1, <3>2
  <2>2. /\ now <= replica[r].at + MaxLag
        /\ replica[r].at \in Nat
    BY DEF IInv, IdsInOrder, InTime, TypeOK, Snapshot
  <2>3. startedAt'[w] \in Nat /\ now \in Nat
    BY DEF ReadNewest, ReadCounter, IInv, TypeOK
  <2>4. startedAt'[w] - MaxLag <= replica[r].at
    BY <1>6, <2>2, <2>3
  <2> QED
    BY <2>1, <2>2, <2>3, <2>4 DEF Usable, IInv, TypeOK, Event
<1>10. DraftsUsable'
  BY <1>1, <1>2, <1>9 DEF IInv, IdsInOrder, DraftsUsable, Usable, Taken
<1> QED
  BY <1>4, <1>5, <1>7, <1>8, <1>10 DEF IdsInOrder

\* The document is stamped now, no earlier than any live event.
LEMMA StampStep ==
  ASSUME NoDrift, IInv, NEW w \in Workers, Stamp(w)
  PROVE  IdsInOrder'
<1>1. UNCHANGED <<events, counter, top, replica, now, nextId, startedAt>>
  BY DEF Stamp, store
<1>2. /\ pc[w] = "stamp" /\ pc'[w] = "insert" /\ created'[w] = now
      /\ \A v \in Workers \ {w} : pc'[v] = pc[v] /\ created'[v] = created[v]
  BY ConstantsAssumption DEF Stamp, StampedAt, NoDrift, IInv, TypeOK
<1>3. Pending' = Pending
  BY <1>2 DEF Pending
<1>4. LiveAreLatest' /\ IdsUnique' /\ ExpiryFollowsIds'
  BY <1>1 DEF IInv, IdsInOrder, LiveAreLatest, IdsUnique, ExpiryFollowsIds, Taken
<1>5. CounterLags'
  BY <1>1, <1>3 DEF IInv, IdsInOrder, CounterLags
<1>6. InTime'
  BY <1>1, <1>2 DEF IInv, IdsInOrder, InTime, InAttempt, Busy
<1>7. SnapshotsUsable'
  BY <1>1 DEF IInv, IdsInOrder, SnapshotsUsable, Usable, Taken
<1>8. startedAt[w] <= now /\ now \in Nat /\ \A e \in events : e.created <= now
  BY <1>2 DEF IInv, IdsInOrder, InTime, InAttempt, Busy, LiveAreLatest, TypeOK
<1>9. DraftsUsable'
  BY <1>1, <1>2, <1>8 DEF IInv, IdsInOrder, DraftsUsable, Usable, Taken
<1> QED
  BY <1>4, <1>5, <1>6, <1>7, <1>9 DEF IdsInOrder
-----------------------------------------------------------------------------
\* A document just stored is the next event, and young.
LEMMA InsertFacts ==
  ASSUME IInv, NEW w \in Workers, Insert(w)
  PROVE  /\ nextId[w] = top + 1
         /\ events' = events \cup
              {[id |-> top + 1, created |-> created[w], post |-> post[w]]}
         /\ top' = top + 1
         /\ created[w] \in Int /\ startedAt[w] \in Nat
         /\ startedAt[w] <= created[w] /\ created[w] <= now
         /\ now <= startedAt[w] + MaxDelay
         /\ \A e \in events : e.id <= top /\ e.created <= created[w]
<1>1. pc[w] = "insert" /\ Store(w) /\ ~Taken(nextId[w])
  BY DEF Insert, Store
<1>2. nextId[w] = top + 1
  BY <1>1, FreeIsNext
<1>3. top' = top + 1
  BY <1>1, <1>2 DEF Store, IInv, TypeOK
<1> QED
  BY <1>1, <1>2, <1>3
  DEF Store, IInv, TypeOK, IdsInOrder, DraftsUsable, InTime, InAttempt, Busy,
      LiveAreLatest

\* Storing the next event keeps an id usable that was.
LEMMA InsertKeepsUsable ==
  ASSUME IInv, NEW w \in Workers, Insert(w),
         NEW i \in Nat, NEW t \in Int, Usable(i, t), t <= now
  PROVE  /\ i <= top' + 1
         /\ \A e \in events' : e.id >= i => e.created >= t - MaxDelay
         /\ i <= top' => \E e \in events' : e.id = i
<1> USE ConstantsAssumption
<1>1. now \in Nat /\ top \in Nat
  BY DEF IInv, TypeOK
<1>2. created[w] >= t - MaxDelay
  BY <1>1, InsertFacts
<1> DEFINE new == [id |-> top + 1, created |-> created[w], post |-> post[w]]
<1>3. events' = events \cup {new} /\ top' = top + 1
  BY InsertFacts
<1>4. new.id = top + 1 /\ new.created = created[w]
  OBVIOUS
<1> HIDE DEF new
<1> QED
  BY <1>1, <1>2, <1>3, <1>4 DEF Usable, Taken, IInv, TypeOK, Event

LEMMA InsertStep ==
  ASSUME IInv, NEW w \in Workers, Insert(w)
  PROVE  IdsInOrder'
<1> USE ConstantsAssumption
<1> DEFINE new == [id |-> top + 1, created |-> created[w], post |-> post[w]]
<1>1. /\ events' = events \cup {new}
      /\ top' = top + 1
      /\ new.id = top + 1
      /\ new.created = created[w]
  BY InsertFacts
<1>2. /\ nextId[w] = top + 1
      /\ created[w] \in Int /\ startedAt[w] \in Nat
      /\ startedAt[w] <= created[w] /\ created[w] <= now
      /\ now <= startedAt[w] + MaxDelay
      /\ \A e \in events : e.id <= top /\ e.created <= created[w]
  BY InsertFacts
<1> HIDE DEF new
<1>3. /\ UNCHANGED <<counter, replica, now, nextId, created, startedAt>>
      /\ pc[w] = "insert" /\ pc'[w] = "count"
      /\ \A v \in Workers \ {w} : pc'[v] = pc[v]
  BY DEF Insert, Store, draft, IInv, TypeOK
<1>4. /\ now \in Nat /\ top \in Nat /\ counter \in Nat
      /\ \A e \in events : e.id \in Nat /\ e.created \in Int
      /\ nextId \in [Workers -> Nat] /\ startedAt \in [Workers -> Nat]
  BY DEF IInv, TypeOK, Event
<1>5. LiveAreLatest'
  <2>1. \A e \in events' : e.id <= top' /\ e.created <= now'
    BY <1>1, <1>2, <1>3, <1>4 DEF IInv, IdsInOrder, LiveAreLatest
  <2>2. ASSUME NEW e \in events', NEW i \in e.id .. top'
        PROVE  \E f \in events' : f.id = i
    BY <1>1, <1>2, <1>4 DEF IInv, IdsInOrder, LiveAreLatest, Taken
  <2> QED
    BY <2>1, <2>2 DEF LiveAreLatest, Taken
<1>6. IdsUnique' /\ ExpiryFollowsIds'
  BY <1>1, <1>2, <1>4 DEF IInv, IdsInOrder, IdsUnique, ExpiryFollowsIds
<1>7. CounterLags'
  <2>1. Pending' = Pending \cup {w} /\ w \notin Pending
    BY <1>3 DEF Pending
  <2>2. IsFiniteSet(Pending) /\ Cardinality(Pending) \in Nat
    BY FS_Subset, FS_CardinalityType DEF Pending
  <2>3. Cardinality(Pending') = Cardinality(Pending) + 1
    BY <2>1, <2>2, FS_AddElement
  <2>4. counter' + Cardinality(Pending') = top'
    BY <1>1, <1>3, <1>4, <2>2, <2>3 DEF IInv, IdsInOrder, CounterLags
  <2>5. \A v \in Pending : nextId[v] <= top
    BY <1>2, <1>4 DEF IInv, IdsInOrder, CounterLags
  <2>6. \A v \in Pending' :
          \E e \in events' : e.id = nextId'[v] /\ startedAt'[v] <= e.created
    BY <1>1, <1>2, <1>3, <2>1 DEF IInv, IdsInOrder, CounterLags
  <2>7. \A u, v \in Pending' : nextId'[u] = nextId'[v] => u = v
    BY <1>2, <1>3, <1>4, <2>1, <2>5 DEF IInv, IdsInOrder, CounterLags, Pending
  <2> QED
    BY <2>4, <2>6, <2>7 DEF CounterLags
<1>8. InTime'
  BY <1>3 DEF IInv, IdsInOrder, InTime, InAttempt, Busy
<1>9. SnapshotsUsable'
  <2> SUFFICES ASSUME NEW r \in Replicas
               PROVE  /\ Usable(replica[r].counter + 1, replica[r].at)'
                      /\ \A e \in replica[r].events :
                           IsNewest(e, replica[r].events) =>
                             Usable(e.id + 1, replica[r].at)'
    BY <1>3 DEF SnapshotsUsable, IsNewest
  <2>1. /\ replica[r].at \in Int /\ replica[r].at <= now
        /\ replica[r].counter + 1 \in Nat
        /\ \A e \in replica[r].events : e.id + 1 \in Nat
    BY DEF IInv, TypeOK, Snapshot, Event, IdsInOrder, InTime
  <2>2. Usable(replica[r].counter + 1, replica[r].at)'
    BY <1>3, <2>1, InsertKeepsUsable
    DEF IInv, IdsInOrder, SnapshotsUsable, Usable, Taken
  <2>3. ASSUME NEW e \in replica[r].events, IsNewest(e, replica[r].events)
        PROVE  Usable(e.id + 1, replica[r].at)'
    BY <1>3, <2>1, <2>3, InsertKeepsUsable
    DEF IInv, IdsInOrder, SnapshotsUsable, Usable, Taken
  <2> QED
    BY <2>2, <2>3
<1>10. DraftsUsable'
  <2> SUFFICES ASSUME NEW v \in Workers, pc'[v] \in {"stamp", "insert"}
               PROVE  /\ Usable(nextId[v], startedAt[v] - MaxLag)'
                      /\ pc'[v] = "insert" =>
                           startedAt[v] <= created[v] /\ created[v] <= now
                      /\ nextId[v] # top' + 1
    BY <1>3 DEF DraftsUsable
  <2>1. v # w /\ pc[v] = pc'[v]
    BY <1>3
  <2>2. /\ nextId[v] \in Nat
        /\ startedAt[v] - MaxLag \in Int /\ startedAt[v] - MaxLag <= now
        /\ Usable(nextId[v], startedAt[v] - MaxLag)
    BY <1>4, <2>1
    DEF IInv, IdsInOrder, DraftsUsable, InTime, InAttempt, Busy
  <2>3. Usable(nextId[v], startedAt[v] - MaxLag)'
    BY <1>3, <2>2, InsertKeepsUsable DEF Usable, Taken
  <2>4. nextId[v] # top' + 1
    BY <1>1, <1>4, <2>2 DEF Usable
  <2> QED
    BY <2>1, <2>3, <2>4 DEF IInv, IdsInOrder, DraftsUsable
<1> QED
  BY <1>5, <1>6, <1>7, <1>8, <1>9, <1>10 DEF IdsInOrder
-----------------------------------------------------------------------------
LEMMA IntervalSize ==
  ASSUME NEW a \in Int, NEW b \in Int, a <= b + 1
  PROVE  IsFiniteSet(a .. b) /\ Cardinality(a .. b) = b - a + 1
<1>1. /\ IsFiniteSet(a .. b)
      /\ Cardinality(a .. b) = IF a > b THEN 0 ELSE b - a + 1
  BY FS_Interval
<1> QED
  BY <1>1

\* When the counter is behind, some process has yet to count an event that
\* is at most the one the counter would lead to: there are not enough ids
\* above it for all of them.
LEMMA SomeoneCounts ==
  ASSUME IInv, counter < top
  PROVE  \E w \in Pending : nextId[w] <= counter + 1
<1>1. /\ IsFiniteSet(Pending)
      /\ counter + Cardinality(Pending) = top
      /\ counter \in Nat /\ top \in Nat /\ Cardinality(Pending) \in Nat
  BY ConstantsAssumption, FS_Subset, FS_CardinalityType
  DEF Pending, IInv, TypeOK, IdsInOrder, CounterLags
<1>2. \A w \in Pending : nextId[w] \in Nat /\ nextId[w] <= top
  BY DEF Pending, IInv, TypeOK, IdsInOrder, CounterLags, LiveAreLatest
<1> SUFFICES ASSUME \A w \in Pending : nextId[w] > counter + 1
             PROVE  FALSE
  BY <1>1, <1>2
<1> DEFINE least == counter + 2
           above == least .. top
           f == [w \in Pending |-> nextId[w]]
<1>3. f \in [Pending -> above]
  BY <1>1, <1>2
<1>4. IsFiniteSet(above) /\ Cardinality(above) = top - counter - 1
  <2>1. least \in Int /\ top \in Int /\ least <= top + 1
    BY <1>1
  <2> HIDE DEF least, f
  <2>2. IsFiniteSet(above) /\ Cardinality(above) = top - least + 1
    BY <2>1, IntervalSize
  <2> HIDE DEF above
  <2> QED
    BY <1>1, <2>2 DEF least
<1>5. Cardinality(above) < Cardinality(Pending)
  BY <1>1, <1>4
<1> HIDE DEF above, f
<1>6. \E v, w \in Pending : v # w /\ f[v] = f[w]
  BY <1>1, <1>3, <1>4, <1>5, FS_PigeonHole, Zenon
<1> QED
  BY <1>6 DEF f, IInv, IdsInOrder, CounterLags

\* A fresh snapshot is usable: both its newest id and its counter.
LEMMA ReplicateStep ==
  ASSUME IInv, NEW s \in Replicas, Replicate(s)
  PROVE  IdsInOrder'
<1> USE ConstantsAssumption
<1>1. /\ UNCHANGED <<events, counter, top, now, pc, nextId, created, startedAt>>
      /\ replica'[s] = [events |-> events, counter |-> counter, at |-> now]
      /\ \A r \in Replicas \ {s} : replica'[r] = replica[r]
  BY DEF Replicate, store, draft, IInv, TypeOK
<1>2. /\ now \in Nat /\ top \in Nat /\ counter \in Nat
      /\ \A e \in events : e.id \in Nat /\ e.created \in Int
  BY DEF IInv, TypeOK, Event
<1>3. LiveAreLatest' /\ IdsUnique' /\ ExpiryFollowsIds' /\ CounterLags'
  BY <1>1 DEF IInv, IdsInOrder, LiveAreLatest, IdsUnique, ExpiryFollowsIds,
              CounterLags, Pending, Taken
<1>4. InTime'
  BY <1>1, <1>2 DEF IInv, IdsInOrder, InTime, InAttempt, Busy
<1>5. DraftsUsable'
  BY <1>1 DEF IInv, IdsInOrder, DraftsUsable, Usable, Taken
<1>6. Usable(counter + 1, now)
  <2>1. CASE counter < top
    <3>1. PICK w \in Pending : nextId[w] <= counter + 1
      BY <2>1, SomeoneCounts
    <3>2. PICK e \in events : e.id = nextId[w] /\ startedAt[w] <= e.created
      BY DEF IInv, IdsInOrder, CounterLags
    <3>3. startedAt[w] >= now - MaxDelay /\ startedAt[w] \in Nat
      BY <1>2 DEF Pending, IInv, TypeOK, IdsInOrder, InTime, InAttempt, Busy
    <3>4. e.created >= now - MaxDelay /\ e.id <= counter + 1
      BY <1>2, <3>1, <3>2, <3>3
    <3>5. counter + 1 \in e.id .. top
      BY <1>2, <2>1, <3>4
    <3>6. Taken(counter + 1)
      BY <3>5 DEF IInv, IdsInOrder, LiveAreLatest
    <3>7. ASSUME NEW f \in events, f.id >= counter + 1
          PROVE  f.created >= now - MaxDelay
      <4>1. f = e \/ e.created <= f.created
        BY <1>2, <3>4, <3>7 DEF IInv, IdsInOrder, IdsUnique, ExpiryFollowsIds
      <4> QED
        BY <1>2, <3>4, <4>1
    <3> QED
      BY <1>2, <2>1, <3>6, <3>7 DEF Usable
  <2>2. CASE ~(counter < top)
    <3>1. counter = top
      BY <1>2, <2>2, FS_Subset, FS_CardinalityType
      DEF Pending, IInv, IdsInOrder, CounterLags
    <3> QED
      BY <1>2, <3>1 DEF Usable, IInv, IdsInOrder, LiveAreLatest
  <2> QED
    BY <2>1, <2>2
<1>7. ASSUME NEW e \in events, IsNewest(e, events)
      PROVE  Usable(e.id + 1, now)
  <2>1. e.id \in Nat /\ e.id <= top /\ \A f \in events : f.id <= e.id
    BY <1>2, <1>7 DEF IsNewest, IInv, IdsInOrder, LiveAreLatest
  <2>2. e.id = top
    <3>1. Taken(top)
      BY <1>2, <2>1 DEF IInv, IdsInOrder, LiveAreLatest
    <3> QED
      BY <1>2, <2>1, <3>1 DEF Taken
  <2> QED
    BY <1>2, <2>1, <2>2 DEF Usable
<1>8. SnapshotsUsable'
  <2> SUFFICES ASSUME NEW r \in Replicas
               PROVE  /\ Usable(replica[r].counter + 1, replica[r].at)'
                      /\ \A e \in replica'[r].events :
                           IsNewest(e, replica'[r].events) =>
                             Usable(e.id + 1, replica[r].at)'
    BY DEF SnapshotsUsable, IsNewest
  <2>1. CASE r = s
    BY <1>1, <1>6, <1>7, <2>1 DEF Usable, Taken
  <2>2. CASE r # s
    BY <1>1, <2>2 DEF IInv, IdsInOrder, SnapshotsUsable, Usable, Taken
  <2> QED
    BY <2>1, <2>2
<1> QED
  BY <1>3, <1>4, <1>5, <1>8 DEF IdsInOrder

\* Expiry leaves usable ids usable: an event they might collide with is too
\* young to expire.
LEMMA ExpireKeepsUsable ==
  ASSUME LongLived, IInv, NEW x \in events, x.created + Ttl < now,
         NEW i \in Nat, NEW t \in Int, Usable(i, t),
         now <= t + MaxLag + MaxDelay,
         events' = events \ {x}, UNCHANGED top
  PROVE  /\ i <= top' + 1
         /\ \A e \in events' : e.id >= i => e.created >= t - MaxDelay
         /\ i <= top' => \E e \in events' : e.id = i
<1> USE ConstantsAssumption
<1>1. /\ now \in Nat /\ top \in Nat
      /\ \A e \in events : e.id \in Nat /\ e.created \in Int
  BY DEF IInv, TypeOK, Event
<1>2. x.id < i
  BY <1>1 DEF LongLived, Usable
<1> QED
  BY <1>1, <1>2 DEF Usable, Taken

LEMMA ExpireStep ==
  ASSUME LongLived, IInv, Expire
  PROVE  IdsInOrder'
<1> USE ConstantsAssumption
<1>1. PICK x \in events : /\ ExpiresFirst(x)
                          /\ x.created + Ttl < now
                          /\ events' = events \ {x}
  BY DEF Expire
<1>2. UNCHANGED <<counter, top, replica, now, pc, nextId, created, startedAt>>
  BY DEF Expire, draft
<1>3. /\ now \in Nat /\ top \in Nat
      /\ \A e \in events : e.id \in Nat /\ e.created \in Int
  BY DEF IInv, TypeOK, Event
<1>4. \A e \in events : e # x => x.id < e.id
  BY <1>1, <1>3 DEF ExpiresFirst, IInv, IdsInOrder, IdsUnique, ExpiryFollowsIds
<1>5. LiveAreLatest'
  BY <1>1, <1>2, <1>3, <1>4 DEF IInv, IdsInOrder, LiveAreLatest, Taken
<1>6. IdsUnique' /\ ExpiryFollowsIds'
  BY <1>1 DEF IInv, IdsInOrder, IdsUnique, ExpiryFollowsIds
<1>7. CounterLags'
  <2>1. Pending' = Pending
    BY <1>2 DEF Pending
  <2>2. ASSUME NEW w \in Pending
        PROVE  \E e \in events' : e.id = nextId[w] /\ startedAt[w] <= e.created
    <3>1. PICK e \in events : e.id = nextId[w] /\ startedAt[w] <= e.created
      BY DEF IInv, IdsInOrder, CounterLags
    <3>2. now <= startedAt[w] + MaxDelay /\ startedAt[w] \in Nat
      BY DEF Pending, IInv, TypeOK, IdsInOrder, InTime, InAttempt, Busy
    <3>3. e # x
      BY <1>1, <1>3, <3>1, <3>2 DEF LongLived
    <3> QED
      BY <1>1, <3>1, <3>3
  <2> QED
    BY <1>2, <2>1, <2>2 DEF IInv, IdsInOrder, CounterLags
<1>8. InTime'
  BY <1>2 DEF IInv, IdsInOrder, InTime, InAttempt, Busy
<1>9. SnapshotsUsable'
  <2> SUFFICES ASSUME NEW r \in Replicas
               PROVE  /\ Usable(replica[r].counter + 1, replica[r].at)'
                      /\ \A e \in replica[r].events :
                           IsNewest(e, replica[r].events) =>
                             Usable(e.id + 1, replica[r].at)'
    BY <1>2 DEF SnapshotsUsable, IsNewest
  <2>1. /\ replica[r].at \in Nat
        /\ now <= replica[r].at + MaxLag + MaxDelay
        /\ replica[r].counter + 1 \in Nat
        /\ \A e \in replica[r].events : e.id + 1 \in Nat
    BY <1>3 DEF IInv, TypeOK, Snapshot, Event, IdsInOrder, InTime
  <2>2. Usable(replica[r].counter + 1, replica[r].at)'
    BY <1>1, <1>2, <2>1, ExpireKeepsUsable
    DEF IInv, IdsInOrder, SnapshotsUsable, Usable, Taken
  <2>3. ASSUME NEW e \in replica[r].events, IsNewest(e, replica[r].events)
        PROVE  Usable(e.id + 1, replica[r].at)'
    BY <1>1, <1>2, <2>1, <2>3, ExpireKeepsUsable
    DEF IInv, IdsInOrder, SnapshotsUsable, Usable, Taken
  <2> QED
    BY <2>2, <2>3
<1>10. DraftsUsable'
  <2> SUFFICES ASSUME NEW v \in Workers, pc[v] \in {"stamp", "insert"}
               PROVE  Usable(nextId[v], startedAt[v] - MaxLag)'
    BY <1>1, <1>2 DEF IInv, IdsInOrder, DraftsUsable
  <2>1. /\ nextId[v] \in Nat
        /\ startedAt[v] - MaxLag \in Int
        /\ now <= (startedAt[v] - MaxLag) + MaxLag + MaxDelay
        /\ Usable(nextId[v], startedAt[v] - MaxLag)
    BY <1>3
    DEF IInv, TypeOK, IdsInOrder, DraftsUsable, InTime, InAttempt, Busy
  <2> QED
    BY <1>1, <1>2, <2>1, ExpireKeepsUsable DEF Usable, Taken
<1> QED
  BY <1>5, <1>6, <1>7, <1>8, <1>9, <1>10 DEF IdsInOrder

\* Time passes within the limits of attempts and lag.
LEMMA TickStep ==
  ASSUME IInv, Tick
  PROVE  IdsInOrder'
<1> USE ConstantsAssumption
<1>1. /\ now' = now + 1
      /\ \A w \in Workers :
           pc[w] \in InAttempt => now < startedAt[w] + MaxDelay
      /\ \A r \in Replicas : now < replica[r].at + MaxLag
      /\ UNCHANGED <<events, counter, top, replica, pc, nextId, created, startedAt>>
  BY DEF Tick, store, draft
<1>2. /\ now \in Nat
      /\ \A e \in events : e.created \in Int
      /\ \A w \in Workers : startedAt[w] \in Nat /\ created[w] \in Int
      /\ \A r \in Replicas : replica[r].at \in Nat
  BY DEF IInv, TypeOK, Event, Snapshot
<1>3. LiveAreLatest'
  BY <1>1, <1>2 DEF IInv, IdsInOrder, LiveAreLatest, Taken
<1>4. IdsUnique' /\ ExpiryFollowsIds' /\ CounterLags'
  BY <1>1 DEF IInv, IdsInOrder, IdsUnique, ExpiryFollowsIds, CounterLags, Pending
<1>5. InTime'
  BY <1>1, <1>2 DEF IInv, IdsInOrder, InTime, InAttempt, Busy
<1>6. SnapshotsUsable'
  BY <1>1 DEF IInv, IdsInOrder, SnapshotsUsable, Usable, Taken
<1>7. DraftsUsable'
  BY <1>1, <1>2 DEF IInv, IdsInOrder, DraftsUsable, Usable, Taken
<1> QED
  BY <1>3, <1>4, <1>5, <1>6, <1>7 DEF IdsInOrder
-----------------------------------------------------------------------------
LEMMA InvariantInit == Init => IInv
<1> SUFFICES ASSUME Init
             PROVE  IInv
  OBVIOUS
<1>1. TypeOK /\ Serving
  BY TypeInit
<1>2. Pending = {}
  BY DEF Init, Pending
<1>3. Cardinality(Pending) = 0
  BY <1>2, FS_EmptySet
<1>4. CounterLags
  BY <1>2, <1>3, ConstantsAssumption DEF Init, CounterLags
<1>5. Usable(FirstEvent + 1, 0)
  BY ConstantsAssumption DEF Init, Usable
<1>6. SnapshotsUsable
  BY <1>5 DEF Init, SnapshotsUsable
<1>7. LiveAreLatest /\ IdsUnique /\ ExpiryFollowsIds /\ InTime /\ DraftsUsable
  BY ConstantsAssumption
  DEF Init, LiveAreLatest, IdsUnique, ExpiryFollowsIds, InTime, DraftsUsable,
      InAttempt, Busy
<1> QED
  BY <1>1, <1>4, <1>6, <1>7 DEF IInv, IdsInOrder

LEMMA InvariantStep ==
  ASSUME NoDrift, AllCounted, LongLived, IInv, [Next]_vars
  PROVE  IInv'
<1>1. TypeOK' /\ Serving'
  BY TypeStep DEF IInv
<1>2. TypeOK
  BY DEF IInv
<1>3. CASE UNCHANGED vars
  BY <1>1, <1>3, NothingChanges DEF vars, store, draft, IInv
<1>4. ASSUME NEW w \in Workers, Receive(w)
      PROVE  IdsInOrder'
  <2>1. UNCHANGED <<events, counter, top, replica, now, nextId, created, startedAt>>
    BY <1>4 DEF Receive, store, draft
  <2>2. CASE pc' = [pc EXCEPT ![w] = "newest"]
    BY <1>4, <2>1, <2>2, LetGo DEF Receive
  <2>3. CASE UNCHANGED pc
    BY <2>1, <2>3, NothingChanges
  <2> QED
    BY <1>4, <2>2, <2>3 DEF Receive
<1>5. ASSUME NEW w \in Workers,
             NoUuid(w) \/ Duplicate(w) \/ ReadFails(w) \/ InsertFails(w) \/ Crash(w)
      PROVE  IdsInOrder'
  <2>1. UNCHANGED <<events, counter, top, replica, now>>
    BY <1>5
    DEF NoUuid, Duplicate, ReadFails, InsertFails, Crash, AllCounted,
        UncountingFaults, store
  <2>2. pc[w] # "count"
    BY <1>5
    DEF NoUuid, Duplicate, ReadFails, InsertFails, Crash, AllCounted,
        UncountingFaults
  <2>3. /\ \E x \in {"idle", "newest"} : pc' = [pc EXCEPT ![w] = x]
        /\ \A v \in Workers \ {w} : /\ nextId'[v] = nextId[v]
                                    /\ created'[v] = created[v]
                                    /\ startedAt'[v] = startedAt[v]
    <3>1. CASE Leave(w) \/ Reconnect(w)
      BY <1>2, <3>1, LeaveOrReconnect
    <3>2. CASE /\ pc' = [pc EXCEPT ![w] = "newest"]
               /\ DropDraft(w)
      BY <1>2, <3>2 DEF DropDraft, TypeOK
    <3> QED
      BY <1>5, <3>1, <3>2
      DEF NoUuid, Duplicate, ReadFails, InsertFails, Crash, GiveUp, Respond
  <2> QED
    BY <2>1, <2>2, <2>3, LetGo
<1>6. ASSUME NEW w \in Workers, Count(w) \/ CountFails(w)
      PROVE  IdsInOrder'
  <2>1. /\ pc[w] = "count" /\ counter' = counter + 1
        /\ UNCHANGED <<events, top, replica, now>>
    BY <1>6 DEF Count, CountFails, IncCounter, AllCounted, UncountingFaults
  <2>2. Leave(w) \/ Reconnect(w)
    BY <1>6 DEF Count, CountFails, Respond
  <2> QED
    BY <1>2, <2>1, <2>2, LeaveOrReconnect, LetGoCounted
<1> QED
  BY <1>1, <1>3, <1>4, <1>5, <1>6, NextCases, ReadStep, StampStep, InsertStep,
     ReplicateStep, ExpireStep, TickStep DEF IInv

\* The inductive invariant of PostEventInvariant holds in every behavior when
\* clocks agree, every event gets counted and events outlive two attempts and
\* the replication lag.
THEOREM Invariant ==
  ASSUME NoDrift, AllCounted, LongLived
  PROVE  Spec => []IInv
<1>1. IInv /\ [Next]_vars => IInv'
  BY InvariantStep
<1> QED
  BY InvariantInit, <1>1, PTL DEF Spec

\* Under the same assumptions a new event's id is above every id given out
\* before: a client that polls for ids above the last it saw misses nothing.
THEOREM IdsGrow ==
  ASSUME NoDrift, AllCounted, LongLived
  PROVE  Spec => IdsOnlyGrow
<1>1. ASSUME IInv, [Next]_vars
      PROVE  [\A e \in events' \ events : e.id > top]_vars
  <2>1. ASSUME NEW w \in Workers, Insert(w)
        PROVE  \A e \in events' \ events : e.id > top
    BY <1>1, <2>1, InsertFacts DEF IInv, TypeOK
  <2>2. CASE UNCHANGED vars
    BY <2>2
  <2>3. CASE events' \subseteq events
    BY <2>3
  <2>4. CASE \E w \in Workers : InsertFails(w)
    BY <2>3, <2>4 DEF InsertFails, AllCounted, UncountingFaults, store
  <2> QED
    BY <1>1, <2>1, <2>2, <2>3, <2>4, NextCases
    DEF Receive, ReadNewest, ReadCounter, Stamp, NoUuid, Duplicate, Count,
        ReadFails, CountFails, Crash, Replicate, Expire, Tick, store
<1>2. Spec => []IInv
  BY Invariant
<1>3. Spec => [][Next]_vars
  BY PTL DEF Spec
<1> QED
  BY <1>1, <1>2, <1>3, PTL DEF IdsOnlyGrow

\* Under the same assumptions the fallback to the side counter is exact:
\* once every event has expired the counter is the last id given out.
THEOREM CounterExact ==
  ASSUME NoDrift, AllCounted, LongLived
  PROVE  Spec => []CounterKeepsUp
<1>1. ASSUME IInv
      PROVE  CounterKeepsUp
  <2> SUFFICES ASSUME events = {}
               PROVE  counter = top
    BY DEF CounterKeepsUp
  <2>1. Pending = {}
    BY <1>1 DEF IInv, IdsInOrder, CounterLags
  <2>2. Cardinality(Pending) = 0
    BY <2>1, FS_EmptySet
  <2> QED
    BY <1>1, <2>2 DEF IInv, TypeOK, IdsInOrder, CounterLags
<1> QED
  BY <1>1, Invariant, PTL

\* At no time is the counter ahead of the ids given out: what it lacks is the
\* number of events whose process has yet to count them.
THEOREM CounterNotAhead ==
  ASSUME NoDrift, AllCounted, LongLived
  PROVE  Spec => []CounterNeverAhead
<1>1. ASSUME IInv
      PROVE  CounterNeverAhead
  <2>1. Cardinality(Pending) \in Nat
    BY ConstantsAssumption, FS_Subset, FS_CardinalityType DEF Pending
  <2> QED
    BY <1>1, <2>1 DEF IInv, TypeOK, IdsInOrder, CounterLags, CounterNeverAhead
<1> QED
  BY <1>1, Invariant, PTL

\* Under the same assumptions events expire in the order of their ids, which
\* is what lets the highest live id stand for the highest id ever.
THEOREM ExpiryInOrder ==
  ASSUME NoDrift, AllCounted, LongLived
  PROVE  Spec => []ExpiryFollowsIds
<1>1. IInv => ExpiryFollowsIds
  BY DEF IInv, IdsInOrder
<1> QED
  BY <1>1, Invariant, PTL
-----------------------------------------------------------------------------
\* --- the write side implements the log -----------------------------------

\* The events as the log sees them.
AbsEvents == {[id |-> e.id, payload |-> e.post] : e \in events}

\* Storing a document appends to the log.
LEMMA InsertAppends ==
  ASSUME IInv, NEW w \in Workers, Insert(w)
  PROVE  Log!Next
<1>1. post[w] \in Posts
  BY DEF Insert, IInv, Serving, Busy
<1> DEFINE new == [id |-> top + 1, created |-> created[w], post |-> post[w]]
<1>2. events' = events \cup {new} /\ top' = top + 1
  BY InsertFacts
<1>3. AbsEvents' = AbsEvents \cup {[id |-> top + 1, payload |-> post[w]]}
  <2>1. new.id = top + 1 /\ new.post = post[w]
    OBVIOUS
  <2> HIDE DEF new
  <2> DEFINE abs(e) == [id |-> e.id, payload |-> e.post]
  <2>2. abs(new) = [id |-> top + 1, payload |-> post[w]]
    BY <2>1
  <2>3. AbsEvents = {abs(e) : e \in events}
    BY DEF AbsEvents
  <2>4. AbsEvents' = {abs(e) : e \in events'}
    BY DEF AbsEvents
  <2> HIDE DEF abs
  <2> QED
    BY <1>2, <2>2, <2>3, <2>4
<1> QED
  BY <1>1, <1>2, <1>3 DEF Log!Next, Log!AppendEvent, AbsEvents

\* The TTL monitor makes the log forget its oldest event.
LEMMA ExpireForgets ==
  ASSUME IInv, Expire
  PROVE  Log!Next
<1>1. PICK x \in events : ExpiresFirst(x) /\ events' = events \ {x}
  BY DEF Expire
<1>2. \A e \in events : e.id \in Nat /\ e.created \in Int
  BY DEF IInv, TypeOK, Event
<1>3. \A e \in events : x.id <= e.id /\ (e.id = x.id => e = x)
  BY <1>1, <1>2 DEF ExpiresFirst, IInv, IdsInOrder, IdsUnique, ExpiryFollowsIds
<1> DEFINE ax == [id |-> x.id, payload |-> x.post]
<1>4. ax \in AbsEvents /\ \A a \in AbsEvents : ax.id <= a.id
  BY <1>3 DEF AbsEvents
<1>5. AbsEvents' = AbsEvents \ {ax}
  BY <1>1, <1>3 DEF AbsEvents
<1>6. UNCHANGED top
  BY DEF Expire
<1> HIDE DEF ax
<1> QED
  BY <1>4, <1>5, <1>6 DEF Log!Next, Log!Forget, AbsEvents

\* Under the same assumptions collisions, lagging reads, expiry, the fallback
\* and the failures that remain are invisible: PostEvent implements the log
\* of consecutive ids that forgets from its oldest end.
THEOREM RefinesLog ==
  ASSUME NoDrift, AllCounted, LongLived
  PROVE  Spec => ImplementsLog
<1>1. Init => Log!Init
  BY DEF Init, Log!Init
<1>2. ASSUME IInv, [Next]_vars
      PROVE  [Log!Next]_Log!logVars
  <2>1. CASE UNCHANGED <<events, top>>
    BY <2>1 DEF Log!logVars
  <2>2. CASE \E w \in Workers : InsertFails(w)
    BY <2>1, <2>2 DEF InsertFails, AllCounted, UncountingFaults, store
  <2> QED
    BY <1>2, <2>1, <2>2, NextCases, InsertAppends, ExpireForgets
    DEF Receive, ReadNewest, ReadCounter, Stamp, NoUuid, Duplicate, Count,
        ReadFails, CountFails, Crash, Replicate, Tick, vars, store
<1>3. Spec => []IInv
  BY Invariant
<1> QED
  BY <1>1, <1>2, <1>3, PTL DEF Spec, ImplementsLog, Log!Spec
-----------------------------------------------------------------------------
\* --- what requests are answered --------------------------------------------
\* Whatever fails, an answer that reports success is for a stored event, and
\* retries are bounded.  This needs nothing of clocks, lags and expiry, only that
\* a request is served by one process.

\* No failure leaves a process in doubt whether its write was applied, or makes
\* it insert again what is stored.
RepliesKnown == Faults \cap {"insertLost", "countRefused", "countLost"} = {}

Success == {"created", "callback"}
Refusal == {"unavailable", "badRequest"}

\* A request is served by one process and answered once; later ones have not
\* been heard of.
OneEach ==
  /\ \A w \in Workers :
       IF pc[w] = "idle" THEN post[w] = 0
                         ELSE post[w] \in 1 .. posts /\ answer[post[w]] = "none"
  /\ \A v, w \in Workers : v # w /\ post[v] # 0 => post[v] # post[w]
  /\ \A n \in Posts : n > posts => stored[n] = 0 /\ answer[n] = "none"

\* What is about to be counted is stored, and each further copy took a reconnect.
CopiesTold ==
  \A w \in Workers :
    pc[w] # "idle" =>
      /\ pc[w] = "count" => stored[post[w]] > 0
      /\ stored[post[w]] <= tries[w] + (IF pc[w] = "count" THEN 1 ELSE 0)

\* Without doubts a request at work is stored once it is to be counted, and not
\* before.
ExactlyOnce ==
  \A w \in Workers :
    pc[w] # "idle" => stored[post[w]] = IF pc[w] = "count" THEN 1 ELSE 0

Fates ==
  /\ OneEach /\ CopiesTold /\ AckedIsStored
  /\ RepliesKnown => ExactlyOnce /\ AnswerTellsTheTruth

\* The inductive invariant of requests and their answers.
FateInv == TypeOK /\ Serving /\ Fates
-----------------------------------------------------------------------------
\* --- what a step does to a request ----------------------------------------

\* It goes from one call to another, or none of its variables changes.
LEMMA Stays ==
  ASSUME FateInv, UNCHANGED <<post, posts, stored, answer, tries>>,
         \A v \in Workers : /\ pc'[v] = "idle" <=> pc[v] = "idle"
                            /\ pc'[v] = "count" <=> pc[v] = "count"
  PROVE  Fates'
<1>1. OneEach'
  BY DEF FateInv, Fates, OneEach
<1>2. CopiesTold'
  BY DEF FateInv, Fates, CopiesTold
<1>3. AckedIsStored'
  BY DEF FateInv, Fates, AckedIsStored
<1>4. RepliesKnown => ExactlyOnce' /\ AnswerTellsTheTruth'
  BY DEF FateInv, Fates, ExactlyOnce, AnswerTellsTheTruth
<1> QED
  BY <1>1, <1>2, <1>3, <1>4 DEF Fates, RepliesKnown

\* Its event is stored, once more at most.
Copies(w) == stored' = stored \/ stored' = [stored EXCEPT ![post[w]] = @ + 1]

\* It is answered or dropped.
LEMMA Ends ==
  ASSUME FateInv, NEW w \in Workers, pc[w] # "idle", Leave(w), Copies(w), posts' = posts,
         \/ answer' = answer
         \/ \E a \in Answers :
              /\ answer' = [answer EXCEPT ![post[w]] = a]
              /\ a \in Success => pc[w] = "count" /\ stored' = stored
              /\ a \in Refusal /\ RepliesKnown => pc[w] # "count" /\ stored' = stored
  PROVE  Fates'
<1>1. /\ pc'[w] = "idle" /\ post'[w] = 0
      /\ \A v \in Workers \ {w} : pc'[v] = pc[v] /\ post'[v] = post[v] /\ tries'[v] = tries[v]
  BY DEF FateInv, Fates, TypeOK, Leave
<1>2. post[w] \in 1 .. posts /\ post[w] \in Posts /\ answer[post[w]] = "none"
  BY DEF FateInv, Fates, OneEach, TypeOK, Posts
<1>3. \A n \in Posts \ {post[w]} : stored'[n] = stored[n] /\ answer'[n] = answer[n]
  BY <1>2 DEF FateInv, Fates, TypeOK, Copies
<1>4. \A v \in Workers \ {w} : pc[v] # "idle" => post[v] \in Posts \ {post[w]}
  BY <1>2 DEF FateInv, Fates, OneEach, TypeOK, Posts
<1>5. OneEach'
  BY <1>1, <1>2, <1>3, <1>4 DEF FateInv, Fates, OneEach, TypeOK
<1>6. CopiesTold'
  BY <1>1, <1>3, <1>4 DEF FateInv, Fates, CopiesTold
<1>7. AckedIsStored'
  <2>1. answer'[post[w]] \in Success => pc[w] = "count" /\ stored' = stored
    BY <1>2 DEF FateInv, Fates, TypeOK, Success
  <2> QED
    BY <1>2, <1>3, <2>1 DEF FateInv, Fates, AckedIsStored, CopiesTold, Success
<1>8. ASSUME RepliesKnown
      PROVE  ExactlyOnce' /\ AnswerTellsTheTruth'
  <2>1. ExactlyOnce'
    BY <1>1, <1>3, <1>4, <1>8 DEF FateInv, Fates, ExactlyOnce
  <2>2. /\ answer'[post[w]] \in Success => pc[w] = "count" /\ stored' = stored
        /\ answer'[post[w]] \in Refusal => pc[w] # "count" /\ stored' = stored
    BY <1>2, <1>8 DEF FateInv, Fates, TypeOK, Success, Refusal
  <2>3. AnswerTellsTheTruth'
    BY <1>2, <1>3, <1>8, <2>2
    DEF FateInv, Fates, AnswerTellsTheTruth, ExactlyOnce, Success, Refusal
  <2> QED
    BY <2>1, <2>3
<1> QED
  BY <1>5, <1>6, <1>7, <1>8 DEF Fates, RepliesKnown

\* It is tried again after an AutoReconnect.
LEMMA TriedAgain ==
  ASSUME FateInv, NEW w \in Workers, pc[w] # "idle",
         pc' = [pc EXCEPT ![w] = "newest"], tries' = [tries EXCEPT ![w] = @ + 1],
         UNCHANGED <<post, posts, answer>>, Copies(w),
         pc[w] = "count" \/ RepliesKnown => stored' = stored,
         RepliesKnown => pc[w] # "count"
  PROVE  Fates'
<1>1. /\ pc'[w] = "newest" /\ tries'[w] = tries[w] + 1 /\ tries[w] \in Nat
      /\ \A v \in Workers \ {w} : pc'[v] = pc[v] /\ tries'[v] = tries[v]
  BY ConstantsAssumption DEF FateInv, Fates, TypeOK
<1>2. post[w] \in 1 .. posts /\ post[w] \in Posts /\ stored[post[w]] \in Nat
  BY DEF FateInv, Fates, OneEach, TypeOK, Posts
<1>3. /\ \A n \in Posts \ {post[w]} : stored'[n] = stored[n]
      /\ stored'[post[w]] \in {stored[post[w]], stored[post[w]] + 1}
  BY <1>2 DEF FateInv, Fates, TypeOK, Copies
<1>4. \A v \in Workers \ {w} : pc[v] # "idle" => post[v] \in Posts \ {post[w]}
  BY <1>2 DEF FateInv, Fates, OneEach, TypeOK, Posts
<1>5. OneEach'
  BY <1>1, <1>2, <1>3 DEF FateInv, Fates, OneEach, TypeOK
<1>6. CopiesTold'
  <2>1. stored'[post[w]] <= tries[w] + 1
    BY <1>1, <1>2, <1>3 DEF FateInv, Fates, CopiesTold
  <2> QED
    BY <1>1, <1>3, <1>4, <2>1 DEF FateInv, Fates, CopiesTold
<1>7. AckedIsStored'
  BY <1>2, <1>3 DEF FateInv, Fates, AckedIsStored
<1>8. ASSUME RepliesKnown
      PROVE  ExactlyOnce' /\ AnswerTellsTheTruth'
  BY <1>1, <1>8 DEF FateInv, Fates, ExactlyOnce, AnswerTellsTheTruth
<1> QED
  BY <1>5, <1>6, <1>7, <1>8 DEF Fates, RepliesKnown

\* It is inserted.
LEMMA Inserted ==
  ASSUME FateInv, NEW w \in Workers, pc[w] = "insert", pc' = [pc EXCEPT ![w] = "count"],
         stored' = [stored EXCEPT ![post[w]] = @ + 1],
         UNCHANGED <<post, posts, answer, tries>>
  PROVE  Fates'
<1>1. pc'[w] = "count" /\ \A v \in Workers \ {w} : pc'[v] = pc[v]
  BY DEF FateInv, Fates, TypeOK
<1>2. /\ post[w] \in 1 .. posts /\ post[w] \in Posts /\ answer[post[w]] = "none"
      /\ stored[post[w]] \in Nat /\ tries[w] \in Nat
  BY ConstantsAssumption DEF FateInv, Fates, OneEach, TypeOK, Posts
<1>3. /\ \A n \in Posts \ {post[w]} : stored'[n] = stored[n]
      /\ stored'[post[w]] = stored[post[w]] + 1
  BY <1>2 DEF FateInv, Fates, TypeOK
<1>4. \A v \in Workers \ {w} : pc[v] # "idle" => post[v] \in Posts \ {post[w]}
  BY <1>2 DEF FateInv, Fates, OneEach, TypeOK, Posts
<1>5. OneEach'
  BY <1>1, <1>2, <1>3 DEF FateInv, Fates, OneEach, TypeOK
<1>6. CopiesTold'
  <2>1. stored[post[w]] <= tries[w]
    BY <1>2 DEF FateInv, Fates, CopiesTold
  <2> QED
    BY <1>1, <1>2, <1>3, <1>4, <2>1 DEF FateInv, Fates, CopiesTold
<1>7. AckedIsStored'
  BY <1>2, <1>3 DEF FateInv, Fates, AckedIsStored
<1>8. ASSUME RepliesKnown
      PROVE  ExactlyOnce' /\ AnswerTellsTheTruth'
  <2>1. stored[post[w]] = 0
    BY <1>8 DEF FateInv, Fates, ExactlyOnce
  <2>2. ExactlyOnce'
    BY <1>1, <1>3, <1>4, <1>8, <2>1 DEF FateInv, Fates, ExactlyOnce
  <2>3. AnswerTellsTheTruth'
    BY <1>2, <1>3, <1>8 DEF FateInv, Fates, AnswerTellsTheTruth
  <2> QED
    BY <2>2, <2>3
<1> QED
  BY <1>5, <1>6, <1>7, <1>8 DEF Fates, RepliesKnown

\* It arrives, and is refused or given to an idle process.
LEMMA Arrives ==
  ASSUME FateInv, NEW w \in Workers, Receive(w)
  PROVE  Fates'
<1>1. /\ pc[w] = "idle" /\ posts' = posts + 1 /\ posts + 1 \in Posts /\ posts \in Nat
      /\ stored' = stored /\ tries' = tries
  BY ConstantsAssumption DEF Receive, FateInv, Fates, TypeOK, Posts, store
<1>2. \/ /\ answer' = [answer EXCEPT ![posts + 1] = "badRequest"]
         /\ pc' = pc /\ post' = post
      \/ /\ pc' = [pc EXCEPT ![w] = "newest"] /\ post' = [post EXCEPT ![w] = posts + 1]
         /\ answer' = answer
  BY DEF Receive, request
<1>3. /\ stored[posts + 1] = 0 /\ answer[posts + 1] = "none"
      /\ \A n \in Posts \ {posts + 1} : answer'[n] = answer[n]
      /\ \A v \in Workers : post[v] # posts + 1
  BY <1>1, <1>2 DEF FateInv, Fates, OneEach, TypeOK
<1>4. \A v \in Workers \ {w} : pc'[v] = pc[v] /\ post'[v] = post[v]
  BY <1>2 DEF FateInv, Fates, TypeOK
<1>5. \/ pc'[w] = "idle" /\ post'[w] = 0 /\ answer'[posts + 1] = "badRequest"
      \/ pc'[w] = "newest" /\ post'[w] = posts + 1 /\ answer' = answer
  BY <1>1, <1>2 DEF FateInv, Fates, OneEach, TypeOK
<1>6. \A v \in Workers : pc[v] # "idle" => post[v] \in 1 .. posts /\ post[v] \in Posts
  BY DEF FateInv, Fates, OneEach, TypeOK, Posts
<1>7. OneEach'
  <2>1. \A v \in Workers :
          IF pc'[v] = "idle" THEN post'[v] = 0
                             ELSE post'[v] \in 1 .. posts' /\ answer'[post'[v]] = "none"
    BY <1>1, <1>3, <1>4, <1>5, <1>6 DEF FateInv, Fates, OneEach
  <2>2. \A u, v \in Workers : u # v /\ post'[u] # 0 => post'[u] # post'[v]
    BY <1>1, <1>3, <1>4, <1>5 DEF FateInv, Fates, OneEach
  <2>3. \A n \in Posts : n > posts' => stored'[n] = 0 /\ answer'[n] = "none"
    BY <1>1, <1>3 DEF FateInv, Fates, OneEach, Posts
  <2> QED
    BY <2>1, <2>2, <2>3 DEF OneEach
<1>8. CopiesTold'
  BY <1>1, <1>3, <1>4, <1>5, <1>6, ConstantsAssumption DEF FateInv, Fates, CopiesTold, TypeOK
<1>9. AckedIsStored'
  BY <1>1, <1>3, <1>5 DEF FateInv, Fates, AckedIsStored
<1>10. ASSUME RepliesKnown
       PROVE  ExactlyOnce' /\ AnswerTellsTheTruth'
  <2>1. ExactlyOnce'
    BY <1>1, <1>3, <1>4, <1>5, <1>10 DEF FateInv, Fates, ExactlyOnce
  <2>2. AnswerTellsTheTruth'
    BY <1>1, <1>3, <1>5, <1>10 DEF FateInv, Fates, AnswerTellsTheTruth
  <2> QED
    BY <2>1, <2>2
<1> QED
  BY <1>7, <1>8, <1>9, <1>10 DEF Fates, RepliesKnown
-----------------------------------------------------------------------------
\* --- the steps ------------------------------------------------------------

LEMMA ReconnectFates ==
  ASSUME FateInv, NEW w \in Workers, pc[w] # "idle", Reconnect(w), Copies(w), posts' = posts,
         pc[w] = "count" \/ RepliesKnown => stored' = stored,
         RepliesKnown => pc[w] # "count"
  PROVE  Fates'
<1>1. CASE tries[w] + 1 < PostAttempts
  BY <1>1, TriedAgain DEF Reconnect, NextTry, request
<1>2. CASE ~(tries[w] + 1 < PostAttempts)
  <2>1. Leave(w) /\ answer' = [answer EXCEPT ![post[w]] = "unavailable"]
    BY <1>2 DEF Reconnect, GiveUp, Respond
  <2> QED
    BY <2>1, Ends DEF Answers, Success
<1> QED
  BY <1>1, <1>2

LEMMA FateStep ==
  ASSUME FateInv, [Next]_vars
  PROVE  FateInv'
<1>0. TypeOK' /\ Serving'
  BY TypeStep DEF FateInv, Fates
<1> SUFFICES Fates'
  BY <1>0 DEF FateInv, Fates
<1>1. CASE UNCHANGED vars
  BY <1>1, Stays DEF vars, store, request, history
<1>2. ASSUME NEW w \in Workers, Receive(w)
      PROVE  Fates'
  BY <1>2, Arrives
<1>3. ASSUME NEW w \in Workers, ReadNewest(w) \/ ReadCounter(w) \/ Stamp(w)
      PROVE  Fates'
  <2>1. UNCHANGED <<post, posts, stored, answer, tries>>
    BY <1>3 DEF ReadNewest, ReadCounter, Stamp, store, request, history
  <2>2. /\ pc[w] \notin {"idle", "count"} /\ pc'[w] \notin {"idle", "count"}
        /\ \A v \in Workers \ {w} : pc'[v] = pc[v]
    BY <1>3 DEF ReadNewest, ReadCounter, Stamp, FateInv, Fates, TypeOK
  <2> QED
    BY <2>1, <2>2, Stays
<1>4. ASSUME NEW w \in Workers, NoUuid(w)
      PROVE  Fates'
  <2>1. /\ Leave(w) /\ answer' = [answer EXCEPT ![post[w]] = "badRequest"]
        /\ pc[w] = "stamp" /\ stored' = stored /\ posts' = posts
    BY <1>4 DEF NoUuid, Respond, store
  <2> QED
    BY <2>1, Ends DEF Answers, Success, Copies
<1>5. ASSUME NEW w \in Workers, Insert(w)
      PROVE  Fates'
  BY <1>5, Inserted DEF Insert, Store, request, history
<1>6. ASSUME NEW w \in Workers, Duplicate(w)
      PROVE  Fates'
  <2>0. pc[w] = "insert" /\ stored' = stored /\ posts' = posts
    BY <1>6 DEF Duplicate, store
  <2>1. CASE MoreAttempts(w)
    <3>1. UNCHANGED <<post, posts, stored, answer, tries>> /\ pc' = [pc EXCEPT ![w] = "newest"]
      BY <1>6, <2>0, <2>1 DEF Duplicate, request
    <3>2. pc'[w] = "newest" /\ \A v \in Workers \ {w} : pc'[v] = pc[v]
      BY <3>1 DEF FateInv, Fates, TypeOK
    <3> QED
      BY <2>0, <3>1, <3>2, Stays
  <2>2. CASE ~MoreAttempts(w)
    <3>1. Leave(w) /\ answer' = [answer EXCEPT ![post[w]] = "unavailable"]
      BY <1>6, <2>2 DEF Duplicate, GiveUp, Respond
    <3> QED
      BY <2>0, <3>1, Ends DEF Answers, Success, Copies
  <2> QED
    BY <2>1, <2>2
<1>7. ASSUME NEW w \in Workers, Count(w)
      PROVE  Fates'
  <2>1. /\ pc[w] = "count" /\ stored' = stored /\ posts' = posts /\ Leave(w)
        /\ answer' = [answer EXCEPT ![post[w]] = Outcome(kind[w])]
    BY <1>7 DEF Count, Respond
  <2>2. Outcome(kind[w]) \in Answers \ Refusal
    BY DEF Outcome, Answers, Refusal
  <2> QED
    BY <2>1, <2>2, Ends DEF Copies
<1>8. ASSUME NEW w \in Workers, ReadFails(w)
      PROVE  Fates'
  <2>1. /\ pc[w] \in {"newest", "fallback"} /\ Reconnect(w)
        /\ stored' = stored /\ posts' = posts
    BY <1>8 DEF ReadFails, store
  <2> QED
    BY <2>1, ReconnectFates DEF Copies
<1>9. ASSUME NEW w \in Workers, InsertFails(w)
      PROVE  Fates'
  <2>1. pc[w] = "insert" /\ Reconnect(w) /\ posts' = posts
    BY <1>9 DEF InsertFails
  <2>2. Copies(w) /\ (RepliesKnown => stored' = stored)
    BY <1>9 DEF InsertFails, Store, store, Copies, RepliesKnown
  <2> QED
    BY <2>1, <2>2, ReconnectFates
<1>10. ASSUME NEW w \in Workers, CountFails(w)
       PROVE  Fates'
  <2>1. /\ pc[w] = "count" /\ Reconnect(w) /\ posts' = posts /\ stored' = stored
        /\ ~RepliesKnown
    BY <1>10 DEF CountFails, RepliesKnown
  <2> QED
    BY <2>1, ReconnectFates DEF Copies
<1>11. ASSUME NEW w \in Workers, Crash(w)
       PROVE  Fates'
  <2>1. /\ pc[w] # "idle" /\ Leave(w)
        /\ stored' = stored /\ posts' = posts /\ answer' = answer
    BY <1>11 DEF Crash, store, history, Busy
  <2> QED
    BY <2>1, Ends DEF Copies
<1>12. ASSUME (\E r \in Replicas : Replicate(r)) \/ Expire \/ Tick
       PROVE  Fates'
  BY <1>12, Stays DEF Replicate, Expire, Tick, store, request, history
<1> QED
  BY <1>1, <1>2, <1>3, <1>4, <1>5, <1>6, <1>7, <1>8, <1>9, <1>10, <1>11, <1>12, NextCases

LEMMA FateInit == Init => FateInv
<1> SUFFICES ASSUME Init PROVE FateInv
  OBVIOUS
<1>1. TypeOK /\ Serving
  BY TypeInit
<1>2. OneEach /\ CopiesTold /\ AckedIsStored /\ ExactlyOnce /\ AnswerTellsTheTruth
  BY DEF Init, OneEach, CopiesTold, AckedIsStored, ExactlyOnce, AnswerTellsTheTruth, Posts
<1> QED
  BY <1>1, <1>2 DEF FateInv, Fates

\* The invariant holds in every reachable state.
THEOREM FateInvariant == Spec => []FateInv
BY FateInit, FateStep, PTL DEF Spec

\* Whatever fails, and however often, an answer that reports success is for an
\* event that is stored.
THEOREM AckedStored == Spec => []AckedIsStored
<1>1. FateInv => AckedIsStored
  BY DEF FateInv, Fates
<1> QED
  BY <1>1, FateInvariant, PTL

\* Retries store an event at most once more per AutoReconnect of its request.
THEOREM DuplicationBounded == Spec => []BoundedDuplication
<1>1. FateInv => BoundedDuplication
  BY DEF FateInv, Fates, BoundedDuplication, CopiesTold, OneEach
<1> QED
  BY <1>1, FateInvariant, PTL

\* When no failure leaves a write in doubt, the answer says exactly what became
\* of the event, deaths of processes and failing reads included.
THEOREM AnswersTrue ==
  ASSUME RepliesKnown
  PROVE  Spec => []AnswerTellsTheTruth
<1>1. FateInv => AnswerTellsTheTruth
  BY DEF FateInv, Fates
<1> QED
  BY <1>1, FateInvariant, PTL
=============================================================================
