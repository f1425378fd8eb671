-------------------------- MODULE GetEventsProofs --------------------------
(***************************************************************************)
(* Theorems about GetEvents, for any clients, secondaries, requests and    *)
(* limits: what a client gets of a log whose events have consecutive ids,  *)
(* when it remembers one id and asks secondaries that lag.                 *)
(***************************************************************************)
EXTENDS GetEvents, FunctionTheorems, FiniteSetTheorems, SequenceTheorems,
        WellFoundedInduction, TLAPS

\* The requests whose result the limit cuts at the newest end: descending order
\* with a limit cuts at the oldest, and the client never asks for these again.
CutsNewest(q) == SortOrder(q) = 1 \/ Limit(q) = 0

\* Everything some node, response or client knows as an event.
Known ==
  {e \in LogEvent : \/ e \in events
                    \/ \E r \in Replicas : e \in view[r]
                    \/ \E c \in Clients : e \in found[c]}

\* All of them are of one log: an id stands for one event for ever.
OneLog ==
  /\ \A e \in Known : e.id > FirstEvent /\ e.id <= top
  /\ \A e, f \in Known : e.id = f.id => e = f

\* A secondary shows an earlier state of the log: of what is still stored, it
\* has everything up to the newest event it has.
ViewsAreOlder ==
  \A r \in Replicas : \A e \in events : \A f \in view[r] :
    e.id <= f.id => e \in view[r]

\* The stages of a request.
Stages(c) ==
  /\ pc[c] = "idle" => found[c] = {}
  /\ pc[c] = "query" => todo[c] # <<>>
  /\ pc[c] = "query" /\ OneQuery(c) => todo[c] = Queried(ask[c]) /\ found[c] = {}

\* Only what lies above the remembered id is found, and nothing there has been
\* delivered, nor anything twice.
Remembers(c) ==
  /\ last[c] <= top
  /\ \A e \in found[c] : e.id > last[c]
  /\ \A i \in 1 .. MaxTop : got[c][i] <= 1 /\ (i > last[c] => got[c][i] = 0)

\* The client reads the log in order, by one query at a time.
InOrder(c) == OneQuery(c) /\ CutsNewest(ask[c])

\* The result of such a query has no gaps.
NoGap(c) ==
  InOrder(c) =>
    \A e \in Wanted(c, events) : \A f \in found[c] :
      last[c] < e.id /\ e.id <= f.id => e \in found[c]

\* The inductive invariants of the read side: what clients get, and what those
\* that read in order do not miss.
DeliveryInv ==
  /\ TypeOK /\ OneLog
  /\ \A c \in Clients : Stages(c) /\ Remembers(c)

GapInv ==
  /\ ViewsAreOlder
  /\ \A c \in Clients : NoGap(c) /\ (InOrder(c) => NothingSkipped(c))
-----------------------------------------------------------------------------
\* --- the operators --------------------------------------------------------

\* Every request makes at least one query, each for a channel.
LEMMA QueriedType ==
  ASSUME NEW q \in Requests
  PROVE  Queried(q) \in Seq(Seq(STRING)) /\ Queried(q) # <<>>
<1>1. q.channel \in Seq(STRING) /\ q.channel # <<>>
  BY GetEventsAssumption DEF RequestType
<1>2. CASE q.events = "parent"
  <2> DEFINE passed == IF q.channel[Len(q.channel)] = "" THEN 2 ELSE 1
             n == Len(q.channel) - passed
             parents == [i \in 1 .. n |-> SubSeq(q.channel, 1, n + 1 - i)]
  <2>1. Queried(q) = <<q.channel>> \o parents
    BY <1>2 DEF Queried, explode_channel
  <2>2. passed \in {1, 2}
    OBVIOUS
  <2> HIDE DEF passed
  <2>3. n \in Int /\ n < Len(q.channel) /\ Len(q.channel) \in Nat
    BY <1>1, <2>2
  <2> HIDE DEF n
  <2>4. ASSUME NEW i \in 1 .. n PROVE SubSeq(q.channel, 1, n + 1 - i) \in Seq(STRING)
    <3>1. n + 1 - i \in 1 .. Len(q.channel)
      BY <2>3
    <3> QED
      BY <1>1, <3>1, SubSeqProperties
  <2>5. parents \in Seq(Seq(STRING))
    <3>1. CASE n \in Nat
      BY <2>4, <3>1
    <3>2. CASE n \notin Nat
      <4>1. 1 .. n = 1 .. 0
        BY <2>3, <3>2
      <4>2. parents \in [1 .. n -> Seq(STRING)]
        BY <2>4
      <4> HIDE DEF parents
      <4>3. parents \in [1 .. 0 -> Seq(STRING)]
        BY <4>1, <4>2
      <4> QED
        BY <4>3
    <3> QED
      BY <3>1, <3>2
  <2> HIDE DEF parents
  <2>6. <<q.channel>> \in Seq(Seq(STRING)) /\ Len(<<q.channel>>) = 1
    BY <1>1
  <2> QED
    BY <2>1, <2>5, <2>6, ConcatProperties
<1>3. CASE q.events # "parent"
  BY <1>1, <1>3 DEF Queried
<1> QED
  BY <1>2, <1>3

\* Events of one log with ids up to a limit are finitely many.
LEMMA KnownFinite ==
  ASSUME NEW S \in SUBSET LogEvent, NEW n \in Nat, \A e \in S : e.id <= n,
         \A e, f \in S : e.id = f.id => e = f
  PROVE  IsFiniteSet(S)
<1> DEFINE idOf == [e \in S |-> e.id]
<1>1. idOf \in [S -> 0 .. n]
  BY DEF LogEvent
<1>2. idOf \in Injection(S, 0 .. n)
  BY <1>1, Fun_IsInj
<1>3. IsFiniteSet(0 .. n)
  BY FS_Interval
<1> QED
  BY <1>2, <1>3, FS_Injection

\* The client notes the highest of the ids.
LEMMA NotesHighest ==
  ASSUME NEW S \in SUBSET LogEvent, NEW n \in Nat, \A e \in S : e.id <= n, S # {}
  PROVE  Notes(S) \in IdsOf(S) /\ \A j \in IdsOf(S) : j <= Notes(S)
<1> DEFINE below == {n - i : i \in IdsOf(S)}
<1>1. IdsOf(S) \subseteq 0 .. n /\ IdsOf(S) # {}
  BY DEF IdsOf, LogEvent
<1>2. below \subseteq Nat /\ below # {}
  BY <1>1
<1>3. PICK k \in below : \A j \in below : ~(<<j, k>> \in OpToRel(<, Nat))
  BY <1>2, NatLessThanWellFounded, WFMin
<1>4. \A j \in below : ~(j < k)
  BY <1>2, <1>3 DEF OpToRel
<1>5. PICK i \in IdsOf(S) : k = n - i
  BY <1>3
<1>6. \A j \in IdsOf(S) : j <= i
  <2> SUFFICES ASSUME NEW j \in IdsOf(S) PROVE j <= i
    OBVIOUS
  <2>1. ~(n - j < n - i)
    BY <1>4, <1>5
  <2> QED
    BY <1>1, <2>1
<1> QED
  BY <1>6 DEF Notes

\* What a query finds is in the view, selected, and of the requested channels.
LEMMA FindSubset ==
  ASSUME NEW S, NEW channel, NEW q, NEW lastKnownId,
         NEW e \in Find(S, channel, q, lastKnownId)
  PROVE  e \in S /\ Selected(e, channel, q, lastKnownId)
BY DEF Find

\* It has every selected event up to its newest: a limit cuts only what comes
\* after.
LEMMA FindHasNoGap ==
  ASSUME NEW S \in SUBSET LogEvent, IsFiniteSet(S), NEW q \in Requests, CutsNewest(q),
         NEW channel, NEW lastKnownId,
         NEW f \in Find(S, channel, q, lastKnownId),
         NEW e \in S, Selected(e, channel, q, lastKnownId), e.id <= f.id
  PROVE  e \in Find(S, channel, q, lastKnownId)
<1> DEFINE F == {g \in S : Selected(g, channel, q, lastKnownId)}
           before(h) == {g \in F : Before(g, h, SortOrder(q))}
<1>1. f \in F /\ Passes(Cardinality(before(f)), q)
  BY DEF Find
<1>2. e \in F
  OBVIOUS
<1>3. CASE Limit(q) = 0
  BY <1>2, <1>3 DEF Find, Passes
<1>4. CASE SortOrder(q) = 1 /\ Limit(q) # 0
  <2>1. IsFiniteSet(F)
    BY FS_Subset
  <2>2. before(e) \subseteq before(f)
    <3> SUFFICES ASSUME NEW g \in F, g.id < e.id PROVE g.id < f.id
      BY <1>4 DEF Before
    <3>1. g.id \in Nat /\ e.id \in Nat /\ f.id \in Nat
      BY <1>1 DEF LogEvent
    <3> QED
      BY <3>1
  <2>3. IsFiniteSet(before(f)) /\ IsFiniteSet(before(e))
        /\ Cardinality(before(e)) <= Cardinality(before(f))
    BY <2>1, <2>2, FS_Subset
  <2>4. Cardinality(before(e)) \in Nat /\ Cardinality(before(f)) \in Nat
    BY <2>3, FS_CardinalityType
  <2>5. Limit(q) \in Nat
    BY GetEventsAssumption DEF Limit, RequestType
  <2>6. Passes(Cardinality(before(e)), q)
    BY <1>1, <1>4, <2>3, <2>4, <2>5 DEF Passes
  <2> QED
    BY <1>2, <2>6 DEF Find
<1> QED
  BY <1>3, <1>4 DEF CutsNewest
-----------------------------------------------------------------------------
\* --- the steps ------------------------------------------------------------

LEMMA ReadCases ==
  ASSUME GetNext
  PROVE  \/ \E c \in Clients : Poll(c) \/ Query(c) \/ Fail(c) \/ Deliver(c)
         \/ \E r \in Replicas : Replicate(r)
         \/ Write
BY DEF GetNext

LEMMA KnownParts ==
  ASSUME TypeOK
  PROVE  /\ events \subseteq Known
         /\ \A r \in Replicas : view[r] \subseteq Known
         /\ \A c \in Clients : found[c] \subseteq Known
BY DEF Known, TypeOK

\* What lies in each of the parts of a set lies in the whole, before and after.
LEMMA KnownWithin ==
  ASSUME NEW K, events \subseteq K, \A r \in Replicas : view[r] \subseteq K,
         \A c \in Clients : found[c] \subseteq K
  PROVE  Known \subseteq K
BY DEF Known

LEMMA KnownWithinNext ==
  ASSUME NEW K, events' \subseteq K, \A r \in Replicas : view'[r] \subseteq K,
         \A c \in Clients : found'[c] \subseteq K
  PROVE  Known' \subseteq K
BY DEF Known

\* What is left of the queries a request makes.
LEMMA RestOfPlan ==
  ASSUME NEW S, NEW plan \in Seq(S), plan # <<>>
  PROVE  /\ Head(plan) = plan[1] /\ Tail(plan) \in Seq(S)
         /\ Len(plan) # 1 => Tail(plan) # <<>>
<1>1. /\ Len(plan) \in Nat \ {0} /\ Tail(plan) \in Seq(S)
      /\ Len(Tail(plan)) = Len(plan) - 1
  BY HeadTailProperties, EmptySeq, LenProperties
<1>2. Len(<<>>) = 0 /\ Head(plan) = plan[1]
  OBVIOUS
<1> QED
  BY <1>1, <1>2

\* A response holds no id twice.
LEMMA FoundOnce ==
  ASSUME TypeOK, OneLog, NEW c \in Clients, NEW i \in Nat
  PROVE  LET n == Cardinality({e \in found[c] : e.id = i})
         IN  IF i \in IdsOf(found[c]) THEN n = 1 ELSE n = 0
<1>1. found[c] \subseteq Known
  BY KnownParts
<1>2. CASE i \in IdsOf(found[c])
  <2>1. PICK x \in found[c] : x.id = i
    BY <1>2 DEF IdsOf
  <2>2. {e \in found[c] : e.id = i} = {x}
    BY <1>1, <2>1 DEF OneLog
  <2> QED
    BY <1>2, <2>2, FS_Singleton
<1>3. CASE i \notin IdsOf(found[c])
  <2>1. {e \in found[c] : e.id = i} = {}
    BY <1>3 DEF IdsOf
  <2> QED
    BY <1>3, <2>1, FS_EmptySet
<1> QED
  BY <1>2, <1>3

\* What the log, the secondaries and the responses hold are events of the log.
LEMMA KnownType ==
  ASSUME TypeOK, OneLog
  PROVE  /\ Known \subseteq LogEvent /\ top \in Nat /\ top <= MaxTop
         /\ \A e \in Known : e.id \in 1 .. top /\ e.id \in 1 .. MaxTop
<1>1. Known \subseteq LogEvent
  BY KnownWithin DEF TypeOK
<1>2. top \in FirstEvent .. MaxTop /\ FirstEvent \in Nat /\ MaxTop \in Nat
  BY FirstEventAssumption, GetEventsAssumption DEF TypeOK
<1> QED
  BY <1>1, <1>2 DEF OneLog, LogEvent

LEMMA FoundFinite ==
  ASSUME TypeOK, OneLog, NEW S \in SUBSET Known
  PROVE  IsFiniteSet(S) /\ S \in SUBSET LogEvent
<1>1. S \in SUBSET LogEvent /\ top \in Nat /\ \A e \in S : e.id <= top
  BY KnownType
<1>2. \A e, f \in S : e.id = f.id => e = f
  BY DEF OneLog
<1> QED
  BY <1>1, <1>2, KnownFinite

\* What a delivery does to the memory of the client.
LEMMA DeliverEffect ==
  ASSUME DeliveryInv, NEW c \in Clients, Deliver(c)
  PROVE  /\ \A d \in Clients \ {c} : last'[d] = last[d] /\ got'[d] = got[d]
         /\ IF found[c] = {}
            THEN last'[c] = last[c]
            ELSE /\ last'[c] \in IdsOf(found[c]) /\ last'[c] \in 1 .. top
                 /\ last'[c] \in 1 .. MaxTop /\ last'[c] > last[c]
                 /\ \A e \in found[c] : e.id <= last'[c]
         /\ got'[c] \in [1 .. MaxTop -> Nat]
         /\ \A i \in 1 .. MaxTop :
              got'[c][i] = got[c][i] + (IF i \in IdsOf(found[c]) THEN 1 ELSE 0)
<1> USE DEF DeliveryInv
<1>1. /\ last'[c] = (IF found[c] = {} THEN last[c] ELSE Notes(found[c]))
      /\ got'[c] = [i \in 1 .. MaxTop |->
                      got[c][i] + Cardinality({e \in found[c] : e.id = i})]
      /\ \A d \in Clients \ {c} : last'[d] = last[d] /\ got'[d] = got[d]
  BY DEF Deliver, TypeOK
<1>2. \A i \in 1 .. MaxTop : got[c][i] \in Nat
  BY DEF TypeOK
<1>3. \A i \in 1 .. MaxTop :
        Cardinality({e \in found[c] : e.id = i}) = IF i \in IdsOf(found[c]) THEN 1 ELSE 0
  BY FoundOnce
<1>4. CASE found[c] # {}
  <2>1. found[c] \subseteq Known /\ found[c] \in SUBSET LogEvent
    BY KnownParts DEF TypeOK
  <2>2. top \in Nat /\ \A e \in found[c] : e.id \in 1 .. top /\ e.id \in 1 .. MaxTop
    BY <2>1, KnownType
  <2>3. last'[c] \in IdsOf(found[c]) /\ \A j \in IdsOf(found[c]) : j <= last'[c]
    BY <1>1, <1>4, <2>1, <2>2, NotesHighest
  <2>4. PICK e \in found[c] : last'[c] = e.id
    BY <2>3 DEF IdsOf
  <2>5. last'[c] > last[c]
    BY <2>4 DEF Remembers
  <2> QED
    BY <1>1, <1>2, <1>3, <1>4, <2>2, <2>3, <2>4, <2>5 DEF IdsOf
<1> QED
  BY <1>1, <1>2, <1>3, <1>4

\* No step but an append adds to what is known.
LEMMA OneLogStays ==
  ASSUME OneLog, top' = top, Known' \subseteq Known
  PROVE  OneLog'
BY DEF OneLog

LEMMA DeliveryStep ==
  ASSUME DeliveryInv, [GetNext]_vars
  PROVE  DeliveryInv'
<1> USE GetEventsAssumption, FirstEventAssumption
<1> USE DEF DeliveryInv
<1>1. CASE UNCHANGED vars
  <2> USE <1>1 DEF vars, logVars, serving, client
  <2>1. TypeOK'
    BY DEF TypeOK
  <2>2. Known' \subseteq Known
    BY KnownParts, KnownWithinNext
  <2>3. OneLog'
    BY <2>2, OneLogStays
  <2>4. \A d \in Clients : Stages(d)' /\ Remembers(d)'
    BY DEF Stages, Remembers, OneQuery
  <2> QED
    BY <2>1, <2>3, <2>4
<1>2. ASSUME NEW c \in Clients, Poll(c)
      PROVE  DeliveryInv'
  <2> USE <1>2 DEF Poll, logVars, client
  <2>1. Queried(ask[c]) \in Seq(Seq(STRING)) /\ Queried(ask[c]) # <<>>
    BY QueriedType DEF TypeOK
  <2>2. TypeOK'
    BY <2>1 DEF TypeOK
  <2>3. OneLog'
    <3>1. Known' \subseteq Known
      BY KnownParts, KnownWithinNext
    <3> QED
      BY <3>1, OneLogStays
  <2>4. ASSUME NEW d \in Clients
        PROVE  Stages(d)' /\ Remembers(d)'
    <3>1. Remembers(d)'
      BY DEF Remembers
    <3>2. Stages(d)'
      BY <2>1 DEF Stages, TypeOK, OneQuery
    <3> QED
      BY <3>1, <3>2
  <2> QED
    BY <2>2, <2>3, <2>4
<1>3. ASSUME NEW c \in Clients, Query(c)
      PROVE  DeliveryInv'
  <2> USE DEF logVars, client
  <2>1. PICK r \in Replicas :
          found' = [found EXCEPT ![c] = @ \cup Find(view[r], Head(todo[c]), ask[c], last[c])]
    BY <1>3 DEF Query
  <2> DEFINE new == Find(view[r], Head(todo[c]), ask[c], last[c])
  <2>2. new \subseteq view[r] /\ \A e \in new : e.id > last[c]
    BY FindSubset DEF Selected
  <2> HIDE DEF new
  <2>3. /\ found'[c] = found[c] \cup new
        /\ \A d \in Clients \ {c} : found'[d] = found[d]
    BY <2>1 DEF TypeOK, new
  <2>4. todo[c] \in Seq(Seq(STRING)) /\ todo[c] # <<>> /\ pc[c] = "query"
    BY <1>3 DEF Query, Stages, TypeOK
  <2>5. /\ Tail(todo[c]) \in Seq(Seq(STRING))
        /\ Len(todo[c]) # 1 => Tail(todo[c]) # <<>>
    BY <2>4, RestOfPlan
  <2>6. TypeOK'
    BY <1>3, <2>1, <2>2, <2>5 DEF Query, TypeOK, new
  <2>7. OneLog'
    <3>1. Known' \subseteq Known
      <4>1. found'[c] \subseteq Known
        BY <2>2, <2>3, KnownParts
      <4>2. \A d \in Clients : found'[d] \subseteq Known
        BY <2>3, <4>1, KnownParts
      <4> QED
        BY <1>3, <4>2, KnownParts, KnownWithinNext DEF Query
    <3> QED
      BY <1>3, <3>1, OneLogStays DEF Query
  <2>8. ASSUME NEW d \in Clients
        PROVE  Stages(d)' /\ Remembers(d)'
    <3>1. Remembers(d)'
      BY <1>3, <2>2, <2>3 DEF Query, Remembers
    <3>2. ASSUME d # c PROVE Stages(d)'
      <4>1. pc'[d] = pc[d] /\ todo'[d] = todo[d] /\ found'[d] = found[d] /\ ask' = ask
        BY <1>3, <2>3, <3>2 DEF Query, TypeOK
      <4> QED
        BY <4>1 DEF Stages, OneQuery
    <3>3. ASSUME d = c PROVE Stages(d)'
      <4>1. /\ pc'[c] = IF Len(todo[c]) = 1 THEN "answer" ELSE "query"
            /\ todo'[c] = Tail(todo[c]) /\ ask' = ask
        BY <1>3 DEF Query, TypeOK
      <4>2. OneQuery(c) => Len(todo[c]) = 1
        BY <2>4 DEF Stages, OneQuery
      <4> QED
        BY <2>5, <3>3, <4>1, <4>2 DEF Stages, OneQuery
    <3> QED
      BY <3>1, <3>2, <3>3
  <2> QED
    BY <2>6, <2>7, <2>8
<1>4. ASSUME NEW c \in Clients, Fail(c)
      PROVE  DeliveryInv'
  <2> USE <1>4 DEF Fail, Idle, logVars, client
  <2>1. TypeOK'
    BY DEF TypeOK
  <2>2. /\ found'[c] = {} /\ pc'[c] = "idle"
        /\ \A d \in Clients \ {c} :
             found'[d] = found[d] /\ pc'[d] = pc[d] /\ todo'[d] = todo[d]
    BY DEF TypeOK
  <2>3. OneLog'
    <3>1. \A d \in Clients : found'[d] \subseteq Known
      BY <2>2, KnownParts
    <3>2. Known' \subseteq Known
      BY <3>1, KnownParts, KnownWithinNext
    <3> QED
      BY <3>2, OneLogStays
  <2>4. ASSUME NEW d \in Clients
        PROVE  Stages(d)' /\ Remembers(d)'
    BY <2>2 DEF Stages, Remembers, OneQuery
  <2> QED
    BY <2>1, <2>3, <2>4
<1>5. ASSUME NEW c \in Clients, Deliver(c)
      PROVE  DeliveryInv'
  <2>1. UNCHANGED <<events, top, view, ask>> /\ Idle(c)
    BY <1>5 DEF Deliver, logVars
  <2>2. /\ found'[c] = {} /\ pc'[c] = "idle"
        /\ \A d \in Clients \ {c} :
             found'[d] = found[d] /\ pc'[d] = pc[d] /\ todo'[d] = todo[d]
    BY <2>1 DEF Idle, TypeOK
  <2>3. TypeOK'
    <3>1. last'[c] \in 0 .. MaxTop /\ got'[c] \in [1 .. MaxTop -> Nat]
      BY <1>5, DeliverEffect DEF TypeOK
    <3>2. last' \in [Clients -> 0 .. MaxTop] /\ got' \in [Clients -> [1 .. MaxTop -> Nat]]
      BY <1>5, <3>1 DEF Deliver, TypeOK
    <3> QED
      <4>1. pc' \in [Clients -> {"idle", "query", "answer"}]
        BY <2>1 DEF Idle, TypeOK
      <4>2. <<>> \in Seq(Seq(STRING))
        OBVIOUS
      <4>3. todo' \in [Clients -> Seq(Seq(STRING))]
        BY <2>1, <4>2 DEF Idle, TypeOK
      <4>4. found' \in [Clients -> SUBSET LogEvent]
        BY <2>1 DEF Idle, TypeOK
      <4> QED
        BY <2>1, <3>2, <4>1, <4>3, <4>4 DEF TypeOK
  <2>4. OneLog'
    <3>1. \A d \in Clients : found'[d] \subseteq Known
      BY <2>2, KnownParts
    <3>2. Known' \subseteq Known
      BY <2>1, <3>1, KnownParts, KnownWithinNext
    <3> QED
      BY <2>1, <3>2, OneLogStays
  <2>5. ASSUME NEW d \in Clients \ {c}
        PROVE  Stages(d)' /\ Remembers(d)'
    BY <1>5, <2>1, <2>2, DeliverEffect DEF Stages, Remembers, OneQuery
  <2>6. Stages(c)'
    BY <2>2 DEF Stages
  <2>7. Remembers(c)'
    <3>1. last'[c] <= top'
      BY <1>5, <2>1, DeliverEffect DEF Remembers
    <3>2. ASSUME NEW i \in 1 .. MaxTop
          PROVE  got'[c][i] <= 1 /\ (i > last'[c] => got'[c][i] = 0)
      <4>1. got'[c][i] = got[c][i] + (IF i \in IdsOf(found[c]) THEN 1 ELSE 0)
            /\ got[c][i] \in Nat /\ last[c] \in Nat /\ last'[c] \in Nat
        BY <1>5, <2>3, DeliverEffect DEF TypeOK
      <4>2. got[c][i] <= 1 /\ (i > last[c] => got[c][i] = 0)
        BY DEF Remembers
      <4>3. CASE i \in IdsOf(found[c])
        <5>1. PICK e \in found[c] : e.id = i
          BY <4>3 DEF IdsOf
        <5>2. i > last[c] /\ i <= last'[c]
          BY <1>5, <5>1, DeliverEffect DEF Remembers
        <5> QED
          BY <4>1, <4>2, <4>3, <5>2
      <4>4. CASE i \notin IdsOf(found[c])
        <5>1. last[c] <= last'[c]
          BY <1>5, <4>1, DeliverEffect
        <5> QED
          BY <4>1, <4>2, <4>4, <5>1
      <4> QED
        BY <4>3, <4>4
    <3> QED
      BY <2>2, <3>1, <3>2 DEF Remembers
  <2> QED
    BY <2>3, <2>4, <2>5, <2>6, <2>7
<1>6. ASSUME NEW r \in Replicas, Replicate(r)
      PROVE  DeliveryInv'
  <2> USE <1>6 DEF Replicate, logVars, serving, client
  <2>1. TypeOK'
    BY DEF TypeOK
  <2>2. OneLog'
    <3>1. \A s \in Replicas : view'[s] \subseteq Known
      BY KnownParts DEF TypeOK
    <3>2. Known' \subseteq Known
      BY <3>1, KnownParts, KnownWithinNext
    <3> QED
      BY <3>2, OneLogStays
  <2>3. \A d \in Clients : Stages(d)' /\ Remembers(d)'
    BY DEF Stages, Remembers, OneQuery
  <2> QED
    BY <2>1, <2>2, <2>3
<1>7. CASE Write
  <2>0. UNCHANGED <<view, pc, todo, found, ask, last, got>>
    BY <1>7 DEF Write, serving, client
  <2>1. CASE Forget
    <3>1. events' \subseteq events /\ top' = top
      BY <2>1 DEF Forget
    <3>2. TypeOK'
      BY <2>0, <3>1 DEF TypeOK
    <3>3. OneLog'
      <4>1. Known' \subseteq Known
        BY <2>0, <3>1, KnownParts, KnownWithinNext
      <4> QED
        BY <3>1, <4>1, OneLogStays
    <3> QED
      BY <2>0, <3>1, <3>2, <3>3 DEF Stages, Remembers, OneQuery
  <2>2. ASSUME NEW p \in Payloads, top < MaxTop, AppendEvent(p)
        PROVE  DeliveryInv'
    <3> DEFINE e == [id |-> top + 1, payload |-> p]
    <3>1. events' = events \cup {e} /\ top' = top + 1 /\ top \in Nat /\ e \in LogEvent
      BY <2>2 DEF AppendEvent, TypeOK, LogEvent
    <3>2. Known' \subseteq Known \cup {e} /\ e.id = top + 1 /\ \A f \in Known : f.id <= top
      <4> HIDE DEF e
      <4>1. events' \subseteq Known \cup {e}
        BY <3>1, KnownParts
      <4>2. /\ \A r \in Replicas : view'[r] \subseteq Known \cup {e}
            /\ \A c \in Clients : found'[c] \subseteq Known \cup {e}
        BY <2>0, KnownParts
      <4>3. Known' \subseteq Known \cup {e}
        BY <4>1, <4>2, KnownWithinNext
      <4>4. e.id = top + 1
        BY DEF e
      <4> QED
        BY <4>3, <4>4 DEF OneLog
    <3> HIDE DEF e
    <3>3. TypeOK'
      BY <2>0, <2>2, <3>1 DEF TypeOK
    <3>4. OneLog'
      <4>1. \A f \in Known : f.id \in Nat
        BY DEF Known, LogEvent
      <4>2. \A f \in Known' : f \in Known \/ f = e
        BY <3>2
      <4>3. \A f \in Known' : f.id > FirstEvent /\ f.id <= top'
        BY <3>1, <3>2, <4>1, <4>2 DEF OneLog, TypeOK
      <4>4. \A f, g \in Known' : f.id = g.id => f = g
        BY <3>1, <3>2, <4>1, <4>2 DEF OneLog
      <4> QED
        BY <4>3, <4>4 DEF OneLog
    <3>5. \A d \in Clients : Stages(d)' /\ Remembers(d)'
      BY <2>0, <3>1 DEF Stages, Remembers, OneQuery, TypeOK
    <3> QED
      BY <3>3, <3>4, <3>5
  <2> QED
    BY <1>7, <2>1, <2>2 DEF Write
<1> QED
  BY <1>1, <1>2, <1>3, <1>4, <1>5, <1>6, <1>7, ReadCases

LEMMA DeliveryInit ==
  ASSUME GetInit
  PROVE  DeliveryInv
<1> USE GetEventsAssumption, FirstEventAssumption DEF GetInit, Init
<1>1. TypeOK
  <2>1. top \in FirstEvent .. MaxTop /\ 0 \in 0 .. MaxTop
    OBVIOUS
  <2>2. <<>> \in Seq(Seq(STRING))
    OBVIOUS
  <2> QED
    BY <2>1, <2>2 DEF TypeOK
<1>2. OneLog
  <2>1. Known = {}
    BY DEF Known
  <2> QED
    BY <2>1 DEF OneLog
<1>3. \A c \in Clients : Stages(c) /\ Remembers(c)
  BY DEF Stages, Remembers
<1> QED
  BY <1>1, <1>2, <1>3 DEF DeliveryInv
-----------------------------------------------------------------------------
\* --- the gaps --------------------------------------------------------------

\* A client that is not served by the step keeps what it has, and an event less
\* in the log makes no gap.
LEMMA GapKept ==
  ASSUME NEW c \in Clients, NoGap(c), InOrder(c) => NothingSkipped(c),
         ask'[c] = ask[c], last'[c] = last[c], got'[c] = got[c],
         events' \subseteq events, found'[c] = found[c] \/ found'[c] = {}
  PROVE  NoGap(c)' /\ (InOrder(c) => NothingSkipped(c))'
<1>1. Wanted(c, events)' \subseteq Wanted(c, events) /\ InOrder(c)' = InOrder(c)
  BY DEF Wanted, InOrder, OneQuery
<1> QED
  BY <1>1 DEF NoGap, NothingSkipped

\* With one query, an event the client wants is one that the query selects.
LEMMA WantedSelected ==
  ASSUME DeliveryInv, NEW c \in Clients, OneQuery(c), NEW e \in Wanted(c, events),
         last[c] < e.id
  PROVE  Selected(e, Queried(ask[c])[1], ask[c], last[c])
<1>1. ask[c] \in Requests
  BY DEF DeliveryInv, TypeOK
<1>2. DOMAIN Queried(ask[c]) = 1 .. 1
  BY <1>1, QueriedType, LenProperties DEF OneQuery
<1>3. Selected(e, Queried(ask[c])[1], ask[c], 0)
  BY <1>2 DEF Wanted
<1> QED
  BY <1>3 DEF Selected

LEMMA GapStep ==
  ASSUME DeliveryInv, GapInv, [GetNext]_vars
  PROVE  GapInv'
<1> USE DEF GapInv
<1>1. CASE UNCHANGED vars
  <2>1. ViewsAreOlder'
    BY <1>1 DEF vars, logVars, ViewsAreOlder
  <2>2. \A c \in Clients : NoGap(c)' /\ (InOrder(c) => NothingSkipped(c))'
    BY <1>1, GapKept DEF vars, logVars, serving, client
  <2> QED
    BY <2>1, <2>2
<1>2. ASSUME NEW c \in Clients, Poll(c)
      PROVE  GapInv'
  <2>1. ViewsAreOlder'
    BY <1>2 DEF Poll, logVars, ViewsAreOlder
  <2>2. \A d \in Clients : NoGap(d)' /\ (InOrder(d) => NothingSkipped(d))'
    BY <1>2, GapKept DEF Poll, logVars, client
  <2> QED
    BY <2>1, <2>2
<1>3. ASSUME NEW c \in Clients, Query(c)
      PROVE  GapInv'
  <2>1. UNCHANGED <<events, top, view, ask, last, got>> /\ pc[c] = "query"
    BY <1>3 DEF Query, logVars, client
  <2>2. PICK r \in Replicas :
          found' = [found EXCEPT ![c] = @ \cup Find(view[r], Head(todo[c]), ask[c], last[c])]
    BY <1>3 DEF Query
  <2>3. ViewsAreOlder'
    BY <2>1 DEF ViewsAreOlder
  <2>4. ASSUME NEW d \in Clients \ {c}
        PROVE  NoGap(d)' /\ (InOrder(d) => NothingSkipped(d))'
    <3>1. found'[d] = found[d]
      BY <2>2 DEF DeliveryInv, TypeOK
    <3> QED
      BY <2>1, <3>1, GapKept
  <2>5. (InOrder(c) => NothingSkipped(c))'
    BY <2>1 DEF InOrder, OneQuery, NothingSkipped, Wanted
  <2>6. NoGap(c)'
    <3> DEFINE channel == Queried(ask[c])[1]
    <3> SUFFICES ASSUME InOrder(c), NEW e \in Wanted(c, events), NEW f \in found'[c],
                        last[c] < e.id, e.id <= f.id
                 PROVE  e \in found'[c]
      BY <2>1 DEF NoGap, InOrder, OneQuery, Wanted
    <3>0. OneQuery(c) /\ CutsNewest(ask[c])
      BY DEF InOrder
    <3>1. ask[c] \in Requests /\ view[r] \subseteq LogEvent
      BY DEF DeliveryInv, TypeOK
    <3>2. todo[c] = Queried(ask[c]) /\ found[c] = {} /\ Head(todo[c]) = channel
      BY <2>1, <3>0, <3>1, QueriedType, RestOfPlan DEF DeliveryInv, Stages
    <3>3. found'[c] = Find(view[r], channel, ask[c], last[c])
      BY <2>2, <3>2 DEF DeliveryInv, TypeOK
    <3>4. f \in view[r] /\ e \in events
      BY <3>3, FindSubset DEF Wanted
    <3>5. e \in view[r]
      BY <3>4 DEF ViewsAreOlder
    <3>6. Selected(e, channel, ask[c], last[c])
      BY <3>0, WantedSelected
    <3>7. IsFiniteSet(view[r])
      BY KnownParts, FoundFinite DEF DeliveryInv
    <3> HIDE DEF channel
    <3> QED
      BY <3>0, <3>1, <3>3, <3>5, <3>6, <3>7, FindHasNoGap
  <2> QED
    BY <2>3, <2>4, <2>5, <2>6
<1>4. ASSUME NEW c \in Clients, Fail(c)
      PROVE  GapInv'
  <2>1. ViewsAreOlder'
    BY <1>4 DEF Fail, logVars, ViewsAreOlder
  <2>2. \A d \in Clients : found'[d] = found[d] \/ found'[d] = {}
    BY <1>4 DEF Fail, Idle, DeliveryInv, TypeOK
  <2>3. \A d \in Clients : NoGap(d)' /\ (InOrder(d) => NothingSkipped(d))'
    BY <1>4, <2>2, GapKept DEF Fail, logVars, client
  <2> QED
    BY <2>1, <2>3
<1>5. ASSUME NEW c \in Clients, Deliver(c)
      PROVE  GapInv'
  <2>1. UNCHANGED <<events, top, view, ask>> /\ Idle(c)
    BY <1>5 DEF Deliver, logVars
  <2>2. found'[c] = {} /\ \A d \in Clients \ {c} : found'[d] = found[d]
    BY <2>1 DEF Idle, DeliveryInv, TypeOK
  <2>3. ViewsAreOlder'
    BY <2>1 DEF ViewsAreOlder
  <2>4. \A d \in Clients \ {c} : NoGap(d)' /\ (InOrder(d) => NothingSkipped(d))'
    BY <1>5, <2>1, <2>2, DeliverEffect, GapKept
  <2>5. NoGap(c)'
    BY <2>2 DEF NoGap
  <2>6. (InOrder(c) => NothingSkipped(c))'
    <3> SUFFICES ASSUME InOrder(c), NEW e \in Wanted(c, events), e.id <= last'[c]
                 PROVE  got'[c][e.id] > 0
      BY <2>1 DEF InOrder, OneQuery, NothingSkipped, Wanted
    <3>1. e \in events /\ e.id \in 1 .. MaxTop /\ e.id \in Nat
      <4>1. e \in Known
        BY KnownParts DEF DeliveryInv, Wanted
      <4>2. e.id \in 1 .. MaxTop
        BY <4>1, KnownType DEF DeliveryInv
      <4> QED
        BY <4>2 DEF Wanted
    <3>2. /\ got[c][e.id] \in Nat /\ last[c] \in Nat
          /\ got'[c][e.id] = got[c][e.id] + (IF e.id \in IdsOf(found[c]) THEN 1 ELSE 0)
      <4>1. got[c][e.id] \in Nat /\ last[c] \in Nat
        BY <3>1, GetEventsAssumption DEF DeliveryInv, TypeOK
      <4>2. \A i \in 1 .. MaxTop :
              got'[c][i] = got[c][i] + (IF i \in IdsOf(found[c]) THEN 1 ELSE 0)
        BY <1>5, DeliverEffect
      <4> QED
        BY <3>1, <4>1, <4>2
    <3>3. CASE e.id <= last[c]
      <4>1. got[c][e.id] > 0
        BY <3>3 DEF NothingSkipped
      <4> QED
        BY <3>2, <4>1
    <3>4. CASE last[c] < e.id
      <4>1. PICK f \in found[c] : last'[c] = f.id
        BY <1>5, <3>1, <3>2, <3>4, DeliverEffect DEF IdsOf
      <4>2. e \in found[c]
        BY <3>4, <4>1 DEF NoGap
      <4> QED
        BY <3>2, <4>2 DEF IdsOf
    <3> QED
      BY <3>1, <3>2, <3>3, <3>4
  <2> QED
    BY <2>3, <2>4, <2>5, <2>6
<1>6. ASSUME NEW r \in Replicas, Replicate(r)
      PROVE  GapInv'
  <2>1. ViewsAreOlder'
    BY <1>6 DEF Replicate, logVars, ViewsAreOlder, DeliveryInv, TypeOK
  <2>2. \A d \in Clients : NoGap(d)' /\ (InOrder(d) => NothingSkipped(d))'
    BY <1>6, GapKept DEF Replicate, logVars, serving, client
  <2> QED
    BY <2>1, <2>2
<1>7. CASE Write
  <2>1. UNCHANGED <<view, found, ask, last, got>>
    BY <1>7 DEF Write, serving, client
  <2>2. CASE Forget
    <3>1. events' \subseteq events
      BY <2>2 DEF Forget
    <3>2. ViewsAreOlder'
      BY <2>1, <3>1 DEF ViewsAreOlder
    <3>3. \A d \in Clients : NoGap(d)' /\ (InOrder(d) => NothingSkipped(d))'
      BY <2>1, <3>1, GapKept
    <3> QED
      BY <3>2, <3>3
  <2>3. ASSUME NEW p \in Payloads, AppendEvent(p)
        PROVE  GapInv'
    <3> DEFINE e == [id |-> top + 1, payload |-> p]
    <3>1. events' = events \cup {e} /\ e.id = top + 1 /\ top \in Nat
      BY <2>3, KnownType DEF AppendEvent, DeliveryInv
    <3> HIDE DEF e
    <3>2. /\ \A f \in Known : f.id \in Nat /\ f.id <= top
          /\ \A r \in Replicas : view[r] \subseteq Known
          /\ \A c \in Clients : found[c] \subseteq Known
          /\ \A c \in Clients : last[c] \in Nat /\ last[c] <= top
      <4>1. TypeOK /\ OneLog /\ \A c \in Clients : Remembers(c)
        BY DEF DeliveryInv
      <4>2. \A f \in Known : f.id \in Nat /\ f.id <= top
        BY <4>1 DEF Known, LogEvent, OneLog
      <4>3. \A c \in Clients : last[c] \in Nat /\ last[c] <= top
        BY <4>1, GetEventsAssumption DEF Remembers, TypeOK
      <4> QED
        BY <4>1, <4>2, <4>3, KnownParts
    <3>3. ViewsAreOlder'
      BY <2>1, <3>1, <3>2 DEF ViewsAreOlder
    <3>4. ASSUME NEW c \in Clients
          PROVE  NoGap(c)' /\ (InOrder(c) => NothingSkipped(c))'
      <4>1. /\ Wanted(c, events)' \subseteq Wanted(c, events) \cup {e}
            /\ InOrder(c)' = InOrder(c)
        BY <2>1, <3>1 DEF Wanted, InOrder, OneQuery
      <4>2. ~(e.id <= last[c]) /\ \A f \in found[c] : ~(e.id <= f.id)
        BY <3>1, <3>2
      <4> QED
        BY <2>1, <4>1, <4>2 DEF NoGap, NothingSkipped
    <3> QED
      BY <3>3, <3>4
  <2> QED
    BY <1>7, <2>2, <2>3 DEF Write
<1> QED
  BY <1>1, <1>2, <1>3, <1>4, <1>5, <1>6, <1>7, ReadCases
-----------------------------------------------------------------------------
\* --- the theorems -----------------------------------------------------------

\* The inductive invariant of the deliveries.
THEOREM DeliveryInvariant == GetSpec => []DeliveryInv
<1>1. GetInit => DeliveryInv
  BY DeliveryInit
<1>2. DeliveryInv /\ [GetNext]_vars => DeliveryInv'
  BY DeliveryStep
<1> QED
  BY <1>1, <1>2, PTL DEF GetSpec

\* The variables keep their types: get and _get_events, the clients and the
\* secondaries.
THEOREM ReadTypeCorrect == GetSpec => []TypeOK
<1>1. DeliveryInv => TypeOK
  BY DEF DeliveryInv
<1> QED
  BY <1>1, DeliveryInvariant, PTL

\* No event is delivered to a client twice, whatever it asks for, however the
\* secondaries lag and whichever responses are lost (get, _get_events).
THEOREM NoDuplicates == GetSpec => []NoDuplicateDelivery
<1>1. DeliveryInv => NoDuplicateDelivery
  <2> SUFFICES ASSUME DeliveryInv, NEW c \in Clients, NEW i \in DOMAIN got[c]
               PROVE  got[c][i] <= 1
    BY DEF NoDuplicateDelivery
  <2>1. DOMAIN got[c] = 1 .. MaxTop
    BY DEF DeliveryInv, TypeOK
  <2> QED
    BY <2>1 DEF DeliveryInv, Remembers
<1> QED
  BY <1>1, DeliveryInvariant, PTL

\* A client whose request takes one query, in ascending order or without a
\* limit, skips nothing, whatever the other clients ask for, the secondaries show
\* and the network loses (get, _get_events).
THEOREM InOrderComplete ==
  GetSpec => [](\A c \in Clients : InOrder(c) => NothingSkipped(c))
<1>1. GetInit => GapInv
  BY DEF GetInit, Init, GapInv, ViewsAreOlder, NoGap, NothingSkipped, Wanted
<1>2. DeliveryInv /\ GapInv /\ [GetNext]_vars => GapInv'
  BY GapStep
<1>3. GapInv => \A c \in Clients : InOrder(c) => NothingSkipped(c)
  BY DEF GapInv
<1> QED
  BY <1>1, <1>2, <1>3, DeliveryInvariant, PTL DEF GetSpec

\* So a request of one query skips nothing when no request cuts its result at the
\* oldest end.
THEOREM OneQueryComplete ==
  ASSUME \A q \in Requests : CutsNewest(q)
  PROVE  GetSpec => []OneQuerySkipsNothing
<1>1. DeliveryInv /\ (\A c \in Clients : InOrder(c) => NothingSkipped(c))
        => OneQuerySkipsNothing
  BY DEF DeliveryInv, TypeOK, InOrder, OneQuerySkipsNothing
<1> QED
  BY <1>1, DeliveryInvariant, InOrderComplete, PTL
=============================================================================
