--------------------------- MODULE StartupProofs ---------------------------
(***************************************************************************)
(* Theorems about Startup, for every number of processes, configurations   *)
(* and attempts, with or without lost connections.                         *)
(***************************************************************************)
EXTENDS Startup, TLAPS

\* Every action is one of these; used to split a step into cases.
LEMMA StartupCases ==
  ASSUME Next
  PROVE  \E p \in Starters :
           \/ Start(p) \/ CheckMemcache(p) \/ Connect(p) \/ ConnectionFailure(p)
           \/ CreateGetEvents(p) \/ IndexInformation(p) \/ DropTtl(p)
           \/ CreateTtl(p) \/ FindCounter(p) \/ InsertCounter(p)
           \/ AutoReconnect(p) \/ Crash(p) \/ CountEvent(p)
BY DEF Next, Prepare, InitEvents
-----------------------------------------------------------------------------
\* --- what a call may do to the database -----------------------------------

\* A change of the database keeps its types and never loses the query index or
\* the counter.
DbStep ==
  /\ get_events' \in BOOLEAN
  /\ ttl' \in Ttls \cup {NoIndex}
  /\ counter' \in 0 .. MaxCount \cup {NoCounter}
  /\ get_events => get_events'
  /\ counter # NoCounter => counter' # NoCounter /\ counter' >= counter

LEMMA ConfType ==
  ASSUME TypeOK, NEW p \in Starters
  PROVE  conf[p].event_ttl \in Ttls /\ conf[p].first_event \in 0 .. MaxCount
<1>1. conf[p] \in [event_ttl : Ttls, first_event : FirstEvents]
  BY DEF TypeOK
<1> QED
  BY <1>1, StartupAssumption

LEMMA AppliedIsDbStep ==
  ASSUME TypeOK, NEW p \in Starters, Applied(p) \/ UNCHANGED db
  PROVE  DbStep
<1>1. conf[p].event_ttl \in Ttls /\ conf[p].first_event \in 0 .. MaxCount
  BY ConfType
<1>2. counter \in 0 .. MaxCount \cup {NoCounter} /\ ttl \in Ttls \cup {NoIndex}
  BY DEF TypeOK
<1>3. get_events' = get_events \/ get_events' = TRUE
  BY DEF Applied, db, DbCreateGetEvents, DbDropTtl, DbCreateTtl, DbInsertCounter
<1>4. ttl' \in Ttls \cup {NoIndex}
  BY <1>1, <1>2
  DEF Applied, db, DbCreateGetEvents, DbDropTtl, DbCreateTtl, DbInsertCounter
<1>5. counter' = counter \/ (counter = NoCounter /\ counter' \in 0 .. MaxCount)
  BY <1>1 DEF Applied, db, DbCreateGetEvents, DbDropTtl, DbCreateTtl, DbInsertCounter
<1>6. counter' \in 0 .. MaxCount \cup {NoCounter}
  BY <1>2, <1>5
<1>7. counter # NoCounter => counter' # NoCounter /\ counter' >= counter
  BY <1>2, <1>5, StartupAssumption
<1>8. get_events' \in BOOLEAN /\ (get_events => get_events')
  BY <1>3 DEF TypeOK
<1> QED
  BY <1>4, <1>6, <1>7, <1>8 DEF DbStep

\* Each call either does what it does to the database or nothing.
LEMMA CallIsApplied ==
  ASSUME NEW p \in Starters,
         \/ CreateGetEvents(p) \/ IndexInformation(p) \/ DropTtl(p)
         \/ CreateTtl(p) \/ FindCounter(p) \/ InsertCounter(p)
  PROVE  Applied(p) \/ UNCHANGED db
BY DEF CreateGetEvents, IndexInformation, DropTtl, CreateTtl, FindCounter,
       InsertCounter, Applied

LEMMA StepIsDbStep ==
  ASSUME TypeOK, Next
  PROVE  DbStep
<1>1. PICK p \in Starters :
         \/ Start(p) \/ CheckMemcache(p) \/ Connect(p) \/ ConnectionFailure(p)
         \/ CreateGetEvents(p) \/ IndexInformation(p) \/ DropTtl(p)
         \/ CreateTtl(p) \/ FindCounter(p) \/ InsertCounter(p)
         \/ AutoReconnect(p) \/ Crash(p) \/ CountEvent(p)
  BY StartupCases
<1>2. CASE CountEvent(p)
  BY <1>2, StartupAssumption DEF TypeOK, CountEvent, DbStep, NoCounter
<1>3. CASE ~CountEvent(p)
  <2>1. Applied(p) \/ UNCHANGED db
    BY <1>1, <1>3, CallIsApplied
    DEF Start, CheckMemcache, Connect, ConnectionFailure, AutoReconnect, Crash
  <2> QED
    BY <2>1, AppliedIsDbStep
<1> QED
  BY <1>2, <1>3

-----------------------------------------------------------------------------
\* --- type correctness -----------------------------------------------------

LEMMA AttemptsPositive ==
  /\ MaxAttempts \in Nat /\ MaxAttempts >= 1
  /\ ConnectAttempts \in Nat /\ ConnectAttempts >= 1
<1>1. MaxAttempts \in Nat \ {0} /\ ConnectAttempts \in Nat \ {0}
  BY StartupAssumption, Zenon
<1> QED
  BY <1>1

LEMMA TypeInit == Init => TypeOK
<1> SUFFICES ASSUME Init PROVE TypeOK
  OBVIOUS
<1>1. get_events \in BOOLEAN
  BY DEF Init
<1>2. ttl \in Ttls \cup {NoIndex} /\ counter \in 0 .. MaxCount \cup {NoCounter}
  BY StartupAssumption DEF Init
<1>3. /\ pc \in [Starters -> Preparations \cup Calls \cup Errors \cup {"down", "ready"}]
      /\ conf \in [Starters -> [event_ttl : Ttls, first_event : FirstEvents]]
      /\ attempt \in [Starters -> 0 .. MaxAttempts \cup 0 .. ConnectAttempts]
  BY StartupAssumption DEF Init
<1>4. alone \in [Starters -> BOOLEAN]
  BY DEF Init
<1> QED
  BY <1>1, <1>2, <1>3, <1>4 DEF TypeOK

LEMMA TypeStep ==
  ASSUME TypeOK, [Next]_vars
  PROVE  TypeOK'
<1>1. CASE Next
  <2>1. DbStep
    BY <1>1, StepIsDbStep
  <2>2. PICK p \in Starters :
          \/ Start(p) \/ CheckMemcache(p) \/ Connect(p) \/ ConnectionFailure(p)
          \/ CreateGetEvents(p) \/ IndexInformation(p) \/ DropTtl(p)
          \/ CreateTtl(p) \/ FindCounter(p) \/ InsertCounter(p)
          \/ AutoReconnect(p) \/ Crash(p) \/ CountEvent(p)
    BY <1>1, StartupCases
  <2>3. /\ pc \in [Starters -> Preparations \cup Calls \cup Errors \cup {"down", "ready"}]
        /\ conf \in [Starters -> [event_ttl : Ttls, first_event : FirstEvents]]
        /\ attempt \in [Starters -> 0 .. MaxAttempts \cup 0 .. ConnectAttempts]
    BY DEF TypeOK
  <2>4. /\ pc' \in [Starters -> Preparations \cup Calls \cup Errors \cup {"down", "ready"}]
        /\ conf' \in [Starters -> [event_ttl : Ttls, first_event : FirstEvents]]
        /\ attempt' \in [Starters -> 0 .. MaxAttempts \cup 0 .. ConnectAttempts]
        /\ alone' \in [Starters -> BOOLEAN]
    <3>1. CASE Start(p)
      <4>1. attempt' \in [Starters -> 0 .. MaxAttempts \cup 0 .. ConnectAttempts]
        <5>1. attempt' = [attempt EXCEPT ![p] = 1]
          BY <3>1 DEF Start
        <5>2. attempt \in [Starters -> 0 .. MaxAttempts \cup 0 .. ConnectAttempts]
          BY <2>3
        <5>3. 1 \in 0 .. MaxAttempts
          BY AttemptsPositive
        <5> QED
          BY <5>1, <5>2, <5>3
      <4>2. /\ pc' \in [Starters -> Preparations \cup Calls \cup Errors \cup {"down", "ready"}]
            /\ conf' \in [Starters -> [event_ttl : Ttls, first_event : FirstEvents]]
        BY <2>3, <3>1 DEF Start, Preparations
      <4>3. alone' \in [Starters -> BOOLEAN]
        BY <3>1 DEF Start, TypeOK
      <4> QED
        BY <4>1, <4>2, <4>3
    <3>2. CASE CreateGetEvents(p) \/ IndexInformation(p)
      BY <3>2 DEF TypeOK, CreateGetEvents, IndexInformation, Goto, Calls
    <3>3. CASE DropTtl(p) \/ CreateTtl(p)
      BY <3>3 DEF TypeOK, DropTtl, CreateTtl, Goto, Calls, Errors
    <3>4. CASE FindCounter(p) \/ InsertCounter(p)
      BY <3>4 DEF TypeOK, FindCounter, InsertCounter, Goto, Calls, Errors
    <3>5. CASE AutoReconnect(p)
      <4>1. attempt' \in [Starters -> 0 .. MaxAttempts \cup 0 .. ConnectAttempts]
        <5>1. \/ attempt[p] < MaxAttempts /\ attempt' = [attempt EXCEPT ![p] = @ + 1]
              \/ attempt' = attempt
          BY <3>5 DEF AutoReconnect, Retried
        <5>2. attempt \in [Starters -> 0 .. MaxAttempts \cup 0 .. ConnectAttempts]
          BY <2>3
        <5>3. attempt[p] < MaxAttempts => attempt[p] + 1 \in 0 .. MaxAttempts
          BY <5>2, AttemptsPositive
        <5> QED
          BY <5>1, <5>2, <5>3
      <4>2. pc' \in [Starters -> Preparations \cup Calls \cup Errors \cup {"down", "ready"}]
        BY <3>5 DEF TypeOK, AutoReconnect, Retried, Calls, Errors
      <4>3. conf' = conf /\ alone' = alone
        BY <3>5 DEF AutoReconnect
      <4> QED
        BY <4>1, <4>2, <4>3 DEF TypeOK
    <3>6. CASE Crash(p)
      BY <3>6 DEF TypeOK, Crash, Goto
    <3>7. CASE CountEvent(p)
      BY <3>7 DEF TypeOK, CountEvent
    <3>8. CASE CheckMemcache(p)
      BY <3>8 DEF TypeOK, CheckMemcache, Goto, Preparations, Errors
    <3>9. CASE Connect(p)
      <4>1. attempt' = [attempt EXCEPT ![p] = 1]
        BY <3>9 DEF Connect
      <4>2. attempt' \in [Starters -> 0 .. MaxAttempts \cup 0 .. ConnectAttempts]
        <5>1. 1 \in 0 .. MaxAttempts
          BY AttemptsPositive
        <5> QED
          BY <2>3, <4>1, <5>1
      <4>3. /\ pc' \in [Starters -> Preparations \cup Calls \cup Errors \cup {"down", "ready"}]
            /\ conf' = conf /\ alone' \in [Starters -> BOOLEAN]
        BY <2>3, <3>9 DEF Connect, Calls
      <4> QED
        BY <2>3, <4>2, <4>3
    <3>10. CASE ConnectionFailure(p)
      <4>1. \/ attempt[p] < ConnectAttempts /\ attempt' = [attempt EXCEPT ![p] = @ + 1]
            \/ attempt' = attempt
        BY <3>10 DEF ConnectionFailure
      <4>2. attempt[p] < ConnectAttempts => attempt[p] + 1 \in 0 .. ConnectAttempts
        BY <2>3, AttemptsPositive
      <4>3. attempt' \in [Starters -> 0 .. MaxAttempts \cup 0 .. ConnectAttempts]
        BY <2>3, <4>1, <4>2
      <4>4. pc' \in [Starters -> Preparations \cup Calls \cup Errors \cup {"down", "ready"}]
        BY <2>3, <3>10 DEF ConnectionFailure, Errors
      <4>5. conf' = conf /\ alone' = alone
        BY <3>10 DEF ConnectionFailure
      <4> QED
        BY <4>3, <4>4, <4>5 DEF TypeOK
    <3> QED
      BY <2>2, <3>1, <3>2, <3>3, <3>4, <3>5, <3>6, <3>7, <3>8, <3>9, <3>10
  <2> QED
    BY <2>1, <2>4 DEF TypeOK, DbStep
<1>2. CASE UNCHANGED vars
  BY <1>2 DEF TypeOK, vars, db
<1> QED
  BY <1>1, <1>2

\* Every variable keeps its type.
THEOREM StartupTypeCorrect == Spec => []TypeOK
<1> QED
  BY TypeInit, TypeStep, PTL DEF Spec

\* The counter is never reset, whoever starts while others count events.
THEOREM CounterGrows == Spec => CounterNeverResets
<1>1. ASSUME TypeOK, [Next]_vars
      PROVE  [counter # NoCounter => counter' >= counter]_vars
  BY <1>1, StepIsDbStep DEF DbStep
<1> QED
  BY <1>1, StartupTypeCorrect, PTL DEF Spec, CounterNeverResets
-----------------------------------------------------------------------------
\* --- the invariant --------------------------------------------------------

\* A step of p changes nothing that belongs to another process.
LEMMA OthersStay ==
  ASSUME TypeOK, NEW p \in Starters, NEW q \in Starters, q # p,
         \/ Start(p) \/ CheckMemcache(p) \/ Connect(p) \/ ConnectionFailure(p)
         \/ CreateGetEvents(p) \/ IndexInformation(p) \/ DropTtl(p)
         \/ CreateTtl(p) \/ FindCounter(p) \/ InsertCounter(p)
         \/ AutoReconnect(p) \/ Crash(p) \/ CountEvent(p)
  PROVE  pc'[q] = pc[q] /\ conf'[q] = conf[q]
<1>1. /\ pc \in [Starters -> Preparations \cup Calls \cup Errors \cup {"down", "ready"}]
      /\ conf \in [Starters -> [event_ttl : Ttls, first_event : FirstEvents]]
  BY DEF TypeOK
<1>2. \/ pc' = pc
      \/ \E l : pc' = [pc EXCEPT ![p] = l]
  BY DEF Start, CheckMemcache, Connect, ConnectionFailure,
         CreateGetEvents, IndexInformation, DropTtl, CreateTtl, FindCounter,
         InsertCounter, AutoReconnect, Retried, Crash, CountEvent, Goto
<1>3. conf' = conf \/ \E c : conf' = [conf EXCEPT ![p] = c]
  BY DEF Start, CheckMemcache, Connect, ConnectionFailure, CreateGetEvents, IndexInformation, DropTtl, CreateTtl, FindCounter,
         InsertCounter, AutoReconnect, Crash, CountEvent, Goto
<1> QED
  BY <1>1, <1>2, <1>3

\* A process gets past a call only with its work done.
LEMMA InitializedStep ==
  ASSUME TypeOK, Initialized, Next
  PROVE  Initialized'
<1>1. DbStep
  BY StepIsDbStep
<1>2. PICK p \in Starters :
        \/ Start(p) \/ CheckMemcache(p) \/ Connect(p) \/ ConnectionFailure(p)
        \/ CreateGetEvents(p) \/ IndexInformation(p) \/ DropTtl(p)
        \/ CreateTtl(p) \/ FindCounter(p) \/ InsertCounter(p)
        \/ AutoReconnect(p) \/ Crash(p) \/ CountEvent(p)
  BY StartupCases
<1>3. SUFFICES ASSUME NEW q \in Starters
      PROVE  /\ pc'[q] \in Calls \cup {"ready"} /\ pc'[q] # "create get_events"
                  => get_events'
             /\ pc'[q] = "ready" => counter' # NoCounter
  BY DEF Initialized
<1>4. pc \in [Starters -> Preparations \cup Calls \cup Errors \cup {"down", "ready"}]
  BY DEF TypeOK
<1>5. CASE pc'[q] = pc[q]
  BY <1>1, <1>5 DEF Initialized, DbStep
<1>6. CASE pc'[q] # pc[q]
  <2>1. q = p
    BY <1>2, <1>6, OthersStay
  <2>2. CASE \/ Start(p) \/ CheckMemcache(p) \/ Connect(p) \/ ConnectionFailure(p)
             \/ AutoReconnect(p) \/ Crash(p) \/ CountEvent(p)
    <3>1. pc'[p] \in Preparations \cup {"CacheError", "create get_events", "RetryError", "down"}
      BY <1>4, <1>6, <2>1, <2>2 DEF Start, CheckMemcache, Connect, ConnectionFailure,
         AutoReconnect, Retried, Crash, CountEvent, Goto, Preparations
    <3>2. pc'[p] \notin Calls \cup {"ready"} \/ pc'[p] = "create get_events"
      BY <3>1 DEF Calls, Preparations
    <3> QED
      BY <2>1, <3>2 DEF Calls
  <2>3. CASE CreateGetEvents(p)
    <3>1. pc'[p] = "index_information" /\ get_events' = TRUE
      BY <1>4, <2>3 DEF CreateGetEvents, Goto, DbCreateGetEvents
    <3> QED
      BY <2>1, <3>1
  <2>4. CASE IndexInformation(p) \/ DropTtl(p) \/ CreateTtl(p)
    <3>1. pc'[p] # "ready" /\ pc[p] \in Calls /\ pc[p] # "create get_events"
      BY <1>4, <2>4 DEF IndexInformation, DropTtl, CreateTtl, Goto, Calls
    <3> QED
      BY <1>1, <2>1, <3>1 DEF Initialized, DbStep
  <2>5. CASE FindCounter(p) \/ InsertCounter(p)
    <3>1. pc[p] \in Calls /\ pc[p] # "create get_events"
      BY <2>5 DEF FindCounter, InsertCounter, Calls
    <3>2. pc'[p] = "ready" => counter' # NoCounter
      <4>1. CASE FindCounter(p)
        BY <1>4, <4>1 DEF FindCounter, Goto, db
      <4>2. CASE InsertCounter(p)
        <5>1. CASE counter = NoCounter
          <6>1. counter' = conf[p].first_event
            BY <4>2, <5>1 DEF InsertCounter, DbInsertCounter
          <6>2. conf[p].first_event \in 0 .. MaxCount
            BY ConfType
          <6> QED
            BY <6>1, <6>2 DEF NoCounter
        <5>2. CASE counter # NoCounter
          BY <1>1, <5>2 DEF DbStep
        <5> QED
          BY <5>1, <5>2
      <4> QED
        BY <2>5, <4>1, <4>2
    <3> QED
      BY <1>1, <2>1, <3>1, <3>2 DEF Initialized, DbStep
  <2> QED
    BY <1>2, <2>2, <2>3, <2>4, <2>5
<1> QED
  BY <1>5, <1>6

\* What a lone process knows stays true, through its own steps and those of
\* the processes that serve.
LEMMA UndisturbedStep ==
  ASSUME TypeOK, \A p \in Starters : alone[p] => Undisturbed(p), Next,
         NEW q \in Starters, alone'[q]
  PROVE  Undisturbed(q)'
<1>1. PICK p \in Starters :
        \/ Start(p) \/ CheckMemcache(p) \/ Connect(p) \/ ConnectionFailure(p)
        \/ CreateGetEvents(p) \/ IndexInformation(p) \/ DropTtl(p)
        \/ CreateTtl(p) \/ FindCounter(p) \/ InsertCounter(p)
        \/ AutoReconnect(p) \/ Crash(p) \/ CountEvent(p)
  BY StartupCases
<1>2. /\ pc \in [Starters -> Preparations \cup Calls \cup Errors \cup {"down", "ready"}]
      /\ conf \in [Starters -> [event_ttl : Ttls, first_event : FirstEvents]]
  BY DEF TypeOK
<1>3. \A r \in Starters \ {p} : pc'[r] = pc[r] /\ conf'[r] = conf[r]
  BY <1>1, OthersStay
<1>4. CASE Connect(p)
  <2>1. q = p /\ \A r \in Starters : pc[r] \notin Calls
    BY <1>4 DEF Connect
  <2>2. pc'[q] = "create get_events"
    BY <1>2, <1>4, <2>1 DEF Connect
  <2>3. \A r \in Starters \ {q} : pc'[r] \notin Calls
    BY <1>3, <2>1
  <2> QED
    BY <2>2, <2>3 DEF Undisturbed, Errors, Preparations
<1>5. CASE ~Connect(p)
  <2>1. alone[q] /\ (q = p => ~Start(p))
    <3>1. alone' = alone \/ (Start(p) /\ alone' = [alone EXCEPT ![p] = FALSE])
      BY <1>1, <1>5 DEF Start, CheckMemcache, ConnectionFailure, CreateGetEvents,
         IndexInformation, DropTtl, CreateTtl, FindCounter,
         InsertCounter, AutoReconnect, Crash, CountEvent, Goto
    <3>2. alone \in [Starters -> BOOLEAN]
      BY DEF TypeOK
    <3>3. Start(p) => alone' = [alone EXCEPT ![p] = FALSE]
      BY DEF Start
    <3> QED
      BY <3>1, <3>2, <3>3
  <2>2. Undisturbed(q)
    BY <2>1
  <2>3. CASE q # p
    <3>1. pc[p] \notin Calls
      BY <2>2, <2>3 DEF Undisturbed
    <3>2. \/ Start(p) \/ CheckMemcache(p) \/ ConnectionFailure(p)
          \/ CountEvent(p) \/ Crash(p)
      BY <1>1, <1>5, <3>1 DEF CreateGetEvents, IndexInformation, DropTtl, CreateTtl,
         FindCounter, InsertCounter, AutoReconnect, Calls
    <3>3. pc'[p] \notin Calls
      BY <1>2, <3>1, <3>2 DEF Start, CheckMemcache, ConnectionFailure, CountEvent,
         Crash, Goto, Calls
    <3>4. ttl' = ttl /\ (counter = NoCounter => counter' = NoCounter)
      BY <3>1, <3>2 DEF Start, CheckMemcache, ConnectionFailure, CountEvent, Crash,
         Applied, db, Calls
    <3>5. pc'[q] = pc[q] /\ conf'[q] = conf[q]
      BY <1>3, <2>3
    <3>6. \A r \in Starters \ {q} : pc'[r] \notin Calls
      BY <1>3, <2>2, <3>3 DEF Undisturbed
    <3> QED
      BY <2>2, <3>4, <3>5, <3>6 DEF Undisturbed
  <2>4. CASE q = p
    <3>1. \A r \in Starters \ {q} : pc'[r] \notin Calls
      BY <1>3, <2>2, <2>4 DEF Undisturbed
    <3>2. conf' = conf
      BY <1>1, <1>5, <2>1, <2>4 DEF CheckMemcache, ConnectionFailure, CreateGetEvents, IndexInformation, DropTtl, CreateTtl, FindCounter,
         InsertCounter, AutoReconnect, Crash, CountEvent, Goto
    <3>3. CASE CreateGetEvents(p)
      <4>1. pc'[q] = "index_information"
        BY <1>2, <2>4, <3>3 DEF CreateGetEvents, Goto
      <4> QED
        BY <3>1, <4>1 DEF Undisturbed, Errors, Preparations
    <3>4. CASE IndexInformation(p)
      <4>1. /\ ttl' = ttl
            /\ pc'[q] = IF ttl \in {NoIndex, conf[q].event_ttl}
                        THEN "create ttl" ELSE "drop ttl"
        BY <1>2, <2>4, <3>4 DEF IndexInformation, Goto, db
      <4> QED
        BY <3>1, <3>2, <4>1 DEF Undisturbed, Errors, Preparations
    <3>5. CASE DropTtl(p)
      <4>1. ttl # NoIndex
        BY <2>2, <2>4, <3>5 DEF Undisturbed, DropTtl
      <4>2. ttl' = NoIndex /\ pc'[q] = "create ttl"
        BY <1>2, <2>4, <3>5, <4>1 DEF DropTtl, DbDropTtl, Goto
      <4> QED
        BY <3>1, <4>2 DEF Undisturbed, Errors, Preparations
    <3>6. CASE CreateTtl(p)
      <4>1. CanCreateTtl(p)
        BY <2>2, <2>4, <3>6 DEF Undisturbed, CreateTtl, CanCreateTtl
      <4>2. ttl' = conf[q].event_ttl /\ pc'[q] = "find counter"
        BY <1>2, <2>4, <3>6, <4>1 DEF CreateTtl, DbCreateTtl, Goto
      <4> QED
        BY <3>1, <3>2, <4>2 DEF Undisturbed, Errors, Preparations
    <3>7. CASE FindCounter(p)
      <4>1. /\ ttl' = ttl /\ ttl = conf[q].event_ttl
            /\ counter' = counter
            /\ pc'[q] = IF counter = NoCounter THEN "insert counter" ELSE "ready"
        BY <1>2, <2>2, <2>4, <3>7 DEF Undisturbed, FindCounter, Goto, db
      <4> QED
        BY <3>1, <3>2, <4>1 DEF Undisturbed, Errors, Preparations
    <3>8. CASE InsertCounter(p)
      <4>1. counter = NoCounter /\ ttl = conf[q].event_ttl
        BY <2>2, <2>4, <3>8 DEF Undisturbed, InsertCounter
      <4>2. ttl' = ttl /\ pc'[q] = "ready"
        BY <1>2, <2>4, <3>8, <4>1 DEF InsertCounter, DbInsertCounter, Goto
      <4> QED
        BY <3>1, <3>2, <4>1, <4>2 DEF Undisturbed, Errors, Preparations
    <3>9. CASE AutoReconnect(p) \/ Crash(p)
      <4>1. pc'[q] \in {"create get_events", "RetryError", "down"}
        BY <1>2, <2>4, <3>9 DEF AutoReconnect, Retried, Crash, Goto
      <4> QED
        BY <3>1, <4>1 DEF Undisturbed, Errors, Preparations
    <3>10. CASE CountEvent(p)
      <4>1. pc' = pc /\ ttl' = ttl /\ pc[q] = "ready"
        BY <2>4, <3>10 DEF CountEvent
      <4> QED
        BY <2>2, <3>1, <3>2, <4>1 DEF Undisturbed
    <3>11. ~CheckMemcache(p) /\ ~ConnectionFailure(p)
      BY <2>2, <2>4 DEF Undisturbed, CheckMemcache, ConnectionFailure, Preparations
    <3> QED
      BY <1>1, <1>5, <2>1, <2>4, <3>3, <3>4, <3>5, <3>6, <3>7, <3>8, <3>9, <3>10, <3>11
  <2> QED
    BY <2>3, <2>4
<1> QED
  BY <1>4, <1>5

\* The inductive invariant.
THEOREM StartupInvariant == Spec => []SInv
<1>1. Init => SInv
  <2> SUFFICES ASSUME Init PROVE SInv
    OBVIOUS
  <2>1. \A p \in Starters : pc[p] = "down"
    BY DEF Init
  <2>2. Initialized
    BY <2>1 DEF Initialized, Calls
  <2>3. \A p \in Starters : ~alone[p]
    BY DEF Init
  <2> QED
    BY <2>2, <2>3, TypeInit DEF SInv
<1>2. SInv /\ [Next]_vars => SInv'
  <2> SUFFICES ASSUME SInv, [Next]_vars PROVE SInv'
    OBVIOUS
  <2>1. TypeOK'
    BY TypeStep DEF SInv
  <2>2. CASE Next
    BY <2>1, <2>2, InitializedStep, UndisturbedStep DEF SInv
  <2>3. CASE UNCHANGED vars
    BY <2>1, <2>3 DEF SInv, Initialized, Undisturbed, vars, db
  <2> QED
    BY <2>2, <2>3
<1> QED
  BY <1>1, <1>2, PTL DEF Spec

\* A process that serves finds the query index and the counter.
THEOREM ReadyMeansInitialized == Spec => []ReadyIsInitialized
<1>1. SInv => ReadyIsInitialized
  BY DEF SInv, Initialized, ReadyIsInitialized
<1> QED
  BY <1>1, StartupInvariant, PTL

\* A start that nobody disturbs ends with the expiry it is configured for, or
\* gives up after MaxAttempts lost connections; it meets no other error.
THEOREM LoneStart == Spec => []LoneStartSucceeds
<1>1. SInv => LoneStartSucceeds
  BY DEF SInv, Undisturbed, LoneStartSucceeds
<1> QED
  BY <1>1, StartupInvariant, PTL

=============================================================================
