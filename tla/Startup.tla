------------------------------ MODULE Startup ------------------------------
(***************************************************************************)
(* The start of an RSE process: RseApplication.__init__ probes memcache,    *)
(* connects to MongoDB and runs _init_events, which changes the shared     *)
(* database while others do the same or serve already.                     *)
(*                                                                         *)
(* Each call is a step.  A call of _init_events may raise AutoReconnect,   *)
(* after having been applied or not, and @retry then runs the whole        *)
(* function again, up to MaxAttempts times; connecting is tried            *)
(* ConnectAttempts times.  Any other error ends the start: a memcache that *)
(* does not answer, an index that exists with another expireAfterSeconds,  *)
(* an index to drop that is gone, and a counter document that is there     *)
(* already.                                                                *)
(***************************************************************************)
EXTENDS Integers

CONSTANTS
  Starters,      \* the processes
  Ttls,          \* the values of event_ttl they may be configured with
  FirstEvents,   \* the values of first_event
  ConnectAttempts,   \* stop_after_attempt of _init_mongo
  MaxAttempts,   \* stop_after_attempt of _init_events
  Reconnects,    \* TRUE if calls may raise AutoReconnect
  MaxCount       \* bound: the highest value of the counter

NoIndex == 0
NoCounter == -1

ASSUME StartupAssumption ==
  /\ Ttls \subseteq Nat \ {NoIndex}
  /\ FirstEvents \subseteq 0 .. MaxCount
  /\ MaxAttempts \in Nat \ {0}
  /\ ConnectAttempts \in Nat \ {0}
  /\ Reconnects \in BOOLEAN
  /\ MaxCount \in Nat

VARIABLES
  get_events,   \* whether the index "get_events" exists
  ttl,          \* expireAfterSeconds of the index "ttl", or NoIndex
  counter,      \* c of the counter document, or NoCounter
  pc,           \* the next call of each process
  conf,         \* the configuration of each process
  attempt,      \* how often it has begun _init_mongo or _init_events
  alone         \* history: no other process was in _init_events when this one
                \* got there, and none has got there since

db == <<get_events, ttl, counter>>
vars == <<db, pc, conf, attempt, alone>>

Calls == {"create get_events", "index_information", "drop ttl", "create ttl",
          "find counter", "insert counter"}
Preparations == {"check memcache", "connect"}
Errors == {"RetryError", "CacheError",
           "IndexOptionsConflict", "IndexNotFound", "DuplicateKeyError"}

TypeOK ==
  /\ get_events \in BOOLEAN
  /\ ttl \in Ttls \cup {NoIndex}
  /\ counter \in 0 .. MaxCount \cup {NoCounter}
  /\ pc \in [Starters -> Preparations \cup Calls \cup Errors \cup {"down", "ready"}]
  /\ conf \in [Starters -> [event_ttl : Ttls, first_event : FirstEvents]]
  /\ attempt \in [Starters -> 0 .. MaxAttempts \cup 0 .. ConnectAttempts]
  /\ alone \in [Starters -> BOOLEAN]

\* A new database, or one that earlier processes have initialized.
Init ==
  /\ \/ get_events = FALSE /\ ttl = NoIndex /\ counter = NoCounter
     \/ get_events = TRUE /\ ttl \in Ttls /\ counter \in FirstEvents
  /\ pc = [p \in Starters |-> "down"]
  /\ conf \in [Starters -> [event_ttl : Ttls, first_event : FirstEvents]]
  /\ attempt = [p \in Starters |-> 0]
  /\ alone = [p \in Starters |-> FALSE]
-----------------------------------------------------------------------------
\* --- what the calls do to the database ------------------------------------

\* Creating an index again with the same options does nothing.
DbCreateGetEvents == get_events' = TRUE /\ UNCHANGED <<ttl, counter>>
DbDropTtl == ttl' = NoIndex /\ UNCHANGED <<get_events, counter>>
DbCreateTtl(p) == ttl' = conf[p].event_ttl /\ UNCHANGED <<get_events, counter>>

\* mutant: save() where insert() is meant
DbSaveCounter(p) == counter' = conf[p].first_event /\ UNCHANGED <<get_events, ttl>>

DbInsertCounter(p) ==
  /\ counter = NoCounter
  /\ counter' = conf[p].first_event
  /\ UNCHANGED <<get_events, ttl>>
-----------------------------------------------------------------------------
\* --- _init_events, one action per call ------------------------------------

Goto(p, label) ==
  /\ pc' = [pc EXCEPT ![p] = label]
  /\ UNCHANGED <<conf, attempt, alone>>

Start(p) ==
  /\ pc[p] \in Errors \cup {"down"}
  /\ pc' = [pc EXCEPT ![p] = "check memcache"]
  /\ \E c \in [event_ttl : Ttls, first_event : FirstEvents] :
       conf' = [conf EXCEPT ![p] = c]
  /\ attempt' = [attempt EXCEPT ![p] = 1]
  /\ alone' = [alone EXCEPT ![p] = FALSE]
  /\ UNCHANGED db

\* moecache raises if the probe fails, and the start is over.
CheckMemcache(p) ==
  /\ pc[p] = "check memcache"
  /\ Goto(p, "connect") \/ Goto(p, "CacheError")
  /\ UNCHANGED db

\* _init_mongo: a client of the primary and one of the secondaries.
Connect(p) ==
  /\ pc[p] = "connect"
  /\ pc' = [pc EXCEPT ![p] = "create get_events"]
  /\ attempt' = [attempt EXCEPT ![p] = 1]
  /\ alone' = [q \in Starters |-> q = p /\ \A r \in Starters : pc[r] \notin Calls]
  /\ UNCHANGED <<db, conf>>

ConnectionFailure(p) ==
  /\ pc[p] = "connect"
  /\ IF attempt[p] < ConnectAttempts
     THEN attempt' = [attempt EXCEPT ![p] = @ + 1] /\ UNCHANGED pc
     ELSE pc' = [pc EXCEPT ![p] = "RetryError"] /\ UNCHANGED attempt
  /\ UNCHANGED <<db, conf, alone>>

CreateGetEvents(p) ==
  /\ pc[p] = "create get_events"
  /\ DbCreateGetEvents
  /\ Goto(p, "index_information")

IndexInformation(p) ==
  /\ pc[p] = "index_information"
  /\ Goto(p, IF ttl \in {NoIndex, conf[p].event_ttl} THEN "create ttl" ELSE "drop ttl")
  /\ UNCHANGED db

DropTtl(p) ==
  /\ pc[p] = "drop ttl"
  /\ \/ ttl # NoIndex /\ DbDropTtl /\ Goto(p, "create ttl")
     \/ ttl = NoIndex /\ UNCHANGED db /\ Goto(p, "IndexNotFound")

CanCreateTtl(p) == ttl \in {NoIndex, conf[p].event_ttl}

CreateTtl(p) ==
  /\ pc[p] = "create ttl"
  /\ \/ CanCreateTtl(p) /\ DbCreateTtl(p) /\ Goto(p, "find counter")
     \/ ~CanCreateTtl(p) /\ UNCHANGED db /\ Goto(p, "IndexOptionsConflict")

FindCounter(p) ==
  /\ pc[p] = "find counter"
  /\ Goto(p, IF counter = NoCounter THEN "insert counter" ELSE "ready")
  /\ UNCHANGED db

InsertCounter(p) ==
  /\ pc[p] = "insert counter"
  /\ \/ DbInsertCounter(p) /\ Goto(p, "ready")
     \/ counter # NoCounter /\ UNCHANGED db /\ Goto(p, "DuplicateKeyError")

\* The call that p is at, applied although p will not hear of it.
Applied(p) ==
  \/ pc[p] = "create get_events" /\ DbCreateGetEvents
  \/ pc[p] = "drop ttl" /\ ttl # NoIndex /\ DbDropTtl
  \/ pc[p] = "create ttl" /\ CanCreateTtl(p) /\ DbCreateTtl(p)
  \/ pc[p] = "insert counter" /\ DbInsertCounter(p)

\* mutant: the attempts are not counted
RetriedForEver(p) ==
  /\ pc' = [pc EXCEPT ![p] = "create get_events"]
  /\ UNCHANGED attempt

\* mutant: the failed call is made again, not the whole function
CallRetried(p) ==
  /\ attempt[p] < MaxAttempts
  /\ attempt' = [attempt EXCEPT ![p] = @ + 1]
  /\ UNCHANGED pc

\* mutant: a lost answer to the last call passes for a success
LostIsDone(p) ==
  /\ pc' = [pc EXCEPT ![p] = IF @ = "insert counter" THEN "ready" ELSE "RetryError"]
  /\ UNCHANGED attempt

\* mutant: one attempt too many
OneTooMany(p) ==
  /\ pc' = [pc EXCEPT ![p] = "create get_events"]
  /\ attempt[p] <= MaxAttempts
  /\ attempt' = [attempt EXCEPT ![p] = @ + 1]

\* tenacity: run the function again, or raise RetryError.
Retried(p) ==
  IF attempt[p] < MaxAttempts
  THEN /\ pc' = [pc EXCEPT ![p] = "create get_events"]
       /\ attempt' = [attempt EXCEPT ![p] = @ + 1]
  ELSE /\ pc' = [pc EXCEPT ![p] = "RetryError"]
       /\ UNCHANGED attempt

AutoReconnect(p) ==
  /\ Reconnects
  /\ pc[p] \in Calls
  /\ Applied(p) \/ UNCHANGED db
  /\ Retried(p)
  /\ UNCHANGED <<conf, alone>>

\* The process dies, before or while it serves.
Crash(p) ==
  /\ pc[p] \in Preparations \cup Calls \cup {"ready"}
  /\ Goto(p, "down")
  /\ Applied(p) \/ UNCHANGED db

\* A serving process counts an event (MainController._insert_event): $inc
\* without upsert, which does nothing when there is no document.
CountEvent(p) ==
  /\ pc[p] = "ready"
  /\ counter < MaxCount
  /\ counter' = IF counter = NoCounter THEN NoCounter ELSE counter + 1
  /\ UNCHANGED <<get_events, ttl, pc, conf, attempt, alone>>

InitEvents(p) ==
  \/ CreateGetEvents(p) \/ IndexInformation(p) \/ DropTtl(p) \/ CreateTtl(p)
  \/ FindCounter(p) \/ InsertCounter(p)

Prepare(p) == CheckMemcache(p) \/ Connect(p) \/ ConnectionFailure(p)

Next ==
  \E p \in Starters :
    \/ Start(p) \/ Prepare(p) \/ InitEvents(p) \/ AutoReconnect(p) \/ Crash(p)
    \/ CountEvent(p)

Spec == Init /\ [][Next]_vars

\* Calls return or raise; nothing else is taken for granted.
FairSpec ==
  Spec /\ \A p \in Starters : WF_vars(Prepare(p) \/ InitEvents(p) \/ AutoReconnect(p))
-----------------------------------------------------------------------------
\* --- properties -----------------------------------------------------------

\* The counter is created once and only grows, whoever starts while others
\* count events: "The event ID counter must be global, can never reset"
\* (doc/README.md:95, lines 139 to 145).
CounterNeverResets == [][counter # NoCounter => counter' >= counter]_vars

\* A process that serves finds the counter and the query index: its $inc is
\* never lost on a missing document, even when it had to retry.
ReadyIsInitialized ==
  \A p \in Starters : pc[p] = "ready" => counter # NoCounter /\ get_events

\* A process that initializes the database by itself ends with the expiry it is
\* configured for or with RetryError, whatever it finds there and however often
\* an answer was lost after the call was applied (lines 105 to 145).
LoneStartSucceeds ==
  \A p \in Starters : alone[p] =>
    /\ pc[p] \notin Errors \ {"RetryError"}
    /\ pc[p] = "ready" => ttl = conf[p].event_ttl

\* Every start ends: the process serves, dies or reports an error.
EveryStartEnds ==
  \A p \in Starters :
    pc[p] \in Preparations \cup Calls ~> pc[p] \notin Preparations \cup Calls
-----------------------------------------------------------------------------
\* --- the invariant of StartupProofs ----------------------------------------

\* A process beyond a call has found its work done: nothing removes the query
\* index or the counter again.
Initialized ==
  \A p \in Starters :
    /\ pc[p] \in Calls \cup {"ready"} /\ pc[p] # "create get_events" => get_events
    /\ pc[p] = "ready" => counter # NoCounter

\* What a process that is alone knows about the TTL index and the counter at
\* each of its calls.
Undisturbed(p) ==
  /\ \A q \in Starters \ {p} : pc[q] \notin Calls
  /\ pc[p] \notin Preparations \cup (Errors \ {"RetryError"})
  /\ pc[p] = "drop ttl" => ttl \notin {NoIndex, conf[p].event_ttl}
  /\ pc[p] = "create ttl" => ttl \in {NoIndex, conf[p].event_ttl}
  /\ pc[p] \in {"find counter", "insert counter", "ready"} => ttl = conf[p].event_ttl
  /\ pc[p] = "insert counter" => counter = NoCounter

\* The inductive invariant behind ReadyIsInitialized and LoneStartSucceeds.
SInv ==
  /\ TypeOK
  /\ Initialized
  /\ \A p \in Starters : alone[p] => Undisturbed(p)

=============================================================================
