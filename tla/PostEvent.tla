----------------------------- MODULE PostEvent -----------------------------
(***************************************************************************)
(* The write side of RSE: MainController._post, _insert_event and          *)
(* _calculate_next_id, run by several server processes against one MongoDB *)
(* database.                                                               *)
(*                                                                         *)
(* A process serves one request at a time.  Each of its database calls is  *)
(* one atomic step, and other processes, the TTL monitor, replication and  *)
(* the clock may move between any two of them.  Writes go to the primary;  *)
(* reads go to a secondary, because RseApplication gives the controller    *)
(* the client whose read preference is 'secondary'.                        *)
(*                                                                         *)
(* shared.id_totalcnt and id_retrycnt, statistics that no step reads, and   *)
(* the naps between two attempts are left out.                             *)
(*                                                                         *)
(* MongoDB itself (the primary, the secondaries, the TTL index) is not     *)
(* part of the repository: it is modelled from the calls the code makes.   *)
(***************************************************************************)
EXTENDS Integers, FiniteSets

CONSTANTS
  Workers,         \* the server processes
  Replicas,        \* the secondaries reads are served from
  Ttl,             \* event_ttl, in ticks of the clock
  FirstEvent,      \* first_event: what the side counter starts at
  InsertAttempts,  \* the 100 attempts of _insert_event
  PostAttempts,    \* the 10 attempts of _post
  Kinds,           \* the kinds of request that arrive, a subset of AllKinds
  TestMode,        \* test_mode: a missing client uuid is replaced
  Faults,          \* the failures that may happen, a subset of AllFaults
  Skew,            \* how far each process's clock is off
  MaxDelay,        \* longest time from the id query of an attempt to its end
  MaxLag,          \* longest time a secondary stays behind the primary
  MaxPosts,        \* bound: number of requests
  MaxNow           \* bound: end of time

\* "invalid" stands for every request refused before the database is touched:
\* no User-Agent header, a body that is not JSON, a quote in the User-Agent.
AllKinds == {"post", "jsonp", "badCallback", "noUuid", "invalid"}

\* AutoReconnect from a read; from the insert or the counter update, with the
\* write applied ("Lost") or not ("Refused"); and the death of a process,
\* between the insert and the counter update or anywhere else.
AllFaults == {"read", "insertRefused", "insertLost", "countRefused",
              "countLost", "crash", "crashUncounted"}

\* The failures that leave an event stored which the counter never counts.
UncountingFaults == {"insertLost", "countRefused", "crashUncounted"}

ASSUME ConstantsAssumption ==
  /\ IsFiniteSet(Workers)
  /\ Ttl \in Nat
  /\ FirstEvent \in Nat
  /\ InsertAttempts \in Nat \ {0}
  /\ PostAttempts \in Nat \ {0}
  /\ Kinds \subseteq AllKinds
  /\ TestMode \in BOOLEAN
  /\ Faults \subseteq AllFaults
  /\ Skew \in [Workers -> Int]
  /\ MaxDelay \in Nat
  /\ MaxLag \in Nat
  /\ MaxPosts \in Nat
  /\ MaxNow \in Nat

Posts == 1 .. MaxPosts

VARIABLES
  \* the database
  events,     \* the events collection of the primary
  counter     \* c of the document last_known_id in counters, on the primary
VARIABLES
  replica,    \* what each secondary shows: an earlier primary, and its date
  \* the server processes
  pc,         \* the database call a process makes next, "idle" between requests
  post,       \* the number of the request it serves
  kind,       \* and its kind
  attempt,    \* retry_on_duplicate_key, the loop variable of _insert_event
  tries,      \* i, the loop variable of _post
  nextId,     \* next_id
  created,    \* created_at of the document being inserted
  startedAt   \* when the attempt asked for the newest id
VARIABLES
  \* the environment, and what happened so far
  now,        \* true time
  posts,      \* number of requests received
  top,        \* the highest id ever inserted
  stored,     \* how often each request's event was inserted
  answer      \* how each request was answered

store == <<events, counter, top, stored>>
request == <<post, kind>>
draft == <<nextId, created, startedAt>>
history == <<posts, answer>>
vars == <<store, replica, pc, request, attempt, tries, draft, now, history>>

Event == [id : Nat, created : Int, post : Nat]
Snapshot == [events : SUBSET Event, counter : Nat, at : Nat]
Busy == {"newest", "fallback", "stamp", "insert", "count"}
InAttempt == Busy \ {"newest"}
Answers == {"none", "created", "callback", "badRequest", "badCallback", "unavailable"}

TypeOK ==
  /\ events \subseteq Event
  /\ counter \in Nat
  /\ replica \in [Replicas -> Snapshot]
  /\ pc \in [Workers -> Busy \cup {"idle"}]
  /\ post \in [Workers -> 0 .. MaxPosts]
  /\ kind \in [Workers -> AllKinds \cup {"none"}]
  /\ attempt \in [Workers -> 0 .. InsertAttempts - 1]
  /\ tries \in [Workers -> 0 .. PostAttempts - 1]
  /\ nextId \in [Workers -> Nat]
  /\ created \in [Workers -> Int]
  /\ startedAt \in [Workers -> Nat]
  /\ now \in Nat
  /\ posts \in 0 .. MaxPosts
  /\ top \in Nat
  /\ stored \in [Posts -> Nat]
  /\ answer \in [Posts -> Answers]
-----------------------------------------------------------------------------
\* RseApplication._init_events has run: the counter document exists on every
\* node and the collection is empty.
Init ==
  /\ events = {}
  /\ counter = FirstEvent
  /\ replica = [r \in Replicas |-> [events |-> {}, counter |-> FirstEvent, at |-> 0]]
  /\ pc = [w \in Workers |-> "idle"]
  /\ post = [w \in Workers |-> 0]
  /\ kind = [w \in Workers |-> "none"]
  /\ attempt = [w \in Workers |-> 0]
  /\ tries = [w \in Workers |-> 0]
  /\ nextId = [w \in Workers |-> 0]
  /\ created = [w \in Workers |-> 0]
  /\ startedAt = [w \in Workers |-> 0]
  /\ now = 0
  /\ posts = 0
  /\ top = FirstEvent
  /\ stored = [n \in Posts |-> 0]
  /\ answer = [n \in Posts |-> "none"]
-----------------------------------------------------------------------------
\* --- a request arrives, and how it ends ----------------------------------

\* HttpMain.post (or a JSON-P get) hands the request to _post, which refuses
\* it at once or turns to the database.
Receive(w) ==
  /\ pc[w] = "idle"
  /\ posts < MaxPosts
  /\ posts' = posts + 1
  /\ \E k \in Kinds :
       IF k = "invalid"
       THEN /\ answer' = [answer EXCEPT ![posts + 1] = "badRequest"]
            /\ UNCHANGED <<pc, request>>
       ELSE /\ pc' = [pc EXCEPT ![w] = "newest"]
            /\ post' = [post EXCEPT ![w] = posts + 1]
            /\ kind' = [kind EXCEPT ![w] = k]
            /\ UNCHANGED answer
  /\ UNCHANGED <<store, replica, attempt, tries, draft, now>>

DropDraft(w) ==
  /\ nextId' = [nextId EXCEPT ![w] = 0]
  /\ created' = [created EXCEPT ![w] = 0]
  /\ startedAt' = [startedAt EXCEPT ![w] = 0]

\* The process is done with its request, or dead and restarted.
Leave(w) ==
  /\ pc' = [pc EXCEPT ![w] = "idle"]
  /\ post' = [post EXCEPT ![w] = 0]
  /\ kind' = [kind EXCEPT ![w] = "none"]
  /\ attempt' = [attempt EXCEPT ![w] = 0]
  /\ tries' = [tries EXCEPT ![w] = 0]
  /\ DropDraft(w)

Respond(w, a) ==
  /\ Leave(w)
  /\ answer' = [answer EXCEPT ![post[w]] = a]

\* What the code after the loop of _post answers: the callback name is only
\* looked at now that the event is stored.
Outcome(k) ==
  CASE k = "jsonp" -> "callback"
    [] k = "badCallback" -> "badCallback"
    [] OTHER -> "created"

\* HttpServiceUnavailable, when the attempts are used up.  (Mutant: the False
\* that _insert_event returns is ignored.)
GiveUpSilently(w) == Respond(w, Outcome(kind[w]))
GiveUp(w) == Respond(w, "unavailable")
-----------------------------------------------------------------------------
\* --- one attempt of _insert_event ----------------------------------------

IsNewest(e, S) == e \in S /\ \A f \in S : f.id <= e.id

\* _calculate_next_id asks a secondary for the event with the highest id ...
ReadNewest(w) ==
  /\ pc[w] = "newest"
  /\ \E r \in Replicas :
       \/ /\ replica[r].events = {}
          /\ pc' = [pc EXCEPT ![w] = "fallback"]
          /\ UNCHANGED nextId
       \/ \E e \in replica[r].events :
            /\ IsNewest(e, replica[r].events)
            /\ nextId' = [nextId EXCEPT ![w] = e.id + 1]
            /\ pc' = [pc EXCEPT ![w] = "stamp"]
  /\ startedAt' = [startedAt EXCEPT ![w] = now]
  /\ UNCHANGED <<store, replica, request, attempt, tries, created, now, history>>

\* ... and when there is none asks, perhaps another one, for the side counter.
ReadCounter(w) ==
  /\ pc[w] = "fallback"
  /\ \E r \in Replicas :
       nextId' = [nextId EXCEPT ![w] = replica[r].counter + 1]
  /\ pc' = [pc EXCEPT ![w] = "stamp"]
  /\ UNCHANGED <<store, replica, request, attempt, tries, created, startedAt,
                 now, history>>

\* created_at, by the clock of the process.  (Mutant: the clock is read once,
\* before the id is computed.)
StampedEarly(w) == startedAt[w] + Skew[w]
StampedAt(w) == now + Skew[w]

\* The document is built: _parse_client_uuid, then utcnow().
Stamp(w) ==
  /\ pc[w] = "stamp"
  /\ kind[w] # "noUuid" \/ TestMode
  /\ created' = [created EXCEPT ![w] = StampedAt(w)]
  /\ pc' = [pc EXCEPT ![w] = "insert"]
  /\ UNCHANGED <<store, replica, request, attempt, tries, nextId, startedAt,
                 now, history>>

\* _parse_client_uuid raises HttpBadRequest, which leaves both loops.
NoUuid(w) ==
  /\ pc[w] = "stamp"
  /\ kind[w] = "noUuid" /\ ~TestMode
  /\ Respond(w, "badRequest")
  /\ UNCHANGED <<store, replica, now, posts>>

\* The unique index on _id.  (Mutant: the document is saved, not inserted.)
NeverTaken(id) == FALSE
Taken(id) == \E e \in events : e.id = id

\* What the primary does with a document whose _id is free.
Store(w) ==
  /\ ~Taken(nextId[w])
  /\ events' = events \cup
       {[id |-> nextId[w], created |-> created[w], post |-> post[w]]}
  /\ top' = IF nextId[w] > top THEN nextId[w] ELSE top
  /\ stored' = [stored EXCEPT ![post[w]] = @ + 1]
  /\ UNCHANGED counter

Insert(w) ==
  /\ pc[w] = "insert"
  /\ Store(w)
  /\ pc' = [pc EXCEPT ![w] = "count"]
  /\ UNCHANGED <<replica, request, attempt, tries, draft, now, history>>

\* Mutant: the loop runs once too often.
OneAttemptMore(w) == attempt[w] < InsertAttempts
\* range(100) is not exhausted.
MoreAttempts(w) == attempt[w] + 1 < InsertAttempts

\* DuplicateKeyError: another attempt, or False from _insert_event and 503.
Duplicate(w) ==
  /\ pc[w] = "insert"
  /\ Taken(nextId[w])
  /\ IF MoreAttempts(w)
     THEN /\ attempt' = [attempt EXCEPT ![w] = @ + 1]
          /\ pc' = [pc EXCEPT ![w] = "newest"]
          /\ DropDraft(w)
          /\ UNCHANGED <<request, tries, answer>>
     ELSE GiveUp(w)
  /\ UNCHANGED <<store, replica, now, posts>>

\* The side counter is incremented.  (Mutants: it is set to next_id; the
\* update is applied twice.)
SetCounter(w) == counter' = nextId[w]
IncTwice(w) == counter' = counter + 2
IncCounter(w) == counter' = counter + 1

\* The side counter follows, both loops end, and the client is answered.
Count(w) ==
  /\ pc[w] = "count"
  /\ IncCounter(w)
  /\ Respond(w, Outcome(kind[w]))
  /\ UNCHANGED <<events, top, stored, replica, now, posts>>
-----------------------------------------------------------------------------
\* --- AutoReconnect, and the death of a process ---------------------------

\* The loop over num_retries moves on.  (Mutant: it does not.)
SameTry(w) == UNCHANGED tries
NextTry(w) == tries' = [tries EXCEPT ![w] = @ + 1]

\* _post catches AutoReconnect and calls _insert_event again, up to
\* num_retries times.
Reconnect(w) ==
  IF tries[w] + 1 < PostAttempts
  THEN /\ NextTry(w)
       /\ attempt' = [attempt EXCEPT ![w] = 0]
       /\ pc' = [pc EXCEPT ![w] = "newest"]
       /\ DropDraft(w)
       /\ UNCHANGED <<request, answer>>
  ELSE GiveUp(w)

ReadFails(w) ==
  /\ "read" \in Faults
  /\ pc[w] \in {"newest", "fallback"}
  /\ Reconnect(w)
  /\ UNCHANGED <<store, replica, now, posts>>

\* The primary is lost before or after it applied the insert.
InsertFails(w) ==
  /\ pc[w] = "insert"
  /\ \/ "insertRefused" \in Faults /\ UNCHANGED store
     \/ "insertLost" \in Faults /\ Store(w)
  /\ Reconnect(w)
  /\ UNCHANGED <<replica, now, posts>>

\* The same for the counter update, whose event is stored already.
CountFails(w) ==
  /\ pc[w] = "count"
  /\ \/ "countRefused" \in Faults /\ UNCHANGED counter
     \/ "countLost" \in Faults /\ IncCounter(w)
  /\ Reconnect(w)
  /\ UNCHANGED <<events, top, stored, replica, now, posts>>

\* A process dies and is restarted; its client never gets an answer.
Crash(w) ==
  /\ \/ "crash" \in Faults /\ pc[w] \in Busy \ {"count"}
     \/ "crashUncounted" \in Faults /\ pc[w] = "count"
  /\ Leave(w)
  /\ UNCHANGED <<store, replica, now, history>>
-----------------------------------------------------------------------------
\* --- the environment -----------------------------------------------------

\* A secondary catches up with the primary.
Replicate(r) ==
  /\ replica' = [replica EXCEPT ![r] =
       [events |-> events, counter |-> counter, at |-> now]]
  /\ UNCHANGED <<store, pc, request, attempt, tries, draft, now, history>>

\* The TTL monitor walks the index on created_at from its low end.
ExpiresFirst(e) ==
  /\ e \in events
  /\ \A f \in events : \/ e.created < f.created
                       \/ e.created = f.created /\ e.id <= f.id

Expire ==
  /\ \E e \in events :
       /\ ExpiresFirst(e)
       /\ e.created + Ttl < now
       /\ events' = events \ {e}
  /\ UNCHANGED <<counter, top, stored, replica, pc, request, attempt, tries,
                 draft, now, history>>

\* Time passes, but no attempt outlasts MaxDelay and no lag exceeds MaxLag.
Tick ==
  /\ now < MaxNow
  /\ \A w \in Workers : pc[w] \in InAttempt => now < startedAt[w] + MaxDelay
  /\ \A r \in Replicas : now < replica[r].at + MaxLag
  /\ now' = now + 1
  /\ UNCHANGED <<store, replica, pc, request, attempt, tries, draft, history>>
-----------------------------------------------------------------------------
\* A database call returns or raises.
Proceed(w) ==
  \/ ReadNewest(w) \/ ReadCounter(w) \/ Stamp(w) \/ NoUuid(w)
  \/ Insert(w) \/ Duplicate(w) \/ Count(w)
  \/ ReadFails(w) \/ InsertFails(w) \/ CountFails(w)

Next ==
  \/ \E w \in Workers : Receive(w) \/ Proceed(w) \/ Crash(w)
  \/ \E r \in Replicas : Replicate(r)
  \/ Expire
  \/ Tick

Spec == Init /\ [][Next]_vars

\* Every database call of a living process returns or raises in the end.
Fairness == \A w \in Workers : WF_vars(Proceed(w))

FairSpec == Spec /\ Fairness
-----------------------------------------------------------------------------
\* --- properties ----------------------------------------------------------

\* A new event's id is above every id given out before, stored or expired:
\* the client that remembers one last_known_id misses nothing (the promise of
\* _insert_event's docstring), although ids are taken from lagging secondaries
\* and the highest ids may have expired.
IdsOnlyGrow == [][\A e \in events' \ events : e.id > top]_vars

\* Once the collection has expired to nothing, the side counter stands exactly
\* at the highest id ever given out, so the fallback of _calculate_next_id
\* continues the sequence with no id reused and none skipped.
CounterKeepsUp == events = {} => counter = top

\* Events expire in the order of their ids: a later id never carries an
\* earlier created_at, whatever order the processes' clock reads came in.
\* (_insert_event reads the clock after the id.)
ExpiryFollowsIds ==
  \A e, f \in events : e.id < f.id => e.created <= f.created

\* 201 (or the JSON-P answer) means stored exactly once; 503 and 400 mean not
\* stored at all, except the 400 for a bad callback name.
AnswerTellsTheTruth ==
  \A n \in Posts :
    /\ answer[n] \in {"created", "callback"} => stored[n] = 1
    /\ answer[n] \in {"unavailable", "badRequest"} => stored[n] = 0

\* Whatever fails, an answer that reports success is for a stored event.
AckedIsStored ==
  \A n \in Posts : answer[n] \in {"created", "callback"} => stored[n] > 0

\* The counter is incremented after the insert, so it is at no time ahead of
\* the ids given out and the fallback skips none, whatever collides, expires or
\* is inserted again after a lost reply to the increment.  (Every event must be
\* counted: once ids have been given out twice, each use is counted.)
CounterNeverAhead == counter <= top

\* Retrying duplicates an event at most once per AutoReconnect of its request.
BoundedDuplication ==
  \A w \in Workers : post[w] # 0 =>
    stored[post[w]] <= tries[w] + (IF pc[w] = "count" THEN 1 ELSE 0)

\* Every request ends: neither collisions nor reconnects retry for ever.
EveryPostEnds == \A w \in Workers : pc[w] # "idle" ~> pc[w] = "idle"

Log == INSTANCE EventLog WITH
         events <- {[id |-> e.id, payload |-> e.post] : e \in events},
         Payloads <- Posts

\* Collisions, lag, expiry and the fallback together keep the promise of the
\* log: consecutive ids, oldest forgotten first.
ImplementsLog == Log!Spec
=============================================================================
