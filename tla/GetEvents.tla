----------------------------- MODULE GetEvents -----------------------------
(***************************************************************************)
(* The read side of RSE: MainController.get and _get_events, with the      *)
(* clients that poll it and remember one last_known_id each.               *)
(*                                                                         *)
(* The store is the log of EventLog, which the write side implements.      *)
(* Queries are answered by secondaries, each showing an earlier state of   *)
(* the log; a request with events=parent makes one query per channel, and  *)
(* the log and the secondaries move between them.                          *)
(*                                                                         *)
(* The client is not part of the repository: it follows the walk-through   *)
(* of doc/README.md.  Parameters that int() refuses, and a max-events      *)
(* below 0, are left out.                                                  *)
(***************************************************************************)
EXTENDS EventLog, Sequences, FiniteSets

CONSTANTS
  Clients,
  Replicas,    \* the secondaries
  Requests,    \* what a client may keep asking for
  Longer,      \* <<s, t>> is in it when the segment t is s and some more
  Cap,         \* the most events a client may ask for (500)
  MaxTop       \* bound: the highest id

\* A channel is the sequence of its path segments.  A request has the query
\* parameters as they came: any sort order and any word for events, a max-events
\* of 0; uuid is that of the client.
RequestType == [channel : Seq(STRING) \ {<<>>}, events : STRING, sort : Int,
                max_events : Nat, echo : BOOLEAN, uuid : STRING]

EchoUuid == "e"

ASSUME GetEventsAssumption ==
  /\ Requests \subseteq RequestType
  /\ \A p \in Payloads : p.channel \in Seq(STRING) /\ p.uuid \in STRING \ {EchoUuid}
  /\ MaxTop \in Nat /\ FirstEvent <= MaxTop /\ Cap \in Nat \ {0}

VARIABLES
  view,     \* the events each secondary shows
  ask,      \* the request each client repeats, but for its last-known-id
  pc,       \* "idle", "query" while the server works, "answer" on the way back
  todo,     \* the channels the server has yet to query
  found,    \* the events it has found
  last,     \* last_known_id, as the client remembers it
  got       \* how often each id was delivered to the client

serving == <<pc, todo, found>>
client == <<ask, last, got>>
vars == <<logVars, view, serving, client>>

LogEvent == [id : Nat, payload : Payloads]

TypeOK ==
  /\ events \subseteq LogEvent
  /\ top \in FirstEvent .. MaxTop
  /\ view \in [Replicas -> SUBSET LogEvent]
  /\ ask \in [Clients -> Requests]
  /\ pc \in [Clients -> {"idle", "query", "answer"}]
  /\ todo \in [Clients -> Seq(Seq(STRING))]
  /\ found \in [Clients -> SUBSET LogEvent]
  /\ last \in [Clients -> 0 .. MaxTop]
  /\ got \in [Clients -> [1 .. MaxTop -> Nat]]

GetInit ==
  /\ Init
  /\ view = [r \in Replicas |-> {}]
  /\ ask \in [Clients -> Requests]
  /\ pc = [c \in Clients |-> "idle"]
  /\ todo = [c \in Clients |-> <<>>]
  /\ found = [c \in Clients |-> {}]
  /\ last = [c \in Clients |-> 0]
  /\ got = [c \in Clients |-> [i \in 1 .. MaxTop |-> 0]]
-----------------------------------------------------------------------------
\* --- the query parameters -------------------------------------------------

\* 0 stays 0, which find() takes for no limit.
Limit(q) == IF q.max_events < Cap THEN q.max_events ELSE Cap
SortOrder(q) == IF q.sort \in {1, -1} THEN q.sort ELSE 1
LeftOut(q) == IF q.echo THEN EchoUuid ELSE q.uuid
-----------------------------------------------------------------------------
\* --- which events a query returns ----------------------------------------

\* _explode_channel: the channel and its parents, the longest first.  The search
\* for slashes begins before the last character: where that is one (an empty last
\* segment) the first parent is passed over.
explode_channel(channel) ==
  LET parents == Len(channel) - (IF channel[Len(channel)] = "" THEN 2 ELSE 1)
  IN  <<channel>> \o [i \in 1 .. parents |-> SubSeq(channel, 1, parents + 1 - i)]

\* The pattern ^channel(/.+)? has no $, so it is satisfied by whatever begins
\* with the channel: its sub channels, and siblings with a longer name.
BeginsWith(name, channel) ==
  LET n == Len(channel)
  IN  /\ Len(name) >= n
      /\ \A i \in 1 .. n - 1 : name[i] = channel[i]
      /\ name[n] = channel[n] \/ <<channel[n], name[n]>> \in Longer

\* The 'channel' criterion of the query for one of the channels of a request.
OnChannel(name, channel, how) ==
  IF how = "all" THEN BeginsWith(name, channel) ELSE name = channel

\* The channels MainController.get makes a query for.
Queried(q) == IF q.events = "parent" THEN explode_channel(q.channel)
                                     ELSE <<q.channel>>

\* The criteria of _get_events.  (Mutant: $gte for $gt.)
SelectedFrom(e, channel, q, lastKnownId) ==
  /\ e.id >= lastKnownId
  /\ OnChannel(e.payload.channel, channel, q.events)
  /\ e.payload.uuid # LeftOut(q)
Selected(e, channel, q, lastKnownId) ==
  /\ e.id > lastKnownId
  /\ OnChannel(e.payload.channel, channel, q.events)
  /\ e.payload.uuid # LeftOut(q)

\* The sort order of the query.  (Mutant: the two orders are mixed up.)
Swapped(e, f, order) == IF order = 1 THEN e.id > f.id ELSE e.id < f.id
Before(e, f, order) == IF order = 1 THEN e.id < f.id ELSE e.id > f.id

\* The limit lets the event through that has n events before it; to find() 0 is
\* no limit.  (Mutant: it is one of no events.)
PassesFew(n, q) == n < Limit(q)
Passes(n, q) == Limit(q) = 0 \/ n < Limit(q)

\* The result of one find: sorted by _id and cut at the limit.
Find(S, channel, q, lastKnownId) ==
  LET F == {e \in S : Selected(e, channel, q, lastKnownId)}
  IN  {e \in F : Passes(Cardinality({f \in F : Before(f, e, SortOrder(q))}), q)}
-----------------------------------------------------------------------------
\* --- the actions ----------------------------------------------------------

\* The client polls with the id it remembers.
Poll(c) ==
  /\ pc[c] = "idle"
  /\ pc' = [pc EXCEPT ![c] = "query"]
  /\ todo' = [todo EXCEPT ![c] = Queried(ask[c])]
  /\ UNCHANGED <<logVars, view, found, client>>

\* One _get_events, answered by some secondary; after the last one the
\* response is on its way.
Query(c) ==
  /\ pc[c] = "query"
  /\ \E r \in Replicas :
       found' = [found EXCEPT ![c] =
                   @ \cup Find(view[r], Head(todo[c]), ask[c], last[c])]
  /\ todo' = [todo EXCEPT ![c] = Tail(@)]
  /\ pc' = [pc EXCEPT ![c] = IF Len(todo[c]) = 1 THEN "answer" ELSE "query"]
  /\ UNCHANGED <<logVars, view, client>>

Idle(c) ==
  /\ pc' = [pc EXCEPT ![c] = "idle"]
  /\ todo' = [todo EXCEPT ![c] = <<>>]
  /\ found' = [found EXCEPT ![c] = {}]

\* The request ends without an answer.  The cursor of find is lazy, so that
\* AutoReconnect is raised beyond the retry loop of _get_events and ends the
\* request at once; or the response is lost on the network.
Fail(c) ==
  /\ pc[c] # "idle"
  /\ Idle(c)
  /\ UNCHANGED <<logVars, view, client>>

IdsOf(S) == {e.id : e \in S}

\* The client notes the last id of the response, or the first one when it
\* asked for descending order: the response is sorted, so it is the highest.
\* (Mutant: it notes the id it expects next.)
NotesNext(S) == 1 + CHOOSE i \in IdsOf(S) : \A j \in IdsOf(S) : j <= i
Notes(S) == CHOOSE i \in IdsOf(S) : \A j \in IdsOf(S) : j <= i

Deliver(c) ==
  /\ pc[c] = "answer"
  /\ last' = [last EXCEPT ![c] =
       IF found[c] = {} THEN @ ELSE Notes(found[c])]
  /\ got' = [got EXCEPT ![c] =
       [i \in DOMAIN @ |-> @[i] + Cardinality({e \in found[c] : e.id = i})]]
  /\ Idle(c)
  /\ UNCHANGED <<logVars, view, ask>>

\* The write side: an event is appended, or the oldest one expires.
Write ==
  /\ \/ top < MaxTop /\ \E p \in Payloads : AppendEvent(p)
     \/ Forget
  /\ UNCHANGED <<view, serving, client>>

Replicate(r) ==
  /\ view[r] # events
  /\ view' = [view EXCEPT ![r] = events]
  /\ UNCHANGED <<logVars, serving, client>>

GetNext ==
  \/ \E c \in Clients : Poll(c) \/ Query(c) \/ Fail(c) \/ Deliver(c)
  \/ \E r \in Replicas : Replicate(r)
  \/ Write

GetSpec == GetInit /\ [][GetNext]_vars

\* Clients keep polling, secondaries catch up, and neither does the same query
\* of every request fail nor is every response lost.
QueryOf(c, n) == Len(todo[c]) = n /\ Query(c)

Lengths == {Len(Queried(q)) : q \in Requests}

GetFairness ==
  /\ \A c \in Clients : WF_vars(Poll(c)) /\ SF_vars(Deliver(c))
  /\ \A c \in Clients : \A n \in Lengths : SF_vars(QueryOf(c, n))
  /\ \A r \in Replicas : WF_vars(Replicate(r))

GetFairSpec == GetSpec /\ GetFairness
-----------------------------------------------------------------------------
\* --- properties -----------------------------------------------------------

\* The events a client's request is about, of those in S.
Wanted(c, S) ==
  {e \in S : \E i \in DOMAIN Queried(ask[c]) :
               Selected(e, Queried(ask[c])[i], ask[c], 0)}

\* No live event the client asked for lies below the id it remembers
\* undelivered.
NothingSkipped(c) ==
  \A e \in Wanted(c, events) : e.id <= last[c] => got[c][e.id] > 0

OneQuery(c) == Len(Queried(ask[c])) = 1

\* A client that remembers one id misses nothing ("they will never miss a
\* message", doc/README.md:7), whatever it asks for.
NoSkippedEvent == \A c \in Clients : NothingSkipped(c)

\* It misses nothing as long as its request takes one query, whatever the
\* secondaries, the limit and lost responses did (get, _get_events).
OneQuerySkipsNothing == \A c \in Clients : OneQuery(c) => NothingSkipped(c)

\* No event is delivered twice, although responses get lost and polls are
\* repeated on older secondaries, nor by two of the queries of events=parent
\* (README.md:14-17: no need to detect duplicates).
NoDuplicateDelivery ==
  \A c \in Clients : \A i \in DOMAIN got[c] : got[c][i] <= 1

\* An event the client asked for is delivered in the end, or expires first, or
\* has been skipped by the several queries of events=parent.
EventuallyDelivered ==
  \A c \in Clients : \A i \in 1 .. MaxTop :
    i \in IdsOf(Wanted(c, events))
      ~> \/ got[c][i] > 0 \/ i \notin IdsOf(events)
         \/ ~OneQuery(c) /\ i <= last[c]
=============================================================================
