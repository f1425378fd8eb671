# RSE in TLA+

RSE ("really simple events") is a small HTTP service: clients post JSON events to
channels, other clients poll a channel and remember one number, the last id they
received. The service runs as several processes on several servers against one
MongoDB replica set. What it promises is short ("as long as clients phone home
within the event TTL window, they will never miss a message", `doc/README.md`) and
rests on how ids are made: there is no sequence generator, an id is computed from
whatever a possibly lagging secondary shows and made unique by a retry loop.

This directory holds the TLA+ modules of that program, the configurations that
model-check them, and theorems proved with TLAPS. Paths below are relative to the
repository; `main:197` is line 197 of `src/rse/controllers/main_controller.py`.

    tlc -config post_ids.cfg MCPostEvent.tla      # any run: see the table of runs
    tlapm PostEventProofs.tla                     # the proofs; also the other modules named *Proofs

## 1. Inventory

| component | code | state | operations | models |
|---|---|---|---|---|
| Event submission | `main_controller.py`: `post`, `_post`, `_insert_event`, `_calculate_next_id`, `_parse_client_uuid` | collection `events` (unique `_id`, TTL index on `created_at`), document `last_known_id` in `counters`; per request the two loop variables, the id, the document | post, JSON-P post | `PostEvent` |
| Event retrieval | `main_controller.py`: `get`, `_get_events`, `_explode_channel`, `_debug_dump` | none in the server; `last_known_id` in the client | get with `events=exact, parent, all`, `sort`, `max-events`, `echo`; the dump of test mode | `GetEvents`, the dump in `Requests` |
| Start-up | `rse/__init__.py` | the indexes and the counter document | once per process: convert the configuration, probe memcache, connect, `_init_events` | `Startup`, `Config` |
| FastCache | `rax/fastcache/fastcache.py` | a dictionary, a list per time slice, time and slice of the last call | `cache`, `is_cached`, `count`, `clear`, `integrity_check` | `FastCache` |
| JSON validator | `json_validator.py` | table state, token list, recursion | `is_valid` | `JsonLexer`, `JsonParser` |
| Authentication | `main_controller.py`: `prepare`, `_format_key` | the tokens in memcache, put there by another program | one lookup per request | `Requests` |
| Routing, requests, responses | `rax/http/rawr.py`, `rax/http/exceptions.py` | a controller, a request and a response per request | `Rawr.__call__`, `Controller.__call__`, `prepare`, the method | `Requests` |
| Health controller | `health_controller.py` | the profiling level of the database, shared by all processes | `get` (basic or verbose), `head` | `Health`, `Requests` |
| Configuration | `config/__init__.py`, `util.py`: `splitport`, `filter_dataset`, `mergedicts` | nested dictionaries | load, merge, process; the filter of the health report | `Config` |
| Instrumentation | `instrumentation.py` and the agents | the open Elastic APM transaction of each worker | begin, end | `Requests` |
| Logging, versions, command line | `util.py`, `cli.py`, `wsgi.py` | - | - | no: pure I/O |

How they interact. `Rawr` picks a controller, which begins a transaction, runs `prepare`
(authentication in the main controller, nothing in the health controller) and then the
method. Writes go to the primary, reads to a secondary
(`rse/__init__.py` hands the main controller a client with read preference
*secondary*). The only state that processes share is the database, and every call to
it is a point where everything else may move: other processes, replication, the TTL
monitor, the clock. Nothing is locked. Start-up changes the same indexes and counter
that running processes use. FastCache and the JSON validator are sequential;
`post` calls the validator before it touches the database.

What is hard, and what has to hold:

* **Submission.** Two processes compute the same id; a secondary is behind, so that
  an id seems free that was used and has expired; the collection is empty and the id
  comes from the side counter, incremented in a separate call; the inner loop (100
  attempts) is restarted by the outer one (10); AutoReconnect leaves open whether a
  write was applied; processes die between insert and increment. Correct: a new id is
  above every earlier one; the counter is exact when it is needed; events expire from
  the lowest id up; an answer tells what happened; every request ends.
* **Retrieval.** Consecutive polls are answered by different secondaries; with
  `events=parent` one response is put together from several queries; responses are
  cut at `max-events`, lost and asked for again. Correct: nothing skipped, nothing
  repeated, nothing withheld for ever.
* **Start-up.** Look-then-act on indexes and counter, by several processes at once,
  each run again from the top when an answer is lost. Correct: the counter is never
  reset, a serving process finds what it needs, an undisturbed start succeeds.
* **Requests.** A request leaves through a return, an `HttpError` that `Rawr` answers, or
  another exception that the WSGI server answers; only some of these end the
  transaction, and the next request of the worker finds it open. Tokens come and go
  and memcache fails while a request runs. Correct: what is reported of a request is
  what its client got; no method of the main controller runs unless the key of its token
  was found.
* **Health.** Reports overlap, are begun again as a whole after AutoReconnect, and end
  halfway with other exceptions, while they switch one shared profiling level.
  Correct: profiling is off again, except after a report that failed; the retries end.
* **Configuration.** Files may override any part of the nested defaults with any kind of
  node. Correct: each path has the value of the file that says something about it;
  nothing but the server list is converted; the filter keeps what it is told to keep.
* **FastCache.** Expiry happens at the next call, from slice numbers that wrap.
  Correct: whatever the pauses between calls, a value is there long enough and not
  too long; the dictionary and the lists agree.
* **JSON validator.** A hand-written table and a parser that pops tokens from the
  end. Correct: ends for every input, and accepts JSON and only JSON.

Every hazard, with its line and the properties that watch it, is in `PROJECT.json`.

## 2. Modules

    EventLog      what the store promises              ExpiringSet   what FastCache promises
       ^   ^                                               ^
       |   |  GetEvents extends it                         |  refined by
       |   +--- GetEvents <-- GetEventsProofs          FastCache <-- FastCacheProofs
       |            ^                                      ^
       |            +---- MCGetEvents                      +---- MCFastCache
       |  refined by
    PostEvent <-- PostEventInvariant <-- PostEventProofs
                        ^
                        +------- MCPostEvent           Startup <-- StartupProofs, MCStartup
    JsonLexer <-- JsonLexerProofs, MCJsonLexer
        ^
        |  what the lexer sets aside
    JsonParserProofs --> JsonParser <-- MCJsonParser

    Health <-- Requests <-- RequestsProofs, MCRequests
    Config <-- ConfigProofs, MCConfig

**EventLog** is the contract between writers and readers: consecutive ids, none given
out twice, oldest forgotten first. `PostEvent` implements it and `GetEvents` uses it
in the place of the whole write side, so the reader's properties need not be checked
against every interleaving of writers.

**PostEvent** has one action per database call of `_post`: `Receive` (the tests
before the database is touched), `ReadNewest` and `ReadCounter`
(`_calculate_next_id`), `Stamp` / `NoUuid` (the document is built after the id is
known: `created_at`, `_parse_client_uuid`), `Insert` / `Duplicate`, `Count`, then
the three failing calls, each with the write applied or not, and `Crash`.
`Replicate`, `Expire` and `Tick` are the environment. `pc` names the call that comes
next. `top`, `stored` and `answer` are history, read by no action of the program.
`first_event` is what the counter *starts at*: the first id is one above it.
Requests that are refused before the database is reached (bad body, no user agent)
are one kind, `"invalid"`. A bad callback name is *not* among them: the code looks at
it once the event is stored, and so does the model (`Outcome`).

**PostEventInvariant** holds the inductive invariant of the ids, **PostEventProofs** the proofs
about ids, counter and expiry, and about what requests are answered.

**GetEvents** takes the query parameters as they come: any word for `events`, any number
for `sort`, a `max-events` above the cap or 0, which `find` takes for no limit (`Limit`,
`SortOrder`, `LeftOut`). It has one action per query of `get` (`Query`), `Poll` and `Deliver` at the
client, and `Fail`: `find` is lazy, so that AutoReconnect surfaces while the cursor is
read, outside of the retry loop that was meant for it, and the request fails at once.
A failed query and a lost response look the same to the client. `view` is what each
secondary shows. `BeginsWith` is the pattern `^channel(/.+)?`, which has no end anchor
and so also matches `/ab` when `/a` is asked for. A channel is the sequence of its segments; the last
one is empty when the channel ends with a slash, and `explode_channel` then passes over the first
parent, as the code does.

**Startup** has the preparations of `__init__` (`CheckMemcache`, whose failure ends the
start; `Connect` and `ConnectionFailure`, retried), one action per call of `_init_events`,
and `AutoReconnect` and `Crash` with the call applied or not. `Retried` is the tenacity decorator: the whole function
again. A process may serve (`CountEvent`), die and start with another configuration.

**Health** has one action per call of a report. A report is the list of its calls, which
`FullReport` puts together from the parameters; `Again` and `OutOfAttempts` are the
tenacity decorator, `Raise` is any other exception. Only the profiling level is state:
what the calls return is data. `left` is history. **Requests** extends it with the rest of
a request's life: `Receive` (routing and `begin_transaction`), `Prepare` (the lookup),
`Handle` or `HandleHealth`, and the ways out. `Return` ends the transaction before the
response is sent, as `get` and `_post` do; `HealthResponds` and `HealthEnds` are the
other order, that of `HealthController.__call__`; `RaiseStatus` leaves it open. What
`get` and `_post` do is in the modules above: here they end with one of the statuses
they can end with. `Vouch` and `Evict` are the
program that fills memcache, and memcache: `cache` has for each key the token it was last
stored for, since what memcache compares is keys. `Key` is `_format_key`, with the prefix
(`Prefixed`) and the hash of long keys (`Hashed`) as constant functions of which nothing is
assumed; in particular two tokens may have one key. `vouched`, the tokens that were in the cache at
some time between a request's arrival and its lookup, and `results` are history.

**Config** goes from the files to where the settings are used: `Search`, `Merge`,
`Process` and the filter of a verbose report are steps over one nested data set.
`MergeTrees` and `Filter` recurse as the code does, as functions of the data sets in `Nodes`;
`Depth` says how deep one nests, so that the recursion ends. The properties speak of paths. None, numbers, texts, lists and dictionaries are told apart as `isinstance`
and `in` tell them apart; errors that end the start or the report are results. `HostPort` has the
texts that hold a colon, with what is before and after it, for `splitport`.

**FastCache** has one action per public call; `_purge` is part of each that makes it.
`_current_time` and `_last_time` are set together at the end of each purge and are one
variable. `cachedAt` is history. **ExpiringSet** is a set whose members go at an age
between `Retention - Slack` and `Retention`, at a call of somebody's choice.

**JsonLexer** is the table `TRANSFORMATIONS`, written as a set of rules and applied
character by character. Characters the table cannot tell apart are one. The reference
is a grammar of lexemes over the same characters, given by the places where a lexeme begins
and ends; `IsLaxLexeme` says in one place where
the code departs from it: no tab between lexemes, control characters inside strings, and
`-0` followed by more digits. Lists in which a value follows a value are set aside
(`MayBeJson`): the table may take `1"a"` apart, and `_pop_value` then refuses it. That no
JSON text is among the lists set aside is the theorem `TextsMayBeJson`.
**JsonParser** is `_pop_value` with its recursion made explicit as `stack`, and the last
lines of `is_valid`; the reference is RFC 4627's grammar over tokens. The two compose
by the token list: what the lexer leaves in `tokens` is what the parser pops, and a
text is accepted if the one accepts it and then the other.

## 3. Runs

| run | bounds | what it shows |
|---|---|---|
| `post_ids` | 2 processes, 1 secondary, 3 requests, time to 5, TTL 3, delay 1, lag 1; failed reads, refused inserts, crashes elsewhere than between insert and increment | `IdsOnlyGrow`, `CounterKeepsUp`, `CounterNeverAhead`, `ExpiryFollowsIds`, `AnswerTellsTheTruth`, the inductive invariant, and that `PostEvent` implements `EventLog` |
| `post_faults` | 2 processes, 2 requests of three kinds, time to 2, TTL 1, every failure | what survives lost acknowledgements and crashes: `AckedIsStored`, `BoundedDuplication`; and that the retry loops end: `EveryPostEnds` |
| `poll` | 1 client, 2 secondaries, 3 events, 4 payloads, 7 requests | `OneQuerySkipsNothing`, `NoDuplicateDelivery`, `EventuallyDelivered` |
| `startup` | 2 processes, 2 TTLs, 3 attempts, 2 to connect, counter to 2, AutoReconnect and crashes | `CounterNeverResets`, `ReadyIsInitialized`, `LoneStartSucceeds`, `EveryStartEnds`, and the inductive invariant |
| `fastcache` | 3 values, 3 slices of 2 seconds, 20 seconds, created at any second of the first round | `Integrity`, `OneRoundPerSlice`, and that `FastCache` implements `ExpiringSet` |
| `requests` | 2 workers, 10 requests, 2 tokens with one key, 2 attempts | `ResultsMatchAnswers`, `HandledAreVouched`, `ProfilingIsTemporary`, `EveryRequestEnds` |
| `config` | 3 directories, 784 contents of a file, or none, 8 reports | `OverridesWin`, `OnlyServersConverted`, `FilterKeepsFields` |
| `json_lexer` | all bodies of up to 3 to 6 characters from each of seven small alphabets | `ReadsTheTokens` |
| `json_parser` | all token lists of up to 10 tokens | `AcceptsOnlyJson`, `RejectsNoJson`, `Terminates` |
| `clock_drift` | one clock one tick slow | violates `IdsOnlyGrow` (finding) |
| `uncounted` | processes may die between insert and increment | violates `IdsOnlyGrow` (finding) |
| `parent_skip` | `events=parent` | violates `NoSkippedEvent` (finding) |

Every property of a passing run has a mutant in `PROJECT.json`: a form of one
definition that a plausible slip in the code would give it (`$gte` for `$gt`, `save` for
`insert`, a clock read too early, a return value ignored), under which TLC finds that
property violated. The mutants stand in the modules, before the definitions they
belong to.

**Why the bounds are enough.**

* *Attempts.* The 100 inner and 10 outer attempts are 2 and 2: one attempt that another
  follows and the last one, which is all that the code tells apart. The 3
  attempts of start-up stand for 10 in the same way: a first, a middle and a last one.
* *Requests and time.* Three requests let two processes collide and a third event be
  written after the first two; time to 5 with a TTL of 3 lets events expire and the
  fallback to the counter be used both before and after. Only the run `post_ids`
  has the third event; the failures of `post_faults` need only two.
* *Failures.* `post_ids` leaves out the failures that `AllCounted` excludes, and an
  increment whose reply is lost: the retry then stores the event twice, so that the 503
  or 201 no longer tells what happened (`AnswerTellsTheTruth`). The theorems on ids
  admit that failure, and `post_faults` has all of them.
* *TTL.* 3 is the least that `LongLived` (2 * MaxDelay + MaxLag <= Ttl) admits, so the
  run checks the boundary: with a TTL of 2 and the rest unchanged TLC finds an id
  reused. The documents ask for a TTL of at least two minutes, far above any lag they expect. In
  `clock_drift` the TTL is 4, so that the assumption holds and the clock alone is to
  blame.
* *Time in `post_faults`.* Two ticks and a TTL of 1 let an event expire while a process is
  between its calls, and the counter be used; its invariants do not rest on `LongLived`.
  Symmetry is off there, as it must be for liveness.
* *Readers.* Two secondaries at different points are what a reader can meet; three
  events over four payloads give it every mixture of wanted and unwanted ones around a
  limit of 1 or 2; the cap of 500 is 2. `events=parent` is among the requests: its
  several queries may skip (`parent_skip`) but not repeat. Descending order is asked for
  only with a limit that cuts nothing: the documents leave open which events such a
  client has to expect.
* *Requests.* One request for each way through the code: each route, each method that is
  implemented, a stub and one that is missing, with and without a token, and the verbose
  reports with each parameter true, false or absent, and unknown to `strtobool`. Workers share the
  cache and the profiling level; two are enough for one to run while the other is
  anywhere. Tenacity's 10 attempts are 2.
* *Tokens.* There is a long token and one that reads like its hash, so that the two have one
  key, and each is sent by some request. With the strict reading
  `req[w].token \in vouched[w]` in the place of `HandledAreVouched` TLC finds the one handled
  while only the other is in the cache: the case does occur in the run. Tokens with keys of
  their own share nothing with these.
* *Config.* Two keys of `rse.yaml` with their subtrees, and one scalar; every file overrides
  each of them with nothing, null, a scalar, an empty dictionary, a subtree; servers have no
  colon, a port, two colons or what is no port, in a list, as the keys of a dictionary and
  (without and with a colon) in the place of the list. Paths are as
  deep as the data sets.
* *FastCache.* 20 seconds are three rounds of the slices, and the cache may be created at
  any offset in a round; calls may be any number of seconds apart.
* *JSON.* The alphabets of `MCJsonLexer` cover every rule of the table, each together with
  those that share its states. The parser's list is chosen as it is popped, so one state
  stands for every list with the same end; 10 tokens hold an object with two members or
  arrays and objects nested in each other.

Deadlock is not an error in `json_lexer` and `json_parser`, where the function returns, and
in `config`, where a start fails. The other runs never stop.

**Fairness.** `PostEvent`: each database call of a living process returns or raises (the
driver raises when its connection is lost); nothing is assumed of arrivals, replication or expiry.
`Startup` and `Requests`: the same, with the calls of a start and the steps of a worker.
`GetEvents`: clients keep polling, secondaries catch up, and among infinitely many
requests some are answered (strong fairness of `Deliver`, and of `Query` for each number
of queries left, or the last query of `events=parent` might always be the one that fails);
without that, a network that loses everything would refute delivery.
`JsonParser`: Python runs the function to its end.

## 4. Proofs

TLC looks at the instances above; the theorems hold for all values of the constants
that the assumptions of the modules admit.

**`PostEventProofs`.** `TypeCorrect` needs no more than the module's assumptions. The
others assume

* `NoDrift`: the processes' clocks agree;
* `AllCounted`: no failure that leaves a stored event uncounted (an
  insert whose reply is lost, a refused increment, death in between);
* `LongLived`: `2 * MaxDelay + MaxLag <= Ttl`.

The runs `clock_drift` and `uncounted` show that neither of the first two
can be dropped.

`IInv` is inductive, `IdsOnlyGrow` alone is not: it says nothing of the ids that
processes have in hand and secondaries still show. The central notion is `Usable(i, t)`: an
id computed from data of date `t` is at most the next one; what was stored from `i`
upwards since is younger than `t - MaxDelay`; and if `i` has been given out, its event is
still there to collide with. What secondaries show is usable (`SnapshotsUsable`), and so
is what a process computed from it (`DraftsUsable`), as long as it is in time (`InTime`),
because events of that age cannot have expired (`LongLived`). An insert can thus only
succeed with `top + 1`. That the clock is read after the id makes `created_at` follow the
ids (`ExpiryFollowsIds`), so expiry takes the lowest id and the live events stay without
gaps (`LiveAreLatest`). The counter lacks exactly the events of processes between insert
and increment (`CounterLags`), and these are live; when the collection is empty there are
none and the counter is exact. The lemma that counts them is a pigeonhole on
`Cardinality(Pending)`.

From `IInv`: `Invariant`, `IdsGrow`, `CounterExact`, `CounterNotAhead`, `ExpiryInOrder` and
`RefinesLog`, the last one a step-by-step simulation: `Insert` is `AppendEvent`, `Expire` is `Forget`,
everything else stutters.

**What requests are answered** (also `PostEventProofs`). These theorems need nothing of clocks, lags and expiry: `AckedStored`
and `DuplicationBounded` hold under every failure. `AckedIsStored` is not inductive, since
the answer comes a call after the insert; `CopiesTold` carries over the interval that what
is to be counted is stored, and charges each further copy to an attempt. `OneEach` says
that no two processes serve one request. `AnswersTrue` assumes `RepliesKnown`, that none of
the three failures happens which leave a process in doubt or send it back to the insert;
in between, `ExactlyOnce` says when the event is stored.

**`GetEventsProofs`.** No assumption beyond the modules', except where named: any number of
clients, secondaries and queries per request, any parameters. `DeliveryInv` is inductive.
Its core is `OneLog`: everything that is stored, shown by a secondary or found by a request
belongs to one log in which an id stands for one event; and `Remembers`: what is found lies above the
remembered id, where nothing has been delivered. From it `NoDuplicates`, `events=parent`
included. For the gaps `GapInv` adds `ViewsAreOlder`, that a secondary has everything up to
the newest event it shows, as far as it is still stored, and `NoGap`, the same of what one
query finds. `InOrderComplete` is per client: one that asks with one query, ascending or without a
limit, skips nothing whatever the others do. `OneQueryComplete` is the property of the
run, for requests none of which is descending with a limit (`CutsNewest`; such a one loses
events by design, section 5).

**`FastCacheProofs`.** `SlicesPartition` (the property `Integrity`) and `CheckNeverFails`
assume nothing of the clock: dictionary and lists agree even if it is set back, so that
the `del` of `_clear_slice` finds its key. The rounds need
`ForwardClock`: `RoundInv` adds that the last slice is the one of the last call, and that
a slice holds values of one round. Its steps are arithmetic on `\div` and `%`: two moments of
one round are told apart by their slices, and a purge clears exactly the slices between the
last call and this one, or all of them. `ImplementsSet` is the refinement of
`ExpiringSet`: the purge of each call is the expiry of a set of members, each between
`Retention - Slack` and `Retention` old, for slices of any number and length.

**`JsonParserProofs`.** For token lists of any length. The grammar is a recursive function,
and the first lemmas show that the recursion has a solution (`GrammarUnfolds`, by the
well-founded order of the lengths); after that only its rules are used. `AcceptsOnlyJson` speaks
of the end, so the invariant has to say what the tokens popped are in between: `Accounted`
cuts them into one piece for each call underway (`Chain`), each an unfinished array or
object that waits for a value, and what the innermost call has collected. Each step moves
one token; the lemmas `Joining` and `Closing` say that it completes a longer list or a
value, `Accepting` what a complete value means to the caller. `ParserTypeCorrect` adds that
the recursion is never deeper than the tokens are many.
`RejectsNoJson` is about lists nobody has seen: no text may end with the tokens looked at. Its
invariant, `Complete` (`NoTextLost`), is the same cut made in what is left: whatever tokens
would make a text with those popped, they end with what the innermost call waits for, and
before that stands for each caller what it is owed (`LeftChain`). For it the rules are read
backwards (`RulesBackwards`, and by the least list without it `LastItem`: a list, which the
grammar takes apart from the front, has a last item, which is what the code pops first), and
every segment is known by its last token (`ValueEnds`, `ListEnds`, `UnreadEnds`), so that
the test of `tokens[-1]` decides between them: `CallFits`, `LoopFits`, `MemberFits`. That the
grammar derives a text in one way only is not needed. With `AcceptedIsJson`,
`RejectedIsNoJson` makes `is_valid` and the grammar agree on every list. `TextsMayBeJson` fits
the lexer to it: every value the grammar derives begins and ends like one and has no value
after a value (`LikeStep`, by the well-founded order of the lengths), so that what
`TableReadsTokens` says of the lists that may be JSON covers all lists the parser accepts.

**`JsonLexerProofs`.** For texts of any length. `Readings` is all ways to take a text apart,
from a character on, so the property compares a deterministic loop with a set of token lists.
The argument is that of derivatives: `Left(q, s, i)` is what the rest of the text, from the
`i`-th character, can still give in state `q`, first completing the lexeme that `q` is in, for
every one of the states inside words, strings and numbers (`WordLeft`, `StringLeft`,
`NumberLeft`). `LInv` says that the readings of the text which may be JSON are the tokens so far
with what is left. Two things need care. A number's token is emitted at its first digit, and
`12` has also the reading `1`, `2`; that one is set aside, since after a value nothing that
begins a value can come (`NoValueAfter`). And a text that ends in `DECIMALOK` is refused though
it is a number (`EXITSTATES`): an array or object does not end there (`LeftAtEnd`). `Rules` and
`OneWay` show that the table is a partial function: from each state and character there is one
way at most, so that the order of the rules does not matter; `CharacterRead` is the step of one character, for ground, inside a lexeme, and
where there is no rule. It follows that a text has at most one reading that may be JSON. Lexemes are
those of `IsLaxLexeme` throughout, that is of RFC 4627 but for the three deviations (section 5).

**`ConfigProofs`.** For data sets of any shape and depth and paths of any length. The module's
assumptions say that yaml data is finite: what is in a node is a node and nests less deep
(`NodesAssumption`), and the fields that merging the file leaves are such a node
(`FieldsAssumption`); TLC evaluates both. That the recursions of `merge` and `filter_dataset`
have a solution is shown level by level of `Depth` (`MergeUnfolds`, `FilterUnfolds`), and after
that only their equations are used. The properties speak of what is found along a path, so each
has an induction along one: `MergeTrail` (the three cases of a key: the file's, the defaults',
cut off by something the file has further up), `ConvertedAt` (a path that does not go through
the servers sees the same) and `FilterTrail` (below an entry all of it, none, or what the
narrowed keys say). `CInv` then only says what the variables were made from. From it
`OverridesHold`, `OnlyServers` and `ReportsKeepFields`.

**`StartupProofs`.** No assumption beyond the module's. `CounterGrows` looks at each
write. `SInv` says what a process knows at each of its calls: beyond the first call the
query index exists, beyond the last the counter does (`Initialized`: nothing removes
either); and a process that is alone knows whether the TTL index is there and
right (`Undisturbed`). `ReadyMeansInitialized` and `LoneStart` follow. A start with
company may end in an error; `LoneStartSucceeds` does not claim otherwise.

**`RequestsProofs`.** No assumption beyond the modules' own, which only say what a request
is and that there is a first attempt: any number of workers, of attempts and of kinds of
requests. `RInv` is inductive. `ProfilingIsTemporary` alone is not, since a call that
switches the level on must be followed by one that switches it off: `Orderly` says so of
every report and of every rest of one, by lemmas on concatenation and `Tail`
(`ConcatIsReport`, `TailIsReport`), and that a report begun again has as much to do as
what it gives up. `AtRest` is needed because a new report replaces whatever its worker
had left to do. `Keyed` says that what the cache has under a key is a token with that key, and `Seen` carries
the lookup over the interval in which keys come and go; `Underway` says that until it is answered a request has its own transaction open and
nothing reported. `ProfilingTemporary`, `OnlyVouchedHandled` and `ResultsTrue` follow.
`OnlyVouchedHandled` speaks of keys, for any prefix and hash: it is what a lookup by key can show.
`OnlyKnownHandled` says the same of the token itself, and has to assume `HashesApart`: the
prefix and the hash are injective and no prefixed token reads like a hash. A prefix that
no hash begins with gives the last of these; the default one, which is empty, does not.

**Only model-checked**: liveness under fairness (`EveryPostEnds`, `EventuallyDelivered`,
`EveryStartEnds`, `EveryRequestEnds`, `Terminates`), which the provers cannot reason about.
Every invariant and action property of a passing run is stated by a theorem.

## 5. Findings

* `clock_drift`: "RSE guarantees clients will never miss an event due to clock drift or ID
  collisions" (`README.md:14`). Ids are taken from the highest *live* event, and
  `created_at` from each server's clock: on a server that is slow the newest event can be
  the first to expire, and its id is given out again. (`rse/__init__.py:14` asks for
  synchronized clocks.)
* `uncounted`: "The event ID counter must be global, can never reset, and must be
  atomically incremented" (`doc/README.md:95`). Insert and increment are two calls.
* `parent_skip`: "they will never miss a message" (`doc/README.md:7`). With
  `events=parent` the channels are queried one after the other; an event on the first,
  written after its query and before a later one on the second, is skipped.

Met while modelling, without a run of its own:

* Of two processes that start on a new database one may get `DuplicateKeyError` from
  `_init_events` and not start (`__init__:145`); `InsertCounter` has it.
* `sort=-1` with an effective limit returns the newest events, and the client, which notes
  the highest id, never sees the others (`main:427`).
* The age of an event is `.seconds` of a difference, nearly a day for one whose
  `created_at` is ahead of the server's clock (`main:162`).
* `events=all` on `/a` also returns the events of `/ab` (`main:469`); the comment at line 441
  speaks of sub channels.
* A token that is sent is looked up even in test mode, which only excuses a missing one
  (`main:88`); `rse.yaml:13` puts it more broadly ("Disables auth checking").
* Short and hashed keys share one name space (`main:66`): with the default prefix, which is
  empty, and the default threshold of 250 a token spelled like the dashed SHA-512 of a longer
  one has the key of that one, and the lookup takes one for the other.
* A text with a colon in the place of the server list, or a dictionary with a key whose port
  is no number, ends the start with `ValueError` (`util:45`); the comment in `process`
  speaks of ignoring what fails only for None.
* `_explode_channel` begins its search before the last character: for `/a/b/` it gives `/a/b/`
  and `/a`, not `/a/b` (`main:189`).
* `is_valid` does not return "True iff JSON string is valid" (`json_validator.py:161`), in three
  cases: `-0` leads to the state `NUMBER` (line 115), so that more digits may follow and
  `[-01]` is accepted; control characters other than `\b\f\n\r` are accepted in
  strings (line 98); a tab between lexemes is refused (line 81 has no `\t`).
  `IsLaxLexeme` has all three, and what `ReadsTheTokens` and `TableReadsTokens` show is up to them.
* `health_fields` has a list for `profiling`, so the hint `N/A. Pass profile_db=true ...`
  comes out as `{}`: `Filter` of a text.
* A configuration file that is empty ends the start with `AttributeError` (`config:77`).
* Once a crash between insert and increment has made an id be given out again, the counter
  can get ahead of the highest id: every later event is counted, the one whose id is
  reused a second time. `CounterNeverAhead` therefore holds only where `AllCounted` does,
  like exactness.
* Two overlapping reports with `profile_db` may read the profile while the other has
  switched the level off already.

## 6. What is left out

* `shared.id_totalcnt` and `id_retrycnt` (statistics), naps between attempts, logging, names
  of metrics.
* MongoDB's elections and rollback of acknowledged writes: a primary that loses writes is
  not something the code handles or could notice.
* The age in rendered events, JSON-P and UUID rendering; parameters that `int()` refuses are
  only a way out of `Handle`; `max-events` below 0, whose meaning is the driver's.
* What the database answers to the calls of a health report; names of transactions; New
  Relic's parameters; headers and bodies.
* YAML and the reading of files; keys of the configuration that no operation treats
  specially.
* Methods other than get, head, post, put and patch: `rawr.py:188` looks up whatever attribute the
  controller has under the lower-cased name, so a method named like one of its helpers (`prepare`)
  would run that.
* Python's recursion limit in the JSON validator.
* Logging, version reports, the command line and the WSGI file: pure I/O.

## 7. Plan

Done, in this order, by importance: the write side, its invariant and proofs; the read
side on top of the abstract log; start-up with proofs; FastCache; the JSON validator;
the life of a request with the health reports, and its proofs; the configuration; the query parameters.

Left to model: `PostEvent` and `Startup` together, a process that starts against writers
that serve (`Startup` has `CountEvent` in the place of the writers, which is all that they
change of what `_init_events` looks at).

Proofs done: the write side (ids, counter, refinement, answers), start-up, the life of a
request, the read side, FastCache with its refinement, what the JSON parser accepts and
rejects, what the lexer reads, the configuration.

Left to prove, if `PostEvent` and `Startup` are put together: that `IdsOnlyGrow` survives a
start, from `CounterGrows` and `IInv`.
