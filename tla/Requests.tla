------------------------------ MODULE Requests ------------------------------
(***************************************************************************)
(* The life of a request in RSE: Rawr routes it to a controller, which     *)
(* begins an Elastic APM transaction; MainController.prepare looks the     *)
(* token up in the cache; the method runs; and the request is answered by  *)
(* the controller, by Rawr for an HttpError, or by the WSGI server for any *)
(* other exception.  The transaction is ended on some of these ways only,  *)
(* and the next request of the same worker finds it open.                  *)
(*                                                                         *)
(* The reports of /health are those of Health.  What get and _post do to   *)
(* the events is in GetEvents and PostEvent: here they end in one of the   *)
(* ways these can end.                                                     *)
(***************************************************************************)
EXTENDS Health, FiniteSets

CONSTANTS
  RequestTypes,   \* what is asked for
  Prefixed,       \* each token with authtoken_prefix before it
  Hashed          \* the dashed SHA-512 of those of them that are long: that
                  \* reach token_hashing_threshold

NoToken == "no_token"
Tokens == {q.token : q \in RequestTypes} \ {NoToken}
Paths == {"/", "/health", "/events", "/all"}

ASSUME RequestsAssumption ==
  RequestTypes \subseteq
    [path : Paths, method : {"get", "head", "post", "put", "patch"}, token : STRING,
     verbose : Params, profile_db : Params, validate_db : Params]

ASSUME KeysAssumption ==
  /\ Prefixed \in [Tokens -> STRING]
  /\ Hashed \in [DOMAIN Hashed -> STRING]

VARIABLES
  test_mode,   \* of the configuration
  cache,       \* memcache: under each key the token the API put there, or NoToken
  pc,          \* "idle", or where the worker is with its request
  req,         \* the request it has or had last
  status,      \* the status of the response it is about to give
  answer,      \* the status the client got, or NoAnswer
  trans,       \* the open transaction: "none", "own", or one "left_over" from
               \* an earlier request
  \* history
  results,     \* what was reported to Elastic APM during this request
  vouched      \* the tokens the cache had from when it came until it is looked up

requests == <<pc, req, status, answer, trans, results>>
vars == <<health, test_mode, cache, requests, vouched>>

NoAnswer == 0
Busy(w) == pc[w] \notin {"idle", "down"}

\* The status codes of the exceptions.
StatusCode ==
  [HttpNoContent |-> 204, HttpCreated |-> 201, HttpAccepted |-> 202,
   HttpBadRequest |-> 400, HttpUnauthorized |-> 401, HttpForbidden |-> 403,
   HttpNotFound |-> 404, HttpMethodNotAllowed |-> 405,
   HttpPreconditionFailed |-> 412, HttpUnsupportedMediaType |-> 415,
   HttpConflict |-> 409, HttpInternalServerError |-> 500,
   HttpBadGateway |-> 502, HttpServiceUnavailable |-> 503]

\* What the server in front of RSE makes of an exception that Rawr lets pass.
Uncaught == 500

Statuses == {200, Uncaught, NoAnswer} \cup {StatusCode[e] : e \in DOMAIN StatusCode}

\* _format_key: a long key is replaced by its hash.  With the default prefix and
\* threshold the hash is itself short enough for a token, which then has this key too.
Key(token) ==
  LET key == Prefixed[token]
  IN  IF key \in DOMAIN Hashed THEN Hashed[key] ELSE key
Keys == {Key(token) : token \in Tokens}
Cached == {cache[key] : key \in Keys} \ {NoToken}

TypeOK ==
  /\ HealthTypeOK
  /\ test_mode \in BOOLEAN
  /\ cache \in [Keys -> Tokens \cup {NoToken}]
  /\ pc \in [Workers -> {"idle", "prepare", "handle", "report", "respond",
                         "answered", "down"}]
  /\ req \in [Workers -> RequestTypes]
  /\ status \in [Workers -> Statuses]
  /\ answer \in [Workers -> Statuses]
  /\ trans \in [Workers -> {"none", "own", "left_over"}]
  /\ results \in [Workers -> Seq([of : {"own", "left_over"}, result : Statuses])]
  /\ vouched \in [Workers -> SUBSET Tokens]

Init ==
  /\ HealthInit
  /\ test_mode \in BOOLEAN
  /\ cache = [key \in Keys |-> NoToken]
  /\ pc = [w \in Workers |-> "idle"]
  /\ req \in [Workers -> RequestTypes]
  /\ status = [w \in Workers |-> NoAnswer]
  /\ answer = [w \in Workers |-> NoAnswer]
  /\ trans = [w \in Workers |-> "none"]
  /\ results = [w \in Workers |-> <<>>]
  /\ vouched = [w \in Workers |-> {}]
-----------------------------------------------------------------------------
\* --- transactions ---------------------------------------------------------

\* begin_transaction: an open one is forgotten.  (Mutant: it is gone on with.)
KeepTransaction(w) == trans' = [trans EXCEPT ![w] = IF @ = "none" THEN "own" ELSE "left_over"]
BeginTransaction(w) == trans' = [trans EXCEPT ![w] = "own"]

\* end_transaction reports the open one, if there is any.
EndTransaction(w, result) ==
  /\ trans' = [trans EXCEPT ![w] = "none"]
  /\ results' = [results EXCEPT ![w] =
       IF trans[w] = "none" THEN @ ELSE Append(@, [of |-> trans[w], result |-> result])]
-----------------------------------------------------------------------------
\* --- ways out of a request ------------------------------------------------

\* The answer is on its way and the worker free for the next request.
Answer(w, code) ==
  /\ pc' = [pc EXCEPT ![w] = "idle"]
  /\ answer' = [answer EXCEPT ![w] = code]
  /\ status' = [status EXCEPT ![w] = NoAnswer]

\* An exception: Rawr makes a response of an HttpError, the server of others.
\* The transaction stays as it is.
RaiseStatus(w, code) == Answer(w, code) /\ UNCHANGED <<trans, results>>

\* The method of a MainController returns: with the transaction ended ...
Return(w, code) ==
  /\ EndTransaction(w, code)
  /\ status' = [status EXCEPT ![w] = code]
  /\ pc' = [pc EXCEPT ![w] = "respond"]
  /\ UNCHANGED answer

\* ... but for the dump of all events.
ReturnOnly(w, code) ==
  /\ status' = [status EXCEPT ![w] = code]
  /\ pc' = [pc EXCEPT ![w] = "respond"]
  /\ UNCHANGED <<answer, trans, results>>
-----------------------------------------------------------------------------
\* --- Rawr -----------------------------------------------------------------

\* RseApplication.__call__ and Rawr.__call__: the first route that matches.
\* MainController.__call__ and HealthController.__call__ begin a transaction.
Receive(w) ==
  /\ ~Busy(w)
  /\ \E q \in RequestTypes :
       /\ req' = [req EXCEPT ![w] = q]
       /\ vouched' = [vouched EXCEPT ![w] = IF q.token = NoToken THEN {} ELSE Cached]
       /\ IF q.path = "/"
          THEN /\ answer' = [answer EXCEPT ![w] = StatusCode.HttpNotFound]
               /\ trans' = [trans EXCEPT ![w] = IF @ = "own" THEN "left_over" ELSE @]
               /\ pc' = [pc EXCEPT ![w] = "idle"]
          ELSE /\ BeginTransaction(w)
               /\ pc' = [pc EXCEPT ![w] = IF q.path = "/health" THEN "handle"
                                                                ELSE "prepare"]
               /\ answer' = [answer EXCEPT ![w] = NoAnswer]
  /\ results' = [results EXCEPT ![w] = <<>>]
  /\ UNCHANGED <<health, test_mode, cache, status>>

\* The end of Controller.__call__.
Respond(w) ==
  /\ pc[w] = "respond"
  /\ Answer(w, status[w])
  /\ UNCHANGED <<health, test_mode, cache, vouched, req, trans, results>>
-----------------------------------------------------------------------------
\* --- MainController -------------------------------------------------------

\* How the lookup of the token may end.  (Mutant: a cache that fails is passed
\* over.)
TokenLookup(w) ==
  IF cache[Key(req[w].token)] = NoToken THEN "HttpUnauthorized" ELSE "pass"

LookupsPastFailure(w) ==
  IF req[w].token = NoToken
  THEN {IF test_mode THEN "pass" ELSE "HttpUnauthorized"}
  ELSE {TokenLookup(w), "pass"}

Lookups(w) ==
  IF req[w].token = NoToken
  THEN {IF test_mode THEN "pass" ELSE "HttpUnauthorized"}
  ELSE {TokenLookup(w), "HttpServiceUnavailable"}

\* prepare: the token is looked up in the cache, which may fail.
Prepare(w) ==
  /\ pc[w] = "prepare"
  /\ \E found \in Lookups(w) :
       IF found = "pass"
       THEN /\ pc' = [pc EXCEPT ![w] = "handle"]
            /\ UNCHANGED <<status, answer, trans, results>>
       ELSE RaiseStatus(w, StatusCode[found])
  /\ UNCHANGED <<health, test_mode, cache, vouched, req>>

\* The dump of all events, in test mode only.
IsDump(q) == test_mode /\ q.path = "/all" /\ q.method = "get"

\* The ways get and _post end: a GET with method=POST is a post, a JSON-P post
\* is answered 200, an empty list of events 204; the exceptions of _get_events
\* and _insert_event, a bad callback, a missing user agent, and what is not
\* caught (bytes that are no text, a number that is none, AutoReconnect while
\* the cursor is read).
Returned(method) == CASE method = "get" -> {200, 201, 204}
                      [] method = "post" -> {200, 201}
                      [] OTHER -> {}
Raised(method) ==
  CASE method \in {"get", "post"} ->
         {StatusCode.HttpBadRequest, StatusCode.HttpServiceUnavailable,
          StatusCode.HttpInternalServerError, Uncaught}
    [] method \in {"put", "head"} -> {StatusCode.HttpMethodNotAllowed}
    [] method = "patch" -> {Uncaught}      \* getattr: no such method

Handle(w) ==
  /\ pc[w] = "handle"
  /\ req[w].path # "/health"
  /\ IF IsDump(req[w])
     THEN ReturnOnly(w, 200) \/ RaiseStatus(w, Uncaught)
     ELSE \/ \E code \in Returned(req[w].method) : Return(w, code)
          \/ \E code \in Raised(req[w].method) : RaiseStatus(w, code)
  /\ UNCHANGED <<health, test_mode, cache, vouched, req>>
-----------------------------------------------------------------------------
\* --- HealthController -----------------------------------------------------

\* get and head, up to the first call; the parameter verbose may be unknown to
\* strtobool, and other methods are stubs or missing.
HandleHealth(w) ==
  LET q == req[w]
      reports == CASE q.method = "get" /\ q.verbose = "true" ->
                        {FullReport(q.profile_db, q.validate_db)}
                   [] \/ q.method = "get" /\ q.verbose \in {"absent", "false"}
                      \/ q.method = "head" -> {BasicCheck}
                   [] OTHER -> {}
  IN  /\ pc[w] = "handle"
      /\ q.path = "/health"
      /\ \/ /\ \E calls \in reports : Begin(w, calls)
            /\ pc' = [pc EXCEPT ![w] = "report"]
            /\ UNCHANGED <<status, answer, trans, results>>
         \/ /\ reports = {}
            /\ RaiseStatus(w, IF q.method \in {"post", "put"}
                              THEN StatusCode.HttpMethodNotAllowed ELSE Uncaught)
            /\ UNCHANGED health
  /\ UNCHANGED <<test_mode, cache, vouched, req>>

MakeCall(w) ==
  /\ Call(w) \/ Again(w)
  /\ UNCHANGED <<test_mode, cache, vouched, requests>>

ReportRaises(w) ==
  /\ OutOfAttempts(w) \/ Raise(w)
  /\ RaiseStatus(w, Uncaught)
  /\ UNCHANGED <<test_mode, cache, vouched, req>>

\* The basic check finds the cache down, and HttpError(503) is raised.
CacheDown(w) ==
  /\ todo[w] = <<"cache">>
  /\ UNCHANGED profiling /\ Ends(w)
  /\ RaiseStatus(w, StatusCode.HttpServiceUnavailable)
  /\ UNCHANGED <<test_mode, cache, vouched, req>>

\* The report is complete and answered, and only then is the transaction ended;
\* filter_dataset raises KeyError when health_fields names what is not there.
HealthResponds(w) ==
  /\ pc[w] = "report" /\ todo[w] = <<>>
  /\ UNCHANGED profiling /\ Ends(w)
  /\ \/ /\ pc' = [pc EXCEPT ![w] = "answered"]
        /\ answer' = [answer EXCEPT ![w] = 200]
        /\ UNCHANGED <<status, trans, results>>
     \/ Len(report[w]) > Len(BasicCheck) /\ RaiseStatus(w, Uncaught)
  /\ UNCHANGED <<test_mode, cache, vouched, req>>

HealthEnds(w) ==
  /\ pc[w] = "answered"
  /\ pc' = [pc EXCEPT ![w] = "idle"]
  /\ EndTransaction(w, answer[w])
  /\ UNCHANGED <<health, test_mode, cache, vouched, req, status, answer>>
-----------------------------------------------------------------------------
\* --- the environment ------------------------------------------------------

\* The API puts a token into the cache, under the key that RSE looks for; it may go
\* at any time.
Vouch(token) ==
  /\ cache' = [cache EXCEPT ![Key(token)] = token]
  /\ vouched' = [w \in Workers |-> IF pc[w] = "prepare" /\ req[w].token # NoToken
                                   THEN vouched[w] \cup {token} ELSE vouched[w]]
  /\ UNCHANGED <<health, test_mode, requests>>

Evict(key) ==
  /\ cache[key] # NoToken
  /\ cache' = [cache EXCEPT ![key] = NoToken]
  /\ UNCHANGED <<health, test_mode, requests, vouched>>

\* The process dies and another takes its place.
Crash(w) ==
  /\ Busy(w)
  /\ UNCHANGED profiling \/ (todo[w] # <<>> /\ Applied(w))
  /\ Ends(w)
  /\ pc' = [pc EXCEPT ![w] = "down"]
  /\ status' = [status EXCEPT ![w] = NoAnswer]
  /\ trans' = [trans EXCEPT ![w] = "none"]
  /\ UNCHANGED <<test_mode, cache, vouched, req, answer, results>>

Step(w) ==
  \/ Respond(w) \/ Prepare(w) \/ Handle(w) \/ HandleHealth(w) \/ MakeCall(w)
  \/ ReportRaises(w) \/ CacheDown(w) \/ HealthResponds(w) \/ HealthEnds(w)

Next ==
  \/ \E w \in Workers : Receive(w) \/ Step(w) \/ Crash(w)
  \/ \E token \in Tokens : Vouch(token)
  \/ \E key \in Keys : Evict(key)

Spec == Init /\ [][Next]_vars

\* Calls return or raise, and a worker goes on with its request.
FairSpec == Spec /\ \A w \in Workers : WF_vars(Step(w))
-----------------------------------------------------------------------------
\* --- properties -----------------------------------------------------------

\* What Elastic APM is told of a request is the status its client got, once,
\* under its own name, whatever transactions earlier requests left open; and
\* every success of a controller is told, but for the dump
\* (MainController.__call__, HealthController.__call__, end_transaction).
ResultsMatchAnswers ==
  \A w \in Workers :
    /\ \A i \in DOMAIN results[w] : results[w][i].of = "own"
    /\ pc[w] = "idle" /\ answer[w] # NoAnswer =>
         \/ results[w] = <<[of |-> "own", result |-> answer[w]]>>
         \/ results[w] = <<>> /\ (answer[w] >= 400 \/ IsDump(req[w]))

\* No method of MainController runs unless the cache had, at some time from when the
\* request came until its token was looked up, what the API put there for this token
\* or for another of the same key; nor without a token outside of test mode; whatever
\* the cache does meanwhile (prepare, _format_key).
HandledAreVouched ==
  \A w \in Workers :
    pc[w] \in {"handle", "respond"} /\ req[w].path # "/health" =>
      IF req[w].token = NoToken THEN test_mode
      ELSE \E token \in vouched[w] : Key(token) = Key(req[w].token)

\* Every request is answered, or its process dies: the retries of the reports
\* end.
EveryRequestEnds ==
  \A w \in Workers : Busy(w) ~> ~Busy(w)
=============================================================================
