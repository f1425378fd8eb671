--------------------------- MODULE RequestsProofs ---------------------------
(***************************************************************************)
(* Theorems about Requests and Health, for any number of workers and       *)
(* attempts and whatever is asked for.                                     *)
(***************************************************************************)
EXTENDS Requests, SequenceTheorems, TLAPS

\* --- reports --------------------------------------------------------------

\* A report switches profiling off after it has switched it on.
SwitchesOff(calls) ==
  \A i \in DOMAIN calls :
    calls[i] = "set_all" => \E j \in DOMAIN calls : i < j /\ calls[j] = "set_off"

LEMMA BasicCheckIsReport ==
  BasicCheck \in Seq(Calls) /\ SwitchesOff(BasicCheck)
BY DEF BasicCheck, Calls, SwitchesOff

LEMMA ConcatIsReport ==
  ASSUME NEW s \in Seq(Calls), NEW t \in Seq(Calls), SwitchesOff(s), SwitchesOff(t)
  PROVE  s \o t \in Seq(Calls) /\ SwitchesOff(s \o t)
<1>1. /\ s \o t \in Seq(Calls)
      /\ Len(s \o t) = Len(s) + Len(t)
      /\ \A i \in 1 .. Len(s) + Len(t) :
           (s \o t)[i] = IF i <= Len(s) THEN s[i] ELSE t[i - Len(s)]
  BY ConcatProperties
<1>2. DOMAIN s = 1 .. Len(s) /\ DOMAIN t = 1 .. Len(t)
      /\ DOMAIN (s \o t) = 1 .. Len(s) + Len(t) /\ Len(s) \in Nat /\ Len(t) \in Nat
  BY <1>1, LenProperties
<1>3. ASSUME NEW i \in DOMAIN (s \o t), (s \o t)[i] = "set_all"
      PROVE  \E j \in DOMAIN (s \o t) : i < j /\ (s \o t)[j] = "set_off"
  <2>1. CASE i <= Len(s)
    <3>1. i \in DOMAIN s /\ s[i] = "set_all"
      BY <1>1, <1>2, <1>3, <2>1
    <3>2. PICK j \in DOMAIN s : i < j /\ s[j] = "set_off"
      BY <3>1 DEF SwitchesOff
    <3> QED
      BY <1>1, <1>2, <3>2
  <2>2. CASE i > Len(s)
    <3>1. i - Len(s) \in DOMAIN t /\ t[i - Len(s)] = "set_all"
      BY <1>1, <1>2, <1>3, <2>2
    <3>2. PICK j \in DOMAIN t : i - Len(s) < j /\ t[j] = "set_off"
      BY <3>1 DEF SwitchesOff
    <3>3. j + Len(s) \in DOMAIN (s \o t) /\ i < j + Len(s) /\ (s \o t)[j + Len(s)] = "set_off"
      BY <1>1, <1>2, <3>2
    <3> QED
      BY <3>3
  <2> QED
    BY <1>2, <2>1, <2>2
<1> QED
  BY <1>1, <1>3 DEF SwitchesOff

LEMMA FullReportIsReport ==
  ASSUME NEW p \in Params, NEW v \in Params
  PROVE  FullReport(p, v) \in Seq(Calls) /\ SwitchesOff(FullReport(p, v))
<1> DEFINE first == <<"count", "mongo">>
           profile == IfAsked(p, Profiling)
           validate == IfAsked(v, <<"validate">>)
           speed == <<"count">>
<1>1. first \in Seq(Calls) /\ SwitchesOff(first)
  BY DEF Calls, SwitchesOff
<1>2. <<>> \in Seq(Calls) /\ SwitchesOff(<<>>)
      /\ <<"strtobool">> \in Seq(Calls) /\ SwitchesOff(<<"strtobool">>)
  BY DEF Calls, SwitchesOff
<1>3. ASSUME NEW param \in Params, NEW calls \in Seq(Calls), SwitchesOff(calls)
      PROVE  IfAsked(param, calls) \in Seq(Calls) /\ SwitchesOff(IfAsked(param, calls))
  BY <1>2, <1>3, Zenon DEF IfAsked, Params
<1>4. profile \in Seq(Calls) /\ SwitchesOff(profile)
  <2>1. Profiling \in Seq(Calls) /\ SwitchesOff(Profiling)
    BY DEF Profiling, Calls, SwitchesOff
  <2> QED
    BY <1>3, <2>1
<1>5. validate \in Seq(Calls) /\ SwitchesOff(validate)
  <2>1. <<"validate">> \in Seq(Calls) /\ SwitchesOff(<<"validate">>)
    BY DEF Calls, SwitchesOff
  <2> QED
    BY <1>3, <2>1
<1>6. speed \in Seq(Calls) /\ SwitchesOff(speed)
  BY DEF Calls, SwitchesOff
<1> HIDE DEF first, profile, validate, speed
<1>7. first \o profile \in Seq(Calls) /\ SwitchesOff(first \o profile)
  BY <1>1, <1>4, ConcatIsReport
<1>8. (first \o profile) \o validate \in Seq(Calls)
      /\ SwitchesOff((first \o profile) \o validate)
  BY <1>5, <1>7, ConcatIsReport
<1>9. ((first \o profile) \o validate) \o speed \in Seq(Calls)
      /\ SwitchesOff(((first \o profile) \o validate) \o speed)
  BY <1>6, <1>8, ConcatIsReport
<1> QED
  BY <1>9 DEF FullReport, first, profile, validate, speed

\* What is left of a report after its first call.
LEMMA TailIsReport ==
  ASSUME NEW s \in Seq(Calls), s # <<>>, SwitchesOff(s)
  PROVE  /\ Tail(s) \in Seq(Calls)
         /\ SwitchesOff(Tail(s))
         /\ "set_off" \in ToSet(Tail(s)) => "set_off" \in ToSet(s)
         /\ "set_off" \in ToSet(s) /\ Head(s) # "set_off" => "set_off" \in ToSet(Tail(s))
         /\ Head(s) = "set_all" => "set_off" \in ToSet(Tail(s))
<1>1. /\ Len(s) \in Nat /\ Len(s) > 0 /\ DOMAIN s = 1 .. Len(s) /\ Head(s) = s[1]
      /\ Tail(s) \in Seq(Calls) /\ Len(Tail(s)) = Len(s) - 1
      /\ \A i \in 1 .. Len(s) - 1 : Tail(s)[i] = s[i + 1]
  BY HeadTailProperties, EmptySeq, LenProperties
<1>2. DOMAIN Tail(s) = 1 .. Len(s) - 1
  BY <1>1, LenProperties
<1>3. SwitchesOff(Tail(s))
  <2> SUFFICES ASSUME NEW i \in DOMAIN Tail(s), Tail(s)[i] = "set_all"
               PROVE  \E j \in DOMAIN Tail(s) : i < j /\ Tail(s)[j] = "set_off"
    BY DEF SwitchesOff
  <2>1. i + 1 \in DOMAIN s /\ s[i + 1] = "set_all"
    BY <1>1, <1>2
  <2>2. PICK j \in DOMAIN s : i + 1 < j /\ s[j] = "set_off"
    BY <2>1 DEF SwitchesOff
  <2>3. j - 1 \in DOMAIN Tail(s) /\ i < j - 1 /\ Tail(s)[j - 1] = "set_off"
    BY <1>1, <1>2, <2>2
  <2> QED
    BY <2>3
<1>4. ASSUME NEW j \in DOMAIN s, s[j] = "set_off", j # 1
      PROVE  "set_off" \in ToSet(Tail(s))
  <2>1. j - 1 \in DOMAIN Tail(s) /\ Tail(s)[j - 1] = "set_off"
    BY <1>1, <1>2, <1>4
  <2> QED
    BY <2>1 DEF ToSet
<1>5. "set_off" \in ToSet(Tail(s)) => "set_off" \in ToSet(s)
  <2> SUFFICES ASSUME NEW i \in DOMAIN Tail(s), Tail(s)[i] = "set_off"
               PROVE  "set_off" \in ToSet(s)
    BY DEF ToSet
  <2>1. i + 1 \in DOMAIN s /\ s[i + 1] = "set_off"
    BY <1>1, <1>2
  <2> QED
    BY <2>1 DEF ToSet
<1>6. "set_off" \in ToSet(s) /\ Head(s) # "set_off" => "set_off" \in ToSet(Tail(s))
  BY <1>1, <1>4 DEF ToSet
<1>7. Head(s) = "set_all" => "set_off" \in ToSet(Tail(s))
  BY <1>1, <1>4 DEF SwitchesOff
<1> QED
  BY <1>1, <1>3, <1>5, <1>6, <1>7
-----------------------------------------------------------------------------
\* --- the steps ------------------------------------------------------------

\* Every step is one of these.
LEMMA RequestsCases ==
  ASSUME Next
  PROVE  \/ \E w \in Workers :
              \/ Receive(w) \/ Respond(w) \/ Prepare(w) \/ Handle(w) \/ HandleHealth(w)
              \/ MakeCall(w) \/ ReportRaises(w) \/ CacheDown(w) \/ HealthResponds(w)
              \/ HealthEnds(w) \/ Crash(w)
         \/ \E token \in Tokens : Vouch(token)
         \/ \E key \in Keys : Evict(key)
BY DEF Next, Step

\* What a step does to the reports: one is begun, goes on, is begun again, or
\* ends.
BeginsReport(w) ==
  /\ pc[w] = "handle"
  /\ \E calls \in Seq(Calls) : SwitchesOff(calls) /\ Begin(w, calls)
EndsReport(w) ==
  /\ UNCHANGED profiling \/ (todo[w] # <<>> /\ Applied(w))
  /\ Ends(w)
HealthStep ==
  \/ UNCHANGED health
  \/ \E w \in Workers : BeginsReport(w) \/ Call(w) \/ Again(w) \/ EndsReport(w)

LEMMA StepsOfHealth ==
  ASSUME TypeOK, Next
  PROVE  HealthStep
<1>1. ASSUME NEW w \in Workers, Receive(w) \/ Respond(w) \/ Prepare(w) \/ Handle(w) \/ HealthEnds(w)
      PROVE  UNCHANGED health
  BY <1>1 DEF Receive, Respond, Prepare, Handle, HealthEnds
<1>2. ASSUME NEW w \in Workers, HandleHealth(w)
      PROVE  HealthStep
  <2>1. req[w] \in RequestTypes
    BY DEF TypeOK
  <2>2. req[w].profile_db \in Params /\ req[w].validate_db \in Params
    BY <2>1, RequestsAssumption
  <2>3. FullReport(req[w].profile_db, req[w].validate_db) \in Seq(Calls)
        /\ SwitchesOff(FullReport(req[w].profile_db, req[w].validate_db))
    BY <2>2, FullReportIsReport
  <2>4. UNCHANGED health \/ BeginsReport(w)
    BY <1>2, <2>3, BasicCheckIsReport, Zenon DEF HandleHealth, BeginsReport
  <2> QED
    BY <2>4 DEF HealthStep
<1>3. ASSUME NEW w \in Workers, MakeCall(w)
      PROVE  Call(w) \/ Again(w)
  BY <1>3 DEF MakeCall
<1>4. ASSUME NEW w \in Workers, ReportRaises(w) \/ CacheDown(w) \/ HealthResponds(w) \/ Crash(w)
      PROVE  EndsReport(w)
  BY <1>4 DEF ReportRaises, OutOfAttempts, Reconnects, Raise, CacheDown, HealthResponds,
              Crash, EndsReport
<1>5. ASSUME NEW token, Vouch(token)
      PROVE  UNCHANGED health
  BY <1>5 DEF Vouch
<1>6. ASSUME NEW key, Evict(key)
      PROVE  UNCHANGED health
  BY <1>6 DEF Evict
<1> QED
  BY <1>1, <1>2, <1>3, <1>4, <1>5, <1>6, RequestsCases DEF HealthStep
-----------------------------------------------------------------------------
\* --- profiling ------------------------------------------------------------

\* What is left of a report, and the report, switch profiling off after they
\* have switched it on, and what is left has no more to do than the report.
Orderly ==
  \A w \in Workers :
    /\ SwitchesOff(todo[w]) /\ SwitchesOff(report[w])
    /\ WillSwitchOff(w) => "set_off" \in ToSet(report[w])

\* A worker that is not on a report has no calls to make.
AtRest == \A w \in Workers : pc[w] # "report" => todo[w] = <<>>

LEMMA AppliedType ==
  ASSUME HealthTypeOK, NEW w \in Workers, Applied(w) \/ UNCHANGED profiling
  PROVE  profiling' \in {"off", "all"}
BY Zenon DEF HealthTypeOK, Applied

LEMMA HealthTypeStep ==
  ASSUME HealthTypeOK, HealthStep
  PROVE  HealthTypeOK'
<1>1. CASE UNCHANGED health
  BY <1>1 DEF HealthTypeOK, health
<1>2. ASSUME NEW w \in Workers, BeginsReport(w)
      PROVE  HealthTypeOK'
  BY <1>2, HealthAssumption DEF HealthTypeOK, BeginsReport, Begin
<1>3. ASSUME NEW w \in Workers, Call(w)
      PROVE  HealthTypeOK'
  <2>1. profiling' \in {"off", "all"}
    BY <1>3, AppliedType DEF Call
  <2>2. todo[w] \in Seq(Calls) /\ todo[w] # <<>>
    BY <1>3 DEF Call, HealthTypeOK
  <2>3. Tail(todo[w]) \in Seq(Calls)
    BY <2>2
  <2> QED
    BY <1>3, <2>1, <2>3 DEF HealthTypeOK, Call
<1>4. ASSUME NEW w \in Workers, Again(w)
      PROVE  HealthTypeOK'
  <2>1. profiling' \in {"off", "all"}
    BY <1>4, AppliedType DEF Again, Reconnects
  <2>2. attempt[w] + 1 \in 0 .. Attempts
    BY <1>4, HealthAssumption DEF Again, HealthTypeOK
  <2> QED
    BY <1>4, <2>1, <2>2 DEF HealthTypeOK, Again
<1>5. ASSUME NEW w \in Workers, EndsReport(w)
      PROVE  HealthTypeOK'
  <2>1. profiling' \in {"off", "all"}
    BY <1>5, AppliedType DEF EndsReport
  <2>2. <<>> \in Seq(Calls) /\ 0 \in 0 .. Attempts
    BY HealthAssumption
  <2> QED
    BY <1>5, <2>1, <2>2 DEF HealthTypeOK, EndsReport, Ends
<1> QED
  BY <1>1, <1>2, <1>3, <1>4, <1>5 DEF HealthStep

LEMMA NothingToDo ==
  SwitchesOff(<<>>) /\ "set_off" \notin ToSet(<<>>)
<1>1. SwitchesOff(<<>>)
  BY DEF SwitchesOff
<1>2. DOMAIN <<>> = {}
  OBVIOUS
<1> QED
  BY <1>1, <1>2 DEF ToSet

LEMMA OrderlyStep ==
  ASSUME HealthTypeOK, Orderly, HealthStep
  PROVE  Orderly'
<1> USE DEF Orderly, WillSwitchOff
<1>1. CASE UNCHANGED health
  BY <1>1 DEF health
<1>2. ASSUME NEW w \in Workers, BeginsReport(w)
      PROVE  Orderly'
  BY <1>2 DEF HealthTypeOK, BeginsReport, Begin
<1>3. ASSUME NEW w \in Workers, Call(w)
      PROVE  Orderly'
  <2>1. todo[w] \in Seq(Calls) /\ todo[w] # <<>>
    BY <1>3 DEF Call, HealthTypeOK
  <2>2. /\ SwitchesOff(Tail(todo[w]))
        /\ "set_off" \in ToSet(Tail(todo[w])) => "set_off" \in ToSet(todo[w])
    BY <2>1, TailIsReport
  <2> QED
    BY <1>3, <2>2 DEF HealthTypeOK, Call
<1>4. ASSUME NEW w \in Workers, Again(w)
      PROVE  Orderly'
  BY <1>4 DEF HealthTypeOK, Again
<1>5. ASSUME NEW w \in Workers, EndsReport(w)
      PROVE  Orderly'
  BY <1>5, NothingToDo DEF HealthTypeOK, EndsReport, Ends
<1> QED
  BY <1>1, <1>2, <1>3, <1>4, <1>5 DEF HealthStep

\* If the level is on after a call, it was on before, or the call was the one
\* that switches it on; it was not the one that switches it off.
LEMMA SwitchedOn ==
  ASSUME NEW w \in Workers, Applied(w) \/ UNCHANGED profiling, profiling' = "all"
  PROVE  \/ Applied(w) /\ Head(todo[w]) = "set_all"
         \/ profiling = "all" /\ (Applied(w) => Head(todo[w]) # "set_off")
BY Zenon DEF Applied

LEMMA TemporaryStep ==
  ASSUME TypeOK, Orderly, AtRest, ProfilingIsTemporary, HealthStep
  PROVE  ProfilingIsTemporary'
<1> USE DEF TypeOK, HealthTypeOK
<1>1. CASE UNCHANGED health
  BY <1>1 DEF health, ProfilingIsTemporary, WillSwitchOff
<1>2. ASSUME NEW w \in Workers, BeginsReport(w), profiling' = "all"
      PROVE  left' \/ \E v \in Workers : WillSwitchOff(v)'
  <2>1. profiling = "all" /\ left' = left /\ todo[w] = <<>>
    BY <1>2 DEF BeginsReport, Begin, AtRest
  <2>2. ASSUME NEW v \in Workers, WillSwitchOff(v)
        PROVE  WillSwitchOff(v)'
    BY <1>2, <2>1, <2>2, NothingToDo DEF WillSwitchOff, BeginsReport, Begin
  <2> QED
    BY <2>1, <2>2 DEF ProfilingIsTemporary
<1>3. ASSUME NEW w \in Workers, Call(w), profiling' = "all"
      PROVE  left' \/ \E v \in Workers : WillSwitchOff(v)'
  <2>1. /\ todo[w] \in Seq(Calls) /\ todo[w] # <<>> /\ SwitchesOff(todo[w])
        /\ Applied(w) /\ todo'[w] = Tail(todo[w]) /\ left' = left
        /\ \A v \in Workers \ {w} : todo'[v] = todo[v]
    BY <1>3 DEF Call, Orderly
  <2>2. CASE Head(todo[w]) = "set_all"
    BY <2>1, <2>2, TailIsReport DEF WillSwitchOff
  <2>3. CASE profiling = "all" /\ Head(todo[w]) # "set_off"
    <3>1. ASSUME NEW v \in Workers, WillSwitchOff(v)
          PROVE  WillSwitchOff(v)'
      BY <2>1, <2>3, <3>1, TailIsReport DEF WillSwitchOff
    <3> QED
      BY <2>1, <2>3, <3>1 DEF ProfilingIsTemporary
  <2> QED
    BY <1>3, <2>1, <2>2, <2>3, SwitchedOn
<1>4. ASSUME NEW w \in Workers, Again(w), profiling' = "all"
      PROVE  left' \/ \E v \in Workers : WillSwitchOff(v)'
  <2>1. /\ todo[w] \in Seq(Calls) /\ todo[w] # <<>> /\ SwitchesOff(todo[w])
        /\ WillSwitchOff(w) => "set_off" \in ToSet(report[w])
        /\ todo'[w] = report[w] /\ left' = left
        /\ \A v \in Workers \ {w} : todo'[v] = todo[v]
        /\ Applied(w) \/ UNCHANGED profiling
    BY <1>4 DEF Again, Reconnects, Orderly
  <2>2. CASE Head(todo[w]) = "set_all"
    BY <2>1, <2>2, TailIsReport DEF WillSwitchOff
  <2>3. CASE profiling = "all"
    <3>1. ASSUME NEW v \in Workers, WillSwitchOff(v)
          PROVE  WillSwitchOff(v)'
      BY <2>1, <3>1 DEF WillSwitchOff
    <3> QED
      BY <2>1, <2>3, <3>1 DEF ProfilingIsTemporary
  <2> QED
    BY <1>4, <2>1, <2>2, <2>3, SwitchedOn
<1>5. ASSUME NEW w \in Workers, EndsReport(w), profiling' = "all"
      PROVE  left' \/ \E v \in Workers : WillSwitchOff(v)'
  <2>1. /\ left' = (left \/ WillSwitchOff(w))
        /\ \A v \in Workers \ {w} : todo'[v] = todo[v]
    BY <1>5 DEF EndsReport, Ends
  <2>2. CASE todo[w] # <<>> /\ Head(todo[w]) = "set_all"
    <3>1. todo[w] \in Seq(Calls) /\ SwitchesOff(todo[w])
      BY DEF Orderly
    <3>2. WillSwitchOff(w)
      BY <2>2, <3>1, TailIsReport DEF WillSwitchOff
    <3> QED
      BY <2>1, <3>2
  <2>3. CASE profiling = "all"
    <3>1. ASSUME NEW v \in Workers, WillSwitchOff(v)
          PROVE  left' \/ WillSwitchOff(v)'
      BY <2>1, <3>1 DEF WillSwitchOff
    <3> QED
      BY <2>1, <2>3, <3>1 DEF ProfilingIsTemporary
  <2> QED
    BY <1>5, <2>2, <2>3, SwitchedOn DEF EndsReport
<1> QED
  BY <1>1, <1>2, <1>3, <1>4, <1>5 DEF HealthStep, ProfilingIsTemporary
-----------------------------------------------------------------------------
\* --- types ----------------------------------------------------------------

\* The codes that requests are answered with.
LEMMA Codes ==
  /\ StatusCode["HttpNotFound"] = 404 /\ StatusCode["HttpMethodNotAllowed"] = 405
  /\ StatusCode["HttpUnauthorized"] = 401 /\ StatusCode["HttpServiceUnavailable"] = 503
  /\ StatusCode["HttpBadRequest"] = 400 /\ StatusCode["HttpInternalServerError"] = 500
  /\ {0, 200, 201, 204, 400, 401, 404, 405, 500, 503} \subseteq Statuses
<1>1. /\ StatusCode["HttpNotFound"] = 404 /\ StatusCode["HttpMethodNotAllowed"] = 405
      /\ StatusCode["HttpUnauthorized"] = 401 /\ StatusCode["HttpServiceUnavailable"] = 503
      /\ StatusCode["HttpBadRequest"] = 400 /\ StatusCode["HttpInternalServerError"] = 500
      /\ StatusCode["HttpNoContent"] = 204 /\ StatusCode["HttpCreated"] = 201
  BY DEF StatusCode
<1>2. {"HttpNotFound", "HttpMethodNotAllowed", "HttpUnauthorized", "HttpServiceUnavailable",
       "HttpBadRequest", "HttpInternalServerError", "HttpNoContent", "HttpCreated"}
        \subseteq DOMAIN StatusCode
  BY DEF StatusCode
<1>3. \A e \in DOMAIN StatusCode : StatusCode[e] \in Statuses
  BY DEF Statuses
<1>4. {0, 200, 500} \subseteq Statuses
  BY DEF Statuses, Uncaught, NoAnswer
<1> QED
  BY <1>1, <1>2, <1>3, <1>4

\* What the methods return and raise.
LEMMA Endings ==
  ASSUME NEW method \in {"get", "head", "post", "put", "patch"}
  PROVE  /\ Returned(method) \subseteq {200, 201, 204}
         /\ Raised(method) \subseteq {400, 405, 500, 503}
<1>1. Returned(method) \in {{200, 201, 204}, {200, 201}, {}}
  BY Zenon DEF Returned
<1>2. Raised(method) \in
        {{StatusCode.HttpBadRequest, StatusCode.HttpServiceUnavailable,
          StatusCode.HttpInternalServerError, Uncaught},
         {StatusCode.HttpMethodNotAllowed}, {Uncaught}}
  BY Zenon DEF Raised
<1> QED
  BY <1>1, <1>2, Codes DEF Uncaught

\* The types of what Requests adds to Health.
LifeTypeOK ==
  /\ test_mode \in BOOLEAN
  /\ cache \in [Keys -> Tokens \cup {NoToken}]
  /\ pc \in [Workers -> {"idle", "prepare", "handle", "report", "respond",
                         "answered", "down"}]
  /\ req \in [Workers -> RequestTypes]
  /\ status \in [Workers -> Statuses]
  /\ answer \in [Workers -> Statuses]
  /\ trans \in [Workers -> {"none", "own", "left_over"}]
  /\ results \in [Workers -> Seq([of : {"own", "left_over"}, result : Statuses])]
  /\ vouched \in [Workers -> SUBSET Tokens]

LEMMA EndTransactionType ==
  ASSUME LifeTypeOK, NEW w \in Workers, NEW code \in Statuses, EndTransaction(w, code)
  PROVE  /\ trans' \in [Workers -> {"none", "own", "left_over"}]
         /\ results' \in [Workers -> Seq([of : {"own", "left_over"}, result : Statuses])]
<1> DEFINE Entry == [of : {"own", "left_over"}, result : Statuses]
           entry == [of |-> trans[w], result |-> code]
<1>1. trans' \in [Workers -> {"none", "own", "left_over"}]
  BY DEF LifeTypeOK, EndTransaction
<1>2. results[w] \in Seq(Entry) /\ results \in [Workers -> Seq(Entry)]
  BY DEF LifeTypeOK
<1>3. trans[w] # "none" => entry \in Entry
  BY DEF LifeTypeOK
<1> HIDE DEF Entry, entry
<1>4. trans[w] # "none" => Append(results[w], entry) \in Seq(Entry)
  BY <1>2, <1>3
<1>5. results' = [results EXCEPT ![w] = IF trans[w] = "none" THEN results[w]
                                       ELSE Append(results[w], entry)]
  BY DEF EndTransaction, entry
<1>6. results' \in [Workers -> Seq(Entry)]
  BY <1>2, <1>4, <1>5
<1> QED
  BY <1>1, <1>6 DEF Entry

AnswerTypeOK ==
  /\ pc \in [Workers -> {"idle", "prepare", "handle", "report", "respond",
                         "answered", "down"}]
  /\ status \in [Workers -> Statuses]
  /\ answer \in [Workers -> Statuses]

LEMMA AnswerType ==
  ASSUME LifeTypeOK, NEW w \in Workers, NEW code \in Statuses, Answer(w, code)
  PROVE  AnswerTypeOK'
<1>1. NoAnswer \in Statuses
  BY Codes DEF NoAnswer
<1>2. AnswerTypeOK
  BY DEF LifeTypeOK, AnswerTypeOK
<1> QED
  BY <1>1, <1>2 DEF AnswerTypeOK, Answer

LEMMA RaiseType ==
  ASSUME LifeTypeOK, NEW w \in Workers, NEW code \in Statuses, RaiseStatus(w, code),
         UNCHANGED <<test_mode, cache, vouched, req>>
  PROVE  LifeTypeOK'
<1>1. NoAnswer \in Statuses
  BY Codes DEF NoAnswer
<1>2. Answer(w, code) /\ UNCHANGED <<trans, results>>
  BY DEF RaiseStatus
<1>3. Answer(w, code) => AnswerTypeOK'
  BY AnswerType
<1> QED
  BY <1>2, <1>3 DEF LifeTypeOK, AnswerTypeOK

LEMMA LifeTypeStep ==
  ASSUME LifeTypeOK, Next
  PROVE  LifeTypeOK'
<1> DEFINE UnchangedHere == UNCHANGED <<test_mode, cache, vouched, req>>
<1>1. ASSUME NEW w \in Workers, Receive(w)
      PROVE  LifeTypeOK'
  <2>1. <<>> \in Seq([of : {"own", "left_over"}, result : Statuses])
    OBVIOUS
  <2>2. NoAnswer \in Statuses /\ StatusCode.HttpNotFound \in Statuses
    BY Codes DEF NoAnswer
  <2>3. PICK q \in RequestTypes :
          /\ req' = [req EXCEPT ![w] = q]
          /\ vouched' = [vouched EXCEPT ![w] = IF q.token = NoToken THEN {} ELSE Cached]
          /\ \/ /\ answer' = [answer EXCEPT ![w] = StatusCode.HttpNotFound]
                /\ trans' = [trans EXCEPT ![w] = IF @ = "own" THEN "left_over" ELSE @]
                /\ pc' = [pc EXCEPT ![w] = "idle"]
             \/ /\ trans' = [trans EXCEPT ![w] = "own"]
                /\ pc' = [pc EXCEPT ![w] = IF q.path = "/health" THEN "handle" ELSE "prepare"]
                /\ answer' = [answer EXCEPT ![w] = NoAnswer]
    BY <1>1 DEF Receive, BeginTransaction
  <2>4. AnswerTypeOK /\ status' = status
    BY <1>1 DEF LifeTypeOK, AnswerTypeOK, Receive
  <2>5. AnswerTypeOK'
    BY <2>2, <2>3, <2>4 DEF AnswerTypeOK
  <2>6. req' \in [Workers -> RequestTypes] /\ vouched' \in [Workers -> SUBSET Tokens]
    <3>1. Cached \subseteq Tokens
      BY DEF LifeTypeOK, Cached
    <3> QED
      BY <2>3, <3>1 DEF LifeTypeOK
  <2>7. trans' \in [Workers -> {"none", "own", "left_over"}]
    BY <2>3 DEF LifeTypeOK
  <2>8. results' \in [Workers -> Seq([of : {"own", "left_over"}, result : Statuses])]
    BY <1>1, <2>1 DEF Receive, LifeTypeOK
  <2>9. test_mode' \in BOOLEAN /\ cache' = cache
    BY <1>1 DEF Receive, LifeTypeOK
  <2> QED
    BY <2>5, <2>6, <2>7, <2>8, <2>9 DEF LifeTypeOK, AnswerTypeOK
<1>2. ASSUME NEW w \in Workers, Respond(w)
      PROVE  LifeTypeOK'
  <2>1. status[w] \in Statuses
    BY DEF LifeTypeOK
  <2>2. AnswerTypeOK'
    BY <1>2, <2>1, AnswerType DEF Respond
  <2> QED
    BY <1>2, <2>2 DEF Respond, LifeTypeOK, AnswerTypeOK
<1>3. ASSUME NEW w \in Workers, Prepare(w)
      PROVE  LifeTypeOK'
  <2>1. PICK found \in {"pass", "HttpUnauthorized", "HttpServiceUnavailable"} :
          IF found = "pass"
          THEN pc' = [pc EXCEPT ![w] = "handle"] /\ UNCHANGED <<status, answer, trans, results>>
          ELSE RaiseStatus(w, StatusCode[found])
    BY <1>3 DEF Prepare, Lookups, TokenLookup
  <2>2. UnchangedHere
    BY <1>3 DEF Prepare
  <2>3. CASE found = "pass"
    BY <2>1, <2>2, <2>3 DEF LifeTypeOK
  <2>4. CASE found # "pass"
    <3>1. StatusCode[found] \in Statuses
      BY <2>4, Codes
    <3> QED
      BY <2>1, <2>2, <2>4, <3>1, RaiseType
  <2> QED
    BY <2>3, <2>4
<1>4. ASSUME NEW w \in Workers, Handle(w)
      PROVE  LifeTypeOK'
  <2>1. req[w] \in RequestTypes /\ req[w].method \in {"get", "head", "post", "put", "patch"}
    BY RequestsAssumption DEF LifeTypeOK
  <2>2. UnchangedHere
    BY <1>4 DEF Handle
  <2>3. CASE \E code \in Statuses : RaiseStatus(w, code)
    BY <2>2, <2>3, RaiseType
  <2>4. CASE \E code \in Statuses : Return(w, code)
    <3>1. PICK code \in Statuses : Return(w, code)
      BY <2>4
    <3>2. AnswerTypeOK'
      BY <3>1 DEF LifeTypeOK, AnswerTypeOK, Return
    <3>3. EndTransaction(w, code)
      BY <3>1 DEF Return
    <3> QED
      BY <2>2, <3>2, <3>3, EndTransactionType DEF LifeTypeOK, AnswerTypeOK
  <2>5. CASE \E code \in Statuses : ReturnOnly(w, code)
    BY <2>2, <2>5 DEF LifeTypeOK, ReturnOnly
  <2> QED
    BY <1>4, <2>1, <2>3, <2>4, <2>5, Codes, Endings DEF Handle, Uncaught
<1>5. ASSUME NEW w \in Workers, HandleHealth(w)
      PROVE  LifeTypeOK'
  <2>1. \/ pc' = [pc EXCEPT ![w] = "report"] /\ UNCHANGED <<status, answer, trans, results>>
        \/ \E code \in {405, 500} : RaiseStatus(w, code)
    BY <1>5, Codes DEF HandleHealth, Uncaught
  <2>2. UnchangedHere
    BY <1>5 DEF HandleHealth
  <2> QED
    <3>1. CASE pc' = [pc EXCEPT ![w] = "report"] /\ UNCHANGED <<status, answer, trans, results>>
      BY <2>2, <3>1 DEF LifeTypeOK
    <3>2. CASE \E code \in {405, 500} : RaiseStatus(w, code)
      BY <2>2, <3>2, RaiseType, Codes
    <3> QED
      BY <2>1, <3>1, <3>2
<1>6. ASSUME NEW w \in Workers, MakeCall(w)
      PROVE  LifeTypeOK'
  BY <1>6 DEF MakeCall, requests, LifeTypeOK
<1>7. ASSUME NEW w \in Workers, ReportRaises(w) \/ CacheDown(w)
      PROVE  LifeTypeOK'
  BY <1>7, RaiseType, Codes DEF ReportRaises, CacheDown, Uncaught
<1>8. ASSUME NEW w \in Workers, HealthResponds(w)
      PROVE  LifeTypeOK'
  <2>1. CASE RaiseStatus(w, Uncaught)
    BY <1>8, <2>1, RaiseType, Codes DEF HealthResponds, Uncaught
  <2>2. CASE pc' = [pc EXCEPT ![w] = "answered"] /\ answer' = [answer EXCEPT ![w] = 200]
             /\ UNCHANGED <<status, trans, results>>
    BY <1>8, <2>2, Codes DEF HealthResponds, LifeTypeOK
  <2> QED
    BY <1>8, <2>1, <2>2 DEF HealthResponds
<1>9. ASSUME NEW w \in Workers, HealthEnds(w)
      PROVE  LifeTypeOK'
  <2>1. answer[w] \in Statuses
    BY DEF LifeTypeOK
  <2> QED
    BY <1>9, <2>1, EndTransactionType DEF HealthEnds, LifeTypeOK
<1>10. ASSUME NEW w \in Workers, Crash(w)
      PROVE  LifeTypeOK'
  <2>1. NoAnswer \in Statuses
    BY Codes DEF NoAnswer
  <2>2. AnswerTypeOK'
    BY <1>10, <2>1 DEF Crash, LifeTypeOK, AnswerTypeOK
  <2>3. trans' \in [Workers -> {"none", "own", "left_over"}]
    BY <1>10 DEF Crash, LifeTypeOK
  <2> QED
    BY <1>10, <2>2, <2>3 DEF Crash, LifeTypeOK, AnswerTypeOK
<1>11. ASSUME NEW token \in Tokens, Vouch(token)
       PROVE  LifeTypeOK'
  <2>1. cache' \in [Keys -> Tokens \cup {NoToken}]
    BY <1>11 DEF Vouch, LifeTypeOK
  <2>2. vouched' \in [Workers -> SUBSET Tokens]
    BY <1>11 DEF Vouch, LifeTypeOK
  <2> QED
    BY <1>11, <2>1, <2>2 DEF Vouch, LifeTypeOK, requests
<1>12. ASSUME NEW key, Evict(key)
       PROVE  LifeTypeOK'
  BY <1>12 DEF Evict, LifeTypeOK, requests
<1> QED
  BY <1>1, <1>2, <1>3, <1>4, <1>5, <1>6, <1>7, <1>8, <1>9, <1>10, <1>11, <1>12,
     RequestsCases

LEMMA TypeParts == TypeOK <=> HealthTypeOK /\ LifeTypeOK
BY DEF TypeOK, LifeTypeOK

LEMMA TypeStep ==
  ASSUME TypeOK, Next
  PROVE  TypeOK'
<1>1. HealthTypeOK'
  BY TypeParts, StepsOfHealth, HealthTypeStep
<1>2. LifeTypeOK'
  BY TypeParts, LifeTypeStep
<1> QED
  BY <1>1, <1>2 DEF TypeOK, LifeTypeOK
-----------------------------------------------------------------------------
\* --- tokens ---------------------------------------------------------------

LEMMA AtRestStep ==
  ASSUME TypeOK, AtRest, Next
  PROVE  AtRest'
<1> USE DEF AtRest, TypeOK, HealthTypeOK
<1>1. ASSUME NEW w \in Workers,
             Receive(w) \/ Respond(w) \/ Prepare(w) \/ Handle(w) \/ HealthEnds(w)
      PROVE  AtRest'
  <2>1. todo' = todo /\ pc[w] # "report" /\ \A v \in Workers \ {w} : pc'[v] = pc[v]
    BY <1>1 DEF Receive, Busy, Respond, Prepare, Handle, HealthEnds, health, RaiseStatus,
                Answer, Return, ReturnOnly
  <2> QED
    BY <2>1
<1>2. ASSUME NEW w \in Workers, HandleHealth(w)
      PROVE  AtRest'
  <2>1. \/ todo' = todo /\ pc[w] = "handle"
        \/ pc'[w] = "report" /\ \A v \in Workers \ {w} : todo'[v] = todo[v]
    BY <1>2 DEF HandleHealth, Begin, health
  <2>2. \A v \in Workers \ {w} : pc'[v] = pc[v]
    BY <1>2 DEF HandleHealth, RaiseStatus, Answer
  <2> QED
    BY <2>1, <2>2
<1>3. ASSUME NEW w \in Workers, MakeCall(w)
      PROVE  AtRest'
  <2>1. todo[w] # <<>> /\ pc' = pc /\ \A v \in Workers \ {w} : todo'[v] = todo[v]
    BY <1>3 DEF MakeCall, Call, Again, Reconnects, requests
  <2> QED
    BY <2>1
<1>4. ASSUME NEW w \in Workers,
             ReportRaises(w) \/ CacheDown(w) \/ HealthResponds(w) \/ Crash(w)
      PROVE  AtRest'
  <2>1. Ends(w) /\ \A v \in Workers \ {w} : pc'[v] = pc[v]
    BY <1>4 DEF ReportRaises, OutOfAttempts, Raise, CacheDown, HealthResponds, Crash,
                RaiseStatus, Answer
  <2> QED
    BY <2>1 DEF Ends
<1>5. ASSUME NEW token, Vouch(token)
      PROVE  AtRest'
  BY <1>5 DEF Vouch, health, requests
<1>6. ASSUME NEW key, Evict(key)
      PROVE  AtRest'
  BY <1>6 DEF Evict, health, requests
<1> QED
  BY <1>1, <1>2, <1>3, <1>4, <1>5, <1>6, RequestsCases

\* What the cache has under a key was put there under that key.
Keyed == \A key \in Keys : cache[key] # NoToken => Key(cache[key]) = key

LEMMA KeyedStep ==
  ASSUME TypeOK, Keyed, Next
  PROVE  Keyed'
<1>1. ASSUME NEW token \in Tokens, Vouch(token)
      PROVE  Keyed'
  <2>1. cache' = [cache EXCEPT ![Key(token)] = token] /\ cache \in [Keys -> Tokens \cup {NoToken}]
    BY <1>1 DEF Vouch, TypeOK
  <2>2. \A key \in Keys : cache'[key] = IF key = Key(token) THEN token ELSE cache[key]
    BY <2>1
  <2> QED
    BY <2>2 DEF Keyed
<1>2. ASSUME NEW key, Evict(key)
      PROVE  Keyed'
  BY <1>2 DEF Evict, Keyed, TypeOK
<1>3. CASE UNCHANGED cache
  BY <1>3 DEF Keyed
<1> QED
  BY <1>1, <1>2, <1>3, RequestsCases
     DEF Receive, Respond, Prepare, Handle, HandleHealth, MakeCall, ReportRaises, CacheDown,
         HealthResponds, HealthEnds, Crash

\* What the cache has while a request waits for its lookup has been seen; what
\* HandledAreVouched says of one worker.
Seen(w) == pc[w] = "prepare" /\ req[w].token # NoToken => Cached \subseteq vouched[w]

Handled(w) ==
  pc[w] \in {"handle", "respond"} /\ req[w].path # "/health" =>
    IF req[w].token = NoToken THEN test_mode
    ELSE \E token \in vouched[w] : Key(token) = Key(req[w].token)

\* A worker keeps both as long as its request and the tokens seen stay, the cache
\* gains nothing and the worker does not get beyond its lookup.
LEMMA SeenStays ==
  ASSUME NEW v \in Workers, Seen(v), Handled(v), req'[v] = req[v], vouched'[v] = vouched[v],
         Cached' \subseteq Cached, test_mode' = test_mode,
         pc'[v] = "prepare" => pc[v] = "prepare",
         pc'[v] \in {"handle", "respond"} => pc[v] \in {"handle", "respond"}
  PROVE  Seen(v)' /\ Handled(v)'
BY DEF Seen, Handled

LEMMA SeenStep ==
  ASSUME TypeOK, Keyed, \A w \in Workers : Seen(w) /\ Handled(w), Next
  PROVE  \A v \in Workers : Seen(v)' /\ Handled(v)'
<1> USE DEF TypeOK
<1>1. ASSUME NEW w \in Workers, NEW v \in Workers, Receive(w)
      PROVE  Seen(v)' /\ Handled(v)'
  <2>1. test_mode' = test_mode /\ Cached' = Cached
    BY <1>1 DEF Receive, Cached
  <2>2. CASE v = w
    <3>1. pc'[w] # "respond" /\ (pc'[w] = "handle" => req'[w].path = "/health")
      BY <1>1 DEF Receive
    <3>2. req'[w].token # NoToken => vouched'[w] = Cached
      BY <1>1 DEF Receive
    <3> QED
      BY <2>1, <2>2, <3>1, <3>2 DEF Seen, Handled
  <2>3. CASE v # w
    <3>1. pc'[v] = pc[v] /\ req'[v] = req[v] /\ vouched'[v] = vouched[v]
      BY <1>1, <2>3 DEF Receive
    <3> QED
      BY <2>1, <3>1, SeenStays
  <2> QED
    BY <2>2, <2>3
<1>2. ASSUME NEW w \in Workers, NEW v \in Workers, Prepare(w)
      PROVE  Seen(v)' /\ Handled(v)'
  <2>1. UNCHANGED <<test_mode, vouched, req>> /\ Cached' = Cached /\ pc[w] = "prepare"
    BY <1>2 DEF Prepare, Cached
  <2>2. PICK found \in Lookups(w) :
          IF found = "pass" THEN pc' = [pc EXCEPT ![w] = "handle"]
                            ELSE pc' = [pc EXCEPT ![w] = "idle"]
    BY <1>2 DEF Prepare, RaiseStatus, Answer
  <2>3. CASE v = w /\ found = "pass"
    <3>1. IF req[w].token = NoToken THEN test_mode ELSE cache[Key(req[w].token)] # NoToken
      BY <2>2, <2>3 DEF Lookups, TokenLookup
    <3>2. ASSUME req[w].token # NoToken
          PROVE  \E token \in vouched[w] : Key(token) = Key(req[w].token)
      <4> DEFINE key == Key(req[w].token)
      <4>1. key \in Keys
        BY <3>2 DEF Keys, Tokens
      <4> HIDE DEF key
      <4>2. cache[key] # NoToken
        BY <3>1, <3>2 DEF key
      <4>3. cache[key] \in Cached /\ Key(cache[key]) = key
        BY <4>1, <4>2 DEF Cached, Keyed
      <4>4. Cached \subseteq vouched[w]
        BY <2>1, <3>2 DEF Seen
      <4> QED
        BY <4>3, <4>4 DEF key
    <3>3. pc'[w] = "handle"
      BY <2>2, <2>3
    <3> QED
      BY <2>1, <2>3, <3>1, <3>2, <3>3 DEF Seen, Handled
  <2>4. CASE v # w \/ found # "pass"
    <3>1. pc'[v] = pc[v] \/ pc'[v] = "idle"
      BY <2>2, <2>4
    <3> QED
      BY <2>1, <3>1, SeenStays
  <2> QED
    BY <2>3, <2>4
<1>3. ASSUME NEW w \in Workers, NEW v \in Workers,
             \/ Respond(w) \/ Handle(w) \/ HandleHealth(w) \/ MakeCall(w)
             \/ ReportRaises(w) \/ CacheDown(w) \/ HealthResponds(w) \/ HealthEnds(w)
             \/ Crash(w)
      PROVE  Seen(v)' /\ Handled(v)'
  <2>1. UNCHANGED <<test_mode, vouched, req>> /\ Cached' = Cached
    BY <1>3 DEF Respond, Handle, HandleHealth, MakeCall, requests, ReportRaises, CacheDown,
                HealthResponds, HealthEnds, Crash, Cached
  <2>2. \/ pc'[v] = pc[v] \/ pc'[v] \in {"idle", "report", "answered", "down"}
        \/ pc'[v] = "respond" /\ pc[v] = "handle"
    <3>1. CASE Respond(w) \/ ReportRaises(w) \/ CacheDown(w) \/ HealthEnds(w) \/ Crash(w)
      BY <3>1 DEF Respond, ReportRaises, CacheDown, HealthEnds, Crash, RaiseStatus, Answer
    <3>2. CASE Handle(w)
      BY <3>2 DEF Handle, Return, ReturnOnly, RaiseStatus, Answer
    <3>3. CASE HandleHealth(w)
      BY <3>3 DEF HandleHealth, RaiseStatus, Answer
    <3>4. CASE MakeCall(w)
      BY <3>4 DEF MakeCall, requests
    <3>5. CASE HealthResponds(w)
      BY <3>5 DEF HealthResponds, RaiseStatus, Answer
    <3> QED
      BY <1>3, <3>1, <3>2, <3>3, <3>4, <3>5
  <2> QED
    BY <2>1, <2>2, SeenStays
<1>4. ASSUME NEW token \in Tokens, NEW v \in Workers, Vouch(token)
      PROVE  Seen(v)' /\ Handled(v)'
  <2>1. UNCHANGED <<test_mode, pc, req>>
    BY <1>4 DEF Vouch, requests
  <2>2. Cached' \subseteq Cached \cup {token}
    <3>1. \A key \in Keys : cache'[key] \in {cache[key], token}
      BY <1>4 DEF Vouch
    <3> QED
      BY <3>1 DEF Cached
  <2>3. /\ vouched[v] \subseteq vouched'[v]
        /\ pc[v] = "prepare" /\ req[v].token # NoToken => token \in vouched'[v]
    BY <1>4 DEF Vouch
  <2> QED
    BY <2>1, <2>2, <2>3 DEF Seen, Handled
<1>5. ASSUME NEW key, NEW v \in Workers, Evict(key)
      PROVE  Seen(v)' /\ Handled(v)'
  <2>1. UNCHANGED <<test_mode, pc, req, vouched>>
    BY <1>5 DEF Evict, requests
  <2>2. Cached' \subseteq Cached
    <3>1. \A k \in Keys : cache'[k] \in {cache[k], NoToken}
      BY <1>5 DEF Evict
    <3> QED
      BY <3>1 DEF Cached
  <2> QED
    BY <2>1, <2>2, SeenStays
<1> QED
  BY <1>1, <1>2, <1>3, <1>4, <1>5, RequestsCases
-----------------------------------------------------------------------------
\* --- transactions ---------------------------------------------------------

\* What ResultsMatchAnswers says of one worker.
Told(w) ==
  /\ \A i \in DOMAIN results[w] : results[w][i].of = "own"
  /\ pc[w] = "idle" /\ answer[w] # NoAnswer =>
       \/ results[w] = <<[of |-> "own", result |-> answer[w]]>>
       \/ results[w] = <<>> /\ (answer[w] >= 400 \/ IsDump(req[w]))

\* Until a request is answered its own transaction is open and nothing has been
\* reported; a response on its way has been, unless it is the dump.
Underway(w) ==
  /\ pc[w] \in {"prepare", "handle", "report", "answered"} =>
       trans[w] = "own" /\ results[w] = <<>>
  /\ pc[w] = "answered" => answer[w] = 200
  /\ pc[w] = "respond" =>
       \/ results[w] = <<[of |-> "own", result |-> status[w]]>>
       \/ results[w] = <<>> /\ IsDump(req[w])

LEMMA NothingReported == \A e \in DOMAIN <<>> : FALSE
OBVIOUS

LEMMA OneReported ==
  ASSUME NEW x, x.of = "own"
  PROVE  /\ Append(<<>>, x) = <<x>>
         /\ \A i \in DOMAIN <<x>> : <<x>>[i].of = "own"
OBVIOUS

LEMMA ToldStays ==
  ASSUME NEW v \in Workers, Told(v), Underway(v), pc'[v] = pc[v], req'[v] = req[v],
         status'[v] = status[v], answer'[v] = answer[v], trans'[v] = trans[v],
         results'[v] = results[v], test_mode' = test_mode
  PROVE  Told(v)' /\ Underway(v)'
BY DEF Told, Underway, IsDump

\* An exception leaves the transaction open, and its status is an error.
LEMMA RaiseTells ==
  ASSUME LifeTypeOK, NEW w \in Workers, Underway(w),
         pc[w] \in {"prepare", "handle", "report"},
         NEW code \in {400, 401, 405, 500, 503}, RaiseStatus(w, code)
  PROVE  Told(w)' /\ Underway(w)'
<1>1. pc'[w] = "idle" /\ answer'[w] = code /\ results'[w] = <<>>
  BY DEF LifeTypeOK, RaiseStatus, Answer, Underway
<1> QED
  BY <1>1, NothingReported DEF Told, Underway

\* Ending the transaction of a request reports it.
LEMMA EndTells ==
  ASSUME LifeTypeOK, NEW w \in Workers, NEW code, EndTransaction(w, code),
         trans[w] = "own", results[w] = <<>>
  PROVE  results'[w] = <<[of |-> "own", result |-> code]>>
BY OneReported DEF LifeTypeOK, EndTransaction

\* Nothing but the two says something of another worker.
LEMMA OthersKeep ==
  ASSUME LifeTypeOK, NEW w \in Workers, NEW v \in Workers \ {w},
         Receive(w) \/ Respond(w) \/ Prepare(w) \/ Handle(w) \/ HandleHealth(w) \/ MakeCall(w)
         \/ ReportRaises(w) \/ CacheDown(w) \/ HealthResponds(w) \/ HealthEnds(w) \/ Crash(w)
  PROVE  /\ pc'[v] = pc[v] /\ req'[v] = req[v] /\ status'[v] = status[v]
         /\ answer'[v] = answer[v] /\ trans'[v] = trans[v] /\ results'[v] = results[v]
         /\ test_mode' = test_mode
<1> USE DEF LifeTypeOK
<1>1. CASE Receive(w)
  BY <1>1 DEF Receive, BeginTransaction
<1>2. CASE Respond(w) \/ ReportRaises(w) \/ CacheDown(w)
  BY <1>2 DEF Respond, ReportRaises, CacheDown, RaiseStatus, Answer
<1>3. CASE Prepare(w)
  BY <1>3 DEF Prepare, RaiseStatus, Answer
<1>4. CASE Handle(w)
  BY <1>4 DEF Handle, RaiseStatus, Answer, Return, EndTransaction, ReturnOnly
<1>5. CASE HandleHealth(w)
  BY <1>5 DEF HandleHealth, RaiseStatus, Answer
<1>6. CASE MakeCall(w)
  BY <1>6 DEF MakeCall, requests
<1>7. CASE HealthResponds(w)
  BY <1>7 DEF HealthResponds, RaiseStatus, Answer
<1>8. CASE HealthEnds(w) \/ Crash(w)
  BY <1>8 DEF HealthEnds, EndTransaction, Crash
<1> QED
  BY <1>1, <1>2, <1>3, <1>4, <1>5, <1>6, <1>7, <1>8

LEMMA TellsStep ==
  ASSUME TypeOK, AtRest, \A w \in Workers : Told(w) /\ Underway(w), Next
  PROVE  \A v \in Workers : Told(v)' /\ Underway(v)'
<1>0. LifeTypeOK
  BY TypeParts
<1>1. ASSUME NEW w \in Workers, Receive(w)
      PROVE  Told(w)' /\ Underway(w)'
  <2>1. results'[w] = <<>>
    BY <1>0, <1>1 DEF Receive, LifeTypeOK
  <2>2. \/ pc'[w] = "idle" /\ answer'[w] = 404
        \/ pc'[w] \in {"prepare", "handle"} /\ trans'[w] = "own"
    BY <1>0, <1>1, Codes DEF Receive, BeginTransaction, LifeTypeOK
  <2> QED
    BY <2>1, <2>2, NothingReported DEF Told, Underway
<1>2. ASSUME NEW w \in Workers, Respond(w)
      PROVE  Told(w)' /\ Underway(w)'
  <2>1. /\ pc[w] = "respond" /\ pc'[w] = "idle" /\ answer'[w] = status[w]
        /\ results'[w] = results[w] /\ req' = req /\ test_mode' = test_mode
    BY <1>0, <1>2 DEF Respond, Answer, LifeTypeOK
  <2>2. CASE results[w] = <<[of |-> "own", result |-> status[w]]>>
    <3>1. results'[w] = <<[of |-> "own", result |-> answer'[w]]>>
      BY <2>1, <2>2
    <3> QED
      BY <2>1, <3>1, OneReported DEF Told, Underway
  <2>3. CASE results[w] = <<>> /\ IsDump(req[w])
    <3> QED
      BY <2>1, <2>3, NothingReported DEF Told, Underway, IsDump
  <2> QED
    BY <2>1, <2>2, <2>3 DEF Underway
<1>3. ASSUME NEW w \in Workers, Prepare(w)
      PROVE  Told(w)' /\ Underway(w)'
  <2>1. PICK found \in {"pass", "HttpUnauthorized", "HttpServiceUnavailable"} :
          IF found = "pass"
          THEN pc' = [pc EXCEPT ![w] = "handle"] /\ UNCHANGED <<status, answer, trans, results>>
          ELSE RaiseStatus(w, StatusCode[found])
    BY <1>3 DEF Prepare, Lookups, TokenLookup
  <2>2. pc[w] = "prepare"
    BY <1>3 DEF Prepare
  <2>3. CASE found = "pass"
    BY <1>0, <2>1, <2>2, <2>3 DEF LifeTypeOK, Told, Underway
  <2>4. CASE found # "pass"
    <3>1. StatusCode[found] \in {401, 503}
      BY <2>4, Codes
    <3> QED
      BY <1>0, <2>1, <2>2, <2>4, <3>1, RaiseTells
  <2> QED
    BY <2>3, <2>4
<1>4. ASSUME NEW w \in Workers, Handle(w)
      PROVE  Told(w)' /\ Underway(w)'
  <2>1. pc[w] = "handle" /\ trans[w] = "own" /\ results[w] = <<>>
        /\ req' = req /\ test_mode' = test_mode
    BY <1>4 DEF Handle, Underway
  <2>2. req[w].method \in {"get", "head", "post", "put", "patch"}
    BY <1>0, RequestsAssumption DEF LifeTypeOK
  <2>3. CASE \E code \in {400, 405, 500, 503} : RaiseStatus(w, code)
    BY <1>0, <2>1, <2>3, RaiseTells
  <2>4. CASE \E code \in {200, 201, 204} : Return(w, code)
    <3>1. PICK code \in {200, 201, 204} : Return(w, code)
      BY <2>4
    <3>2. pc'[w] = "respond" /\ status'[w] = code
      BY <1>0, <3>1 DEF Return, LifeTypeOK
    <3>3. results'[w] = <<[of |-> "own", result |-> code]>>
      BY <1>0, <2>1, <3>1, EndTells DEF Return
    <3> QED
      BY <3>2, <3>3, OneReported DEF Told, Underway
  <2>5. CASE IsDump(req[w]) /\ ReturnOnly(w, 200)
    <3>1. pc'[w] = "respond" /\ results'[w] = <<>>
      BY <1>0, <2>1, <2>5 DEF ReturnOnly, LifeTypeOK
    <3> QED
      BY <2>1, <2>5, <3>1, NothingReported DEF Told, Underway, IsDump
  <2> QED
    BY <1>4, <2>2, <2>3, <2>4, <2>5, Endings DEF Handle, Uncaught
<1>5. ASSUME NEW w \in Workers, HandleHealth(w)
      PROVE  Told(w)' /\ Underway(w)'
  <2>1. \/ pc' = [pc EXCEPT ![w] = "report"] /\ UNCHANGED <<status, answer, trans, results>>
        \/ \E code \in {405, 500} : RaiseStatus(w, code)
    BY <1>5, Codes DEF HandleHealth, Uncaught
  <2>2. pc[w] = "handle"
    BY <1>5 DEF HandleHealth
  <2>3. CASE pc' = [pc EXCEPT ![w] = "report"] /\ UNCHANGED <<status, answer, trans, results>>
    BY <1>0, <2>2, <2>3 DEF LifeTypeOK, Told, Underway
  <2> QED
    BY <1>0, <2>1, <2>2, <2>3, RaiseTells
<1>6. ASSUME NEW w \in Workers, MakeCall(w)
      PROVE  Told(w)' /\ Underway(w)'
  BY <1>6, ToldStays DEF MakeCall, requests
<1>7. ASSUME NEW w \in Workers, ReportRaises(w) \/ CacheDown(w)
      PROVE  Told(w)' /\ Underway(w)'
  <2>1. todo[w] # <<>>
    BY <1>7 DEF ReportRaises, OutOfAttempts, Reconnects, Raise, CacheDown
  <2>2. pc[w] = "report"
    BY <2>1 DEF AtRest
  <2>3. RaiseStatus(w, 500) \/ RaiseStatus(w, 503)
    BY <1>7, Codes DEF ReportRaises, CacheDown, Uncaught
  <2> QED
    BY <1>0, <2>2, <2>3, RaiseTells
<1>8. ASSUME NEW w \in Workers, HealthResponds(w)
      PROVE  Told(w)' /\ Underway(w)'
  <2>1. pc[w] = "report"
    BY <1>8 DEF HealthResponds
  <2>2. CASE RaiseStatus(w, Uncaught)
    BY <1>0, <2>1, <2>2, RaiseTells DEF Uncaught
  <2>3. CASE pc' = [pc EXCEPT ![w] = "answered"] /\ answer' = [answer EXCEPT ![w] = 200]
             /\ UNCHANGED <<status, trans, results>>
    BY <1>0, <2>1, <2>3 DEF LifeTypeOK, Told, Underway
  <2> QED
    BY <1>8, <2>2, <2>3 DEF HealthResponds
<1>9. ASSUME NEW w \in Workers, HealthEnds(w)
      PROVE  Told(w)' /\ Underway(w)'
  <2>1. trans[w] = "own" /\ results[w] = <<>> /\ answer' = answer /\ pc'[w] = "idle"
    BY <1>0, <1>9 DEF HealthEnds, Underway, LifeTypeOK
  <2>2. results'[w] = <<[of |-> "own", result |-> answer[w]]>>
    BY <1>0, <1>9, <2>1, EndTells DEF HealthEnds
  <2> QED
    BY <2>1, <2>2, OneReported DEF Told, Underway
<1>10. ASSUME NEW w \in Workers, Crash(w)
       PROVE  Told(w)' /\ Underway(w)'
  <2>1. pc'[w] = "down" /\ results' = results
    BY <1>0, <1>10 DEF Crash, LifeTypeOK
  <2> QED
    BY <2>1 DEF Told, Underway
<1>11. ASSUME NEW v \in Workers, NEW token, Vouch(token)
       PROVE  Told(v)' /\ Underway(v)'
  BY <1>11, ToldStays DEF Vouch, requests
<1>12. ASSUME NEW v \in Workers, NEW key, Evict(key)
       PROVE  Told(v)' /\ Underway(v)'
  BY <1>12, ToldStays DEF Evict, requests
<1>13. ASSUME NEW w \in Workers, NEW v \in Workers \ {w},
              Receive(w) \/ Respond(w) \/ Prepare(w) \/ Handle(w) \/ HandleHealth(w) \/ MakeCall(w)
              \/ ReportRaises(w) \/ CacheDown(w) \/ HealthResponds(w) \/ HealthEnds(w) \/ Crash(w)
       PROVE  Told(v)' /\ Underway(v)'
  BY <1>0, <1>13, OthersKeep, ToldStays
<1> QED
  BY <1>1, <1>2, <1>3, <1>4, <1>5, <1>6, <1>7, <1>8, <1>9, <1>10, <1>11, <1>12, <1>13,
     RequestsCases
-----------------------------------------------------------------------------
\* --- theorems -------------------------------------------------------------

\* The inductive invariant of a request's life.
RInv ==
  /\ TypeOK
  /\ Orderly /\ AtRest /\ ProfilingIsTemporary
  /\ Keyed /\ \A w \in Workers : Seen(w) /\ Handled(w)
  /\ \A w \in Workers : Told(w) /\ Underway(w)

LEMMA RInvInit == Init => RInv
<1> SUFFICES ASSUME Init PROVE RInv
  OBVIOUS
<1> USE DEF Init, HealthInit
<1>1. TypeOK
  <2>1. HealthTypeOK
    <3>1. <<>> \in Seq(Calls) /\ 0 \in 0 .. Attempts
      BY HealthAssumption
    <3> QED
      BY <3>1 DEF HealthTypeOK
  <2>2. NoAnswer \in Statuses
    BY Codes DEF NoAnswer
  <2>3. LifeTypeOK
    BY <2>2 DEF LifeTypeOK
  <2> QED
    BY <2>1, <2>3, TypeParts
<1>2. Orderly /\ AtRest /\ ProfilingIsTemporary
  BY NothingToDo DEF Orderly, WillSwitchOff, AtRest, ProfilingIsTemporary
<1>3. Keyed /\ \A w \in Workers : Seen(w) /\ Handled(w)
  BY DEF Keyed, Seen, Handled
<1>4. \A w \in Workers : Told(w) /\ Underway(w)
  BY NothingReported DEF Told, Underway, NoAnswer
<1> QED
  BY <1>1, <1>2, <1>3, <1>4 DEF RInv

LEMMA RInvStep ==
  ASSUME RInv, [Next]_vars
  PROVE  RInv'
<1>1. CASE Next
  <2>1. TypeOK'
    BY <1>1, TypeStep DEF RInv
  <2>2. HealthStep
    BY <1>1, StepsOfHealth DEF RInv
  <2>3. Orderly' /\ AtRest' /\ ProfilingIsTemporary'
    BY <1>1, <2>2, OrderlyStep, AtRestStep, TemporaryStep, TypeParts DEF RInv
  <2>4. Keyed' /\ \A w \in Workers : Seen(w)' /\ Handled(w)'
    BY <1>1, KeyedStep, SeenStep DEF RInv
  <2>5. \A w \in Workers : Told(w)' /\ Underway(w)'
    BY <1>1, TellsStep DEF RInv
  <2> QED
    BY <2>1, <2>3, <2>4, <2>5 DEF RInv
<1>2. CASE UNCHANGED vars
  <2>1. /\ UNCHANGED health
        /\ UNCHANGED <<test_mode, cache, pc, req, status, answer, trans, results, vouched>>
    BY <1>2 DEF vars, requests
  <2>2. HealthStep
    BY <2>1 DEF HealthStep
  <2>3. HealthTypeOK' /\ Orderly' /\ ProfilingIsTemporary'
    BY <2>2, HealthTypeStep, OrderlyStep, TemporaryStep, TypeParts DEF RInv
  <2>4. AtRest'
    BY <2>1 DEF RInv, AtRest, health
  <2>5. LifeTypeOK'
    BY <2>1, TypeParts DEF RInv, LifeTypeOK
  <2>6. Keyed' /\ \A w \in Workers : Seen(w)' /\ Handled(w)'
    <3>1. Keyed' /\ Cached' = Cached
      BY <2>1 DEF RInv, Keyed, Cached
    <3> QED
      BY <2>1, <3>1, SeenStays DEF RInv
  <2>7. \A w \in Workers : Told(w)' /\ Underway(w)'
    BY <2>1, ToldStays DEF RInv
  <2>8. TypeOK'
    BY <2>3, <2>5 DEF TypeOK, HealthTypeOK, LifeTypeOK
  <2> QED
    BY <2>3, <2>4, <2>6, <2>7, <2>8 DEF RInv
<1> QED
  BY <1>1, <1>2

\* The invariant holds in every reachable state.
THEOREM RequestsInvariant == Spec => []RInv
BY RInvInit, RInvStep, PTL DEF Spec

\* Every variable of a request's life keeps its type.
THEOREM RequestsTypeCorrect == Spec => []TypeOK
<1>1. RInv => TypeOK
  BY DEF RInv
<1> QED
  BY <1>1, RequestsInvariant, PTL

\* Profiling is switched off again by some report that is under way, unless a
\* report has ended halfway, however many overlap and are begun again.
THEOREM ProfilingTemporary == Spec => []ProfilingIsTemporary
<1>1. RInv => ProfilingIsTemporary
  BY DEF RInv
<1> QED
  BY <1>1, RequestsInvariant, PTL

\* No method of the main controller runs unless the cache had a token with the key of
\* the one that was sent, from when the request came until the lookup.
THEOREM OnlyVouchedHandled == Spec => []HandledAreVouched
<1>1. RInv => HandledAreVouched
  BY DEF RInv, HandledAreVouched, Handled
<1> QED
  BY <1>1, RequestsInvariant, PTL

\* That is the token itself, where no token reads, with the prefix before it, like the
\* hash of another; as when the prefix is nothing that a hash begins with.
HashesApart ==
  /\ \A t \in Tokens, u \in Tokens : Prefixed[t] = Prefixed[u] => t = u
  /\ \A k \in DOMAIN Hashed, l \in DOMAIN Hashed : Hashed[k] = Hashed[l] => k = l
  /\ \A t \in Tokens, k \in DOMAIN Hashed : Prefixed[t] # Hashed[k]

HandledAreKnown ==
  \A w \in Workers :
    pc[w] \in {"handle", "respond"} /\ req[w].path # "/health" /\ req[w].token # NoToken =>
      req[w].token \in vouched[w]

\* Then no method of the main controller runs for a token that the cache did not have
\* from when its request came until the lookup.
THEOREM OnlyKnownHandled == ASSUME HashesApart PROVE Spec => []HandledAreKnown
<1>1. RInv => HandledAreKnown
  <2> SUFFICES ASSUME RInv, NEW w \in Workers,
                      pc[w] \in {"handle", "respond"}, req[w].path # "/health",
                      req[w].token # NoToken
               PROVE  req[w].token \in vouched[w]
    BY DEF HandledAreKnown
  <2>1. PICK token \in vouched[w] : Key(token) = Key(req[w].token)
    BY DEF RInv, Handled
  <2>2. token \in Tokens /\ req[w].token \in Tokens
    BY DEF RInv, TypeOK, Tokens
  <2>3. \A t \in Tokens, u \in Tokens : Key(t) = Key(u) => t = u
    BY HashesApart DEF HashesApart, Key
  <2> QED
    BY <2>1, <2>2, <2>3
<1> QED
  BY <1>1, RequestsInvariant, PTL

\* Transactions report what clients got, once and under their own name.
THEOREM ResultsTrue == Spec => []ResultsMatchAnswers
<1>1. RInv => ResultsMatchAnswers
  BY DEF RInv, ResultsMatchAnswers, Told
<1> QED
  BY <1>1, RequestsInvariant, PTL
=============================================================================
