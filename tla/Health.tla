------------------------------- MODULE Health -------------------------------
(***************************************************************************)
(* The reports of HealthController: the calls each makes to the database   *)
(* and to the cache, made by several workers at once.  The database's      *)
(* profiling level is shared: a report with profile_db switches it on,     *)
(* waits, reads the profile and switches it off, and any call between may  *)
(* fail.  AutoReconnect makes tenacity begin the whole report again.       *)
(*                                                                         *)
(* What the calls return is left out; that a report overlapping another    *)
(* may read a profile with the level off already is thus out of sight.     *)
(***************************************************************************)
EXTENDS Naturals, Sequences, SequencesExt

CONSTANTS
  Workers,
  Attempts     \* stop_after_attempt

ASSUME HealthAssumption == Attempts \in Nat \ {0}

VARIABLES
  profiling,   \* the profiling level of the database, "off" or "all"
  report,      \* the calls of the report each worker was asked for
  todo,        \* those this attempt has yet to make
  attempt,     \* how often the report was begun
  left         \* history: some report ended without switching profiling off
               \* again, and no other has done so since

health == <<profiling, report, todo, attempt, left>>

Calls == {"count", "mongo", "set_all", "read_profile", "set_off", "validate",
          "strtobool", "cache"}

HealthInit ==
  /\ profiling = "off"
  /\ report = [w \in Workers |-> <<>>]
  /\ todo = [w \in Workers |-> <<>>]
  /\ attempt = [w \in Workers |-> 0]
  /\ left = FALSE
-----------------------------------------------------------------------------
\* --- the reports ----------------------------------------------------------

BasicCheck == <<"count", "cache">>

\* A parameter as get_bool tells it apart: one that is not there is False, and
\* strtobool raises ValueError at a word it does not know.
Params == {"absent", "false", "true", "unknown"}

IfAsked(param, calls) ==
  CASE param \in {"absent", "false"} -> <<>>
    [] param = "true" -> calls
    [] param = "unknown" -> <<"strtobool">>

\* _subreport_profiling.
Profiling == <<"set_all", "read_profile", "set_off">>

\* The sub-reports in order, then the speed test.
FullReport(profile_db, validate_db) ==
  <<"count", "mongo">> \o IfAsked(profile_db, Profiling)
     \o IfAsked(validate_db, <<"validate">>) \o <<"count">>

\* Profiling will be switched off before the report is done.
WillSwitchOff(w) == "set_off" \in ToSet(todo[w])
-----------------------------------------------------------------------------
\* --- the steps of a report ------------------------------------------------

Begin(w, calls) ==
  /\ report' = [report EXCEPT ![w] = calls]
  /\ todo' = [todo EXCEPT ![w] = calls]
  /\ attempt' = [attempt EXCEPT ![w] = 1]
  /\ UNCHANGED <<profiling, left>>

\* What the next call does to the database.
Applied(w) ==
  profiling' = CASE Head(todo[w]) = "set_all" -> "all"
                 [] Head(todo[w]) = "set_off" -> "off"
                 [] OTHER -> profiling

Call(w) ==
  /\ todo[w] # <<>>
  /\ Head(todo[w]) # "strtobool"
  /\ Applied(w)
  /\ todo' = [todo EXCEPT ![w] = Tail(@)]
  /\ left' = (left /\ profiling' = "all")
  /\ UNCHANGED <<report, attempt>>

\* The report ends with an exception, or with its process.
Ends(w) ==
  /\ report' = [report EXCEPT ![w] = <<>>]
  /\ todo' = [todo EXCEPT ![w] = <<>>]
  /\ attempt' = [attempt EXCEPT ![w] = 0]
  /\ left' = ((left \/ WillSwitchOff(w)) /\ profiling' = "all")

\* AutoReconnect is possible at every database call, which may have been
\* applied or not.
Reconnects(w) ==
  /\ todo[w] # <<>>
  /\ Head(todo[w]) \notin {"cache", "strtobool"}
  /\ Applied(w) \/ UNCHANGED profiling

\* (Mutants: the attempts are not counted; there is one too many; the report
\* goes on with the next call.)
AgainForEver(w) ==
  /\ Reconnects(w)
  /\ todo' = [todo EXCEPT ![w] = report[w]]
  /\ UNCHANGED <<report, attempt, left>>

OneTooMany(w) ==
  /\ attempt[w] <= Attempts
  /\ Reconnects(w)
  /\ attempt' = [attempt EXCEPT ![w] = @ + 1]
  /\ todo' = [todo EXCEPT ![w] = report[w]]
  /\ UNCHANGED <<report, left>>

GoOn(w) ==
  /\ attempt[w] < Attempts
  /\ Reconnects(w)
  /\ attempt' = [attempt EXCEPT ![w] = @ + 1]
  /\ todo' = [todo EXCEPT ![w] = Tail(@)]
  /\ left' = (left /\ profiling' = "all")
  /\ UNCHANGED report

\* The decorator @retry: the report is begun again ...
Again(w) ==
  /\ attempt[w] < Attempts
  /\ Reconnects(w)
  /\ attempt' = [attempt EXCEPT ![w] = @ + 1]
  /\ todo' = [todo EXCEPT ![w] = report[w]]
  /\ left' = (left /\ profiling' = "all")
  /\ UNCHANGED report

\* ... and ends with RetryError when no attempt is left.
OutOfAttempts(w) ==
  /\ attempt[w] = Attempts
  /\ Reconnects(w)
  /\ Ends(w)

\* Other exceptions are not retried: an unknown parameter, a refused command,
\* an empty profile, and stored data that json.loads refuses.
Raise(w) ==
  /\ todo[w] # <<>>
  /\ Head(todo[w]) # "cache"
  /\ UNCHANGED profiling
  /\ Ends(w)
-----------------------------------------------------------------------------
\* --- properties -----------------------------------------------------------

HealthTypeOK ==
  /\ profiling \in {"off", "all"}
  /\ report \in [Workers -> Seq(Calls)]
  /\ todo \in [Workers -> Seq(Calls)]
  /\ attempt \in [Workers -> 0 .. Attempts]
  /\ left \in BOOLEAN

\* While the database is profiling, some worker is on a report that will switch
\* it off, unless one has failed or died halfway and nobody has switched it off
\* since: neither overlapping reports nor a report begun again by tenacity
\* leaves it on (lines 105 to 111, 120, 133).
ProfilingIsTemporary ==
  profiling = "all" => left \/ \E w \in Workers : WillSwitchOff(w)
=============================================================================
