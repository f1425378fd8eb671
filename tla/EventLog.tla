------------------------------ MODULE EventLog ------------------------------
(***************************************************************************)
(* What the event store promises to the clients that poll it, with the     *)
(* machinery hidden.  Events carry consecutive ids, an id is never given   *)
(* out twice, and the store forgets events from the oldest id upwards.     *)
(* A client that remembers only the last id it received therefore neither  *)
(* misses an event nor meets one twice.                                    *)
(*                                                                         *)
(* PostEvent implements this module; GetEvents is built on top of it.      *)
(***************************************************************************)
EXTENDS Integers

CONSTANTS
  Payloads,    \* what an event carries besides its id
  FirstEvent   \* the configured first_event: ids start above it

ASSUME FirstEventAssumption == FirstEvent \in Nat

VARIABLES
  events,      \* the events stored now, a set of [id, payload] records
  top          \* the highest id ever given out

logVars == <<events, top>>

Init ==
  /\ events = {}
  /\ top = FirstEvent

\* A new event gets the next id.
AppendEvent(p) ==
  /\ events' = events \cup {[id |-> top + 1, payload |-> p]}
  /\ top' = top + 1

\* The oldest event expires.
Forget ==
  /\ \E e \in events :
       /\ \A f \in events : e.id <= f.id
       /\ events' = events \ {e}
  /\ UNCHANGED top

Next ==
  \/ \E p \in Payloads : AppendEvent(p)
  \/ Forget

Spec == Init /\ [][Next]_logVars

=============================================================================
