---------------------------- MODULE ExpiringSet ----------------------------
(***************************************************************************)
(* What FastCache promises: a set whose members expire.  A member is held  *)
(* for longer than Retention - Slack and, at any later call that looks,    *)
(* for less than Retention (Note 3 of fastcache.py).  Within that window   *)
(* it is open which call lets it go.                                       *)
(***************************************************************************)
EXTENDS Integers, FiniteSets

CONSTANTS
  Values,
  Retention,   \* the age no member reaches
  Slack        \* how much earlier a member may go

VARIABLES
  held,        \* the members
  born,        \* when each member was added, 0 for the others
  now,         \* the clock, in seconds
  reply        \* what the last call returned or raised

setVars == <<held, born, now, reply>>

Age(v) == now - born[v]

\* K may be what is left of the set at this time.
MayRemain(K) ==
  /\ K \subseteq held
  /\ \A v \in K : Age(v) < Retention
  /\ \A v \in held \ K : Age(v) > Retention - Slack

BornIn(K) == [v \in Values |-> IF v \in K THEN born[v] ELSE 0]

Init ==
  /\ held = {}
  /\ born = [v \in Values |-> 0]
  /\ now \in Nat
  /\ reply = <<"none">>

\* A call first lets expired members go, down to K.
LetGo(K) ==
  /\ MayRemain(K)
  /\ held' = K
  /\ born' = BornIn(K)
  /\ UNCHANGED now

Add(v) ==
  \E K \in SUBSET held :
    /\ MayRemain(K)
    /\ v \notin K
    /\ held' = K \cup {v}
    /\ born' = [BornIn(K) EXCEPT ![v] = now]
    /\ reply' = <<"cached", v>>
    /\ UNCHANGED now

AddAgain(v) ==
  \E K \in SUBSET held : LetGo(K) /\ v \in K /\ reply' = <<"already cached", v>>

Has(v) ==
  \E K \in SUBSET held : LetGo(K) /\ reply' = <<"is cached", v, v \in K>>

Count ==
  \E K \in SUBSET held : LetGo(K) /\ reply' = <<"count", Cardinality(K)>>

Clear ==
  /\ held' = {}
  /\ born' = BornIn({})
  /\ reply' = <<"none">>
  /\ UNCHANGED now

\* A check of the internal state never finds anything.
Check ==
  /\ reply' = <<"none">>
  /\ UNCHANGED <<held, born, now>>

Pass ==
  /\ now' \in Nat
  /\ now' > now
  /\ UNCHANGED <<held, born, reply>>

Next ==
  \/ \E v \in Values : Add(v) \/ AddAgain(v) \/ Has(v)
  \/ Count \/ Clear \/ Check \/ Pass

Spec == Init /\ [][Next]_setVars

=============================================================================
