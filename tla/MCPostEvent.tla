---------------------------- MODULE MCPostEvent ----------------------------
(***************************************************************************)
(* Constants of PostEvent for TLC.                                         *)
(***************************************************************************)
EXTENDS PostEventInvariant, TLC

NoSkew == [w \in Workers |-> 0]

\* One process's clock is behind the others.
OneSlowClock == [w \in Workers |-> IF w = CHOOSE v \in Workers : TRUE
                                   THEN -1 ELSE 0]

\* The failures after which the counter is still right.
CountedFaults == AllFaults \ (UncountingFaults \cup {"countLost"})

Symmetry == Permutations(Workers) \cup Permutations(Replicas)
=============================================================================
