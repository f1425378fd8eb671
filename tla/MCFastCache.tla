---------------------------- MODULE MCFastCache ----------------------------
(***************************************************************************)
(* A small instance of FastCache for TLC.                                  *)
(***************************************************************************)
EXTENDS FastCache, TLC

\* A cache may be created at any point of any slice of the first round.
AnySlice == 0 .. Retention - 1

Symmetry == Permutations(Values)

=============================================================================
