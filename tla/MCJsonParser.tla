---------------------------- MODULE MCJsonParser ----------------------------
(***************************************************************************)
(* A small instance of JsonParser for TLC.                                 *)
(***************************************************************************)
EXTENDS JsonParser

=============================================================================
