----------------------------- MODULE MCCreation -----------------------------
(* Small instances of Creation for TLC. *)
EXTENDS Creation
=============================================================================
