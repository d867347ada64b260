---------------------------- MODULE MCPerimeter ----------------------------
(* Small instances of Perimeter for TLC. *)
EXTENDS Perimeter
=============================================================================
