------------------------------ MODULE MCRemoval ------------------------------
(* Small instances of Removal for TLC. *)
EXTENDS Removal, TLC

\* Two works are interchangeable.
Symmetry == Permutations(Works)
=============================================================================
