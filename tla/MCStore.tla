------------------------------ MODULE MCStore -------------------------------
(* Small instances of Store for TLC. *)
EXTENDS Store, TLC

\* Tasks and values of the bridged setting are interchangeable.
Symmetry == Permutations(Tasks) \cup Permutations(Ids)
=============================================================================
