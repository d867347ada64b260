------------------------------- MODULE MCFetch -------------------------------
(* Small instances of Fetch for TLC. *)
EXTENDS Fetch, TLC

\* Two fetches of the same branch are interchangeable.
Symmetry == Permutations(Fetchers)
=============================================================================
