---------------------------- MODULE MCLifecycle ----------------------------
(* Small instances of Lifecycle for TLC. *)
EXTENDS Lifecycle, TLC

\* Processes, tasks and repositories are interchangeable: no property and no
\* action tells two of them apart.
Symmetry ==
  Permutations(Procs) \cup Permutations(Tasks) \cup Permutations(Repos)
=============================================================================
