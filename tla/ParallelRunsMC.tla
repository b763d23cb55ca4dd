--------------------------- MODULE ParallelRunsMC ---------------------------
(* Runs are interchangeable, and so are tickets. *)
EXTENDS ParallelRuns, TLC

Symmetry == Permutations(Procs) \cup Permutations(Tickets)
=============================================================================
