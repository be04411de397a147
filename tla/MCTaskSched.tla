----------------------------- MODULE MCTaskSched -----------------------------
(* TaskSched for TLC: the tasks and the locks are interchangeable. *)
EXTENDS TaskSched, TLC

Symmetry == Permutations(Tasks) \cup Permutations(Locks)
=============================================================================
