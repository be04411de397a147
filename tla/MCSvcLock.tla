------------------------------ MODULE MCSvcLock ------------------------------
(* SvcLock for TLC: the tasks are interchangeable. *)
EXTENDS SvcLock, TLC

Symmetry == Permutations(Tasks)
=============================================================================
