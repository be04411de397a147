------------------------------ MODULE MCMutex -------------------------------
(* Mutex for TLC: the tasks and the mutexes are interchangeable. *)
EXTENDS Mutex, TLC

Symmetry == Permutations(Tasks) \cup Permutations(Mutexes)
=============================================================================
