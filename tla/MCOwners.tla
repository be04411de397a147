------------------------------ MODULE MCOwners -------------------------------
(* Mutexes and device management, for TLC: tasks own what others wait for.  *)
(* They share no state, so a behaviour moves the one that its initial state *)
(* names as `subject`, and the other stays as it begins.                    *)
EXTENDS Mutex, DeviceIO, TLC

VARIABLE subject

(* A cfg lets DevTasks be the same set as Tasks, and may let Opens be the   *)
(* same set as Mutexes.                                                     *)
Symmetry ==
    Permutations(Tasks) \cup Permutations(Mutexes) \cup Permutations(Reqs)

OwnersInit ==
    /\ subject \in {"mutex", "device"}
    /\ Init /\ DevInit

MutexMoves ==
    /\ subject = "mutex" /\ Next
    /\ UNCHANGED <<subject, devvars>>

DevMoves ==
    /\ subject = "device" /\ DevNext
    /\ UNCHANGED <<subject, vars>>

(* Where a module says that the model stops *)
Stopped ==
    /\ Broken \/ ~Served
    /\ UNCHANGED <<subject, vars, devvars>>

OwnersNext == MutexMoves \/ DevMoves \/ Stopped

OwnersSpec == OwnersInit /\ [][OwnersNext]_<<subject, vars, devvars>>
=============================================================================
