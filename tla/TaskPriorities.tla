--------------------------- MODULE TaskPriorities ---------------------------
(* The tasks that use an object, and the priorities in use.                 *)
EXTENDS Naturals, FiniteSets

CONSTANTS Tasks,
          Pri     \* a smaller number is a higher priority

ASSUME TaskPrioritiesAssumption ==
    /\ IsFiniteSet(Tasks)
    /\ Pri \subseteq Nat
=============================================================================
