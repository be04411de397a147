----------------------------- MODULE MCFastLock -----------------------------
(* FastLock for TLC: four tasks, two of them of the same priority. *)
EXTENDS FastLock, TLC

CONSTANTS t1, t2, t3, t4

MCTasks == {t1, t2, t3, t4}
MCPriority == t1 :> 1 @@ t2 :> 2 @@ t3 :> 2 @@ t4 :> 3
=============================================================================
