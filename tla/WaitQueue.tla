----------------------------- MODULE WaitQueue ------------------------------
(***************************************************************************)
(* The wait queue that synchronisation objects share (wait.h, wait.c), as  *)
(* functions from a queue to the next.  pri is the priority of each task,  *)
(* 0 the highest; tpri says whether the object has the attribute TA_TPRI.  *)
(***************************************************************************)
EXTENDS TaskPriorities, SequencesExt

VARIABLE priority   \* tcb->priority

queue_insert_tpri(q, t, pri) ==
    LET notLower == {i \in DOMAIN q : \A j \in 1 .. i : pri[q[j]] <= pri[t]}
    IN  InsertAt(q, Cardinality(notLower) + 1, t)

gcb_make_wait(q, t, pri, tpri) ==
    IF tpri THEN queue_insert_tpri(q, t, pri) ELSE Append(q, t)

gcb_change_priority(q, t, pri) == queue_insert_tpri(RemoveFirst(q, t), t, pri)

gcb_top_of_wait_queue(q, t, pri, tpri) ==
    CASE q = <<>> -> t
      [] q # <<>> /\ tpri /\ pri[t] < pri[Head(q)] -> t
      [] OTHER -> Head(q)
=============================================================================
