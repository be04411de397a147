----------------------------- MODULE ReadyQueue -----------------------------
(***************************************************************************)
(* The ready queue of T-Kernel (kernel/tkernel/src/ready_queue.h): a task  *)
(* queue per priority, a bitmap of the priorities in use, the highest of   *)
(* them, and the READY task that has the kernel lock.  The operations are  *)
(* functions from a ready queue to the next one.  0 is the highest of the  *)
(* NUM_PRI priorities.                                                     *)
(***************************************************************************)
EXTENDS Integers, Sequences, SequencesExt

CONSTANTS Tasks,   \* the task control blocks
          NUM_PRI, \* the number of task priorities
          NULL     \* the null pointer

ASSUME ReadyQueueAssumption == NUM_PRI \in Nat \ {0} /\ NULL \notin Tasks

Pri == 0 .. NUM_PRI - 1

RDYQUE == [top_priority : 0 .. NUM_PRI,
           tskque       : [Pri -> Seq(Tasks)],
           bitmap       : SUBSET Pri,
           klocktsk     : Tasks \cup {NULL}]

ready_queue_initialize ==
    [top_priority |-> NUM_PRI,
     tskque       |-> [p \in Pri |-> <<>>],
     bitmap       |-> {},
     klocktsk     |-> NULL]

(* tskque[NUM_PRI] is the null field that follows the task queues. *)
ready_queue_top(rq) ==
    CASE rq.klocktsk # NULL         -> rq.klocktsk
      [] rq.klocktsk = NULL
         /\ rq.top_priority = NUM_PRI -> NULL
      [] OTHER                      -> Head(rq.tskque[rq.top_priority])

(* The part common to ready_queue_insert and ready_queue_insert_top: que   *)
(* is the task queue of priority p with t in its place.                    *)
Inserted(rq, t, p, klocked, que) ==
    [top_priority |-> IF p < rq.top_priority THEN p ELSE rq.top_priority,
     tskque       |-> [rq.tskque EXCEPT ![p] = que],
     bitmap       |-> rq.bitmap \cup {p},
     klocktsk     |-> IF klocked THEN t ELSE rq.klocktsk]

(* ready_queue_insert returns this: did the top priority change? *)
RaisesTop(rq, p) == p < rq.top_priority

(* Definitions marked "fault" are not the code: each is a plausible mistake *)
(* in the definition that follows it, to show that a property would see it. *)

(* fault: the task goes in front of the others *)
InsertAtHead(rq, t, p, klocked) ==
    Inserted(rq, t, p, klocked, <<t>> \o rq.tskque[p])

ready_queue_insert(rq, t, p, klocked) ==
    Inserted(rq, t, p, klocked, Append(rq.tskque[p], t))

ready_queue_insert_top(rq, t, p, klocked) ==
    Inserted(rq, t, p, klocked, <<t>> \o rq.tskque[p])

(* tstdlib_bitsearch1: the first bit that is set, NUM_PRI when none is. *)
FirstSetFrom(bitmap, p) ==
    CHOOSE q \in p .. NUM_PRI :
        /\ q \in bitmap \cup {NUM_PRI}
        /\ \A r \in bitmap : r >= p => q <= r

(* fault: only the bit of the top priority is cleared *)
DeleteKeepsBit(rq, t, p) ==
    LET que    == RemoveFirst(rq.tskque[p], t)
        bitmap == IF que = <<>> /\ p = rq.top_priority
                    THEN rq.bitmap \ {p} ELSE rq.bitmap
    IN  [top_priority |-> IF que = <<>> /\ p = rq.top_priority
                            THEN FirstSetFrom(bitmap, p) ELSE rq.top_priority,
         tskque       |-> [rq.tskque EXCEPT ![p] = que],
         bitmap       |-> bitmap,
         klocktsk     |-> IF rq.klocktsk = t THEN NULL ELSE rq.klocktsk]

(* ready_queue_delete of a task t that is in the queue of priority p.  The *)
(* search begins at p: no higher priority was in use.                      *)
ready_queue_delete(rq, t, p) ==
    LET que    == RemoveFirst(rq.tskque[p], t)
        bitmap == IF que = <<>> THEN rq.bitmap \ {p} ELSE rq.bitmap
    IN  [top_priority |-> IF que = <<>> /\ p = rq.top_priority
                            THEN FirstSetFrom(bitmap, p) ELSE rq.top_priority,
         tskque       |-> [rq.tskque EXCEPT ![p] = que],
         bitmap       |-> bitmap,
         klocktsk     |-> IF rq.klocktsk = t THEN NULL ELSE rq.klocktsk]

(* ready_queue_delete of a task that waits for a kernel lock: it is in no  *)
(* task queue, only the lock owner field may change.                       *)
DeleteKlockWaiter(rq, t) ==
    [rq EXCEPT !.klocktsk = IF rq.klocktsk = t THEN NULL ELSE rq.klocktsk]

ready_queue_rotate(rq, p) ==
    IF rq.tskque[p] = <<>> THEN rq
    ELSE [rq EXCEPT !.tskque[p] =
                        Append(Tail(rq.tskque[p]), Head(rq.tskque[p]))]

ready_queue_move_last(rq, t, p) ==
    [rq EXCEPT !.tskque[p] = Append(RemoveFirst(rq.tskque[p], t), t)]

-----------------------------------------------------------------------------
(* The ready queue rq holds exactly the tasks of ready, each once and in   *)
(* the queue of its priority pri[t].                                       *)
Holds(rq, ready, pri) ==
    \A p \in Pri :
        /\ ToSet(rq.tskque[p]) = {t \in ready : pri[t] = p}
        /\ IsInjective(rq.tskque[p])

(* The bitmap and the top priority say what the task queues say. *)
Indexed(rq) ==
    /\ rq.bitmap = {p \in Pri : rq.tskque[p] # <<>>}
    /\ rq.top_priority \in rq.bitmap \cup {NUM_PRI}
    /\ \A p \in rq.bitmap : rq.top_priority <= p
=============================================================================
