------------------------------- MODULE ObjLock -------------------------------
(***************************************************************************)
(* What LockOBJ and UnlockOBJ of kernel/tkernel/src/klock.c promise to the *)
(* memory pool that uses them: a lock has one owner at most, a task has    *)
(* one lock at most, a lock that is given up goes straight to a task that  *)
(* waits for it, and it is free only while nobody waits.                   *)
(***************************************************************************)
CONSTANTS Tasks, Locks, NoTask

VARIABLES owner,  \* the task that has each lock, or NoTask
          waiters \* the tasks in the queue of each lock

vars == <<owner, waiters>>

Init ==
    /\ owner = [l \in Locks |-> NoTask]
    /\ waiters = [l \in Locks |-> {}]

Idle(t) == \A l \in Locks : owner[l] # t /\ t \notin waiters[l]

Take(t, l) ==
    /\ Idle(t) /\ owner[l] = NoTask
    /\ owner' = [owner EXCEPT ![l] = t]
    /\ UNCHANGED waiters

Queue(t, l) ==
    /\ Idle(t) /\ owner[l] # NoTask
    /\ waiters' = [waiters EXCEPT ![l] = @ \cup {t}]
    /\ UNCHANGED owner

(* A waiting task is suspended or terminated, or its priority changes. *)
Withdraw(t, l) ==
    /\ t \in waiters[l]
    /\ waiters' = [waiters EXCEPT ![l] = @ \ {t}]
    /\ UNCHANGED owner

Free(l) ==
    /\ owner[l] # NoTask /\ waiters[l] = {}
    /\ owner' = [owner EXCEPT ![l] = NoTask]
    /\ UNCHANGED waiters

HandOver(t, l) ==
    /\ owner[l] # NoTask /\ t \in waiters[l]
    /\ owner' = [owner EXCEPT ![l] = t]
    /\ waiters' = [waiters EXCEPT ![l] = @ \ {t}]

Next ==
    \E l \in Locks :
        \/ Free(l)
        \/ \E t \in Tasks : Take(t, l) \/ Queue(t, l) \/ Withdraw(t, l)
                            \/ HandOver(t, l)

Spec == Init /\ [][Next]_vars
=============================================================================
