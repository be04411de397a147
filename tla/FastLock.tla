------------------------------ MODULE FastLock ------------------------------
(***************************************************************************)
(* The high-speed exclusive lock of the T-Kernel library                   *)
(* (lib/libtk/src/fastlock.c): a counter changed with interrupts disabled  *)
(* decides whether the caller may go on at once, and a semaphore of count  *)
(* 0 and maximum 1 parks and wakes the others.  The decision on the        *)
(* counter and the semaphore call it leads to are two steps, and every     *)
(* other task may run between them.                                        *)
(***************************************************************************)
EXTENDS Integers, FiniteSets

CONSTANTS Tasks,   \* the tasks that share the lock
          Priority \* Priority[t]: the priority of t, small is high

ASSUME FastLockAssumption ==
    /\ IsFiniteSet(Tasks)
    /\ Priority \in [Tasks -> Nat]

VARIABLES cnt,     \* FastLock.cnt
          semcnt,  \* the count of semaphore FastLock.id
          waiting, \* the tasks in the wait queue of that semaphore
          pc,      \* where each task stands in Lock or Unlock
          forced   \* history: a wait in Lock has been released by tk_rel_wai

vars == <<cnt, semcnt, waiting, pc, forced>>

(* "toWait" and "toSignal" lie between the counter and the semaphore call. *)
Points == {"out", "toWait", "waiting", "holding", "toSignal"}

maxsem == 1

TypeOK ==
    /\ cnt \in Int
    /\ semcnt \in 0 .. maxsem
    /\ waiting \in SUBSET Tasks
    /\ pc \in [Tasks -> Points]
    /\ forced \in BOOLEAN

(* CreateLock: the semaphore is empty and the counter is -1. *)
Init ==
    /\ cnt = -1
    /\ semcnt = 0
    /\ waiting = {}
    /\ pc = [t \in Tasks |-> "out"]
    /\ forced = FALSE

At(t, from, to) == pc[t] = from /\ pc' = [pc EXCEPT ![t] = to]

-----------------------------------------------------------------------------
(* Definitions marked "fault" are not the code: each is a plausible mistake *)
(* in the definition that follows it, to show that a property would see it. *)

(* fault: one task too many finds the lock free *)
IncPositiveLate == cnt + 1 > 1

(* Lock: Inc returns the incremented counter; a positive one means wait. *)
IncPositive == cnt + 1 > 0

LockInc(t) ==
    /\ cnt' = cnt + 1
    /\ At(t, "out", IF IncPositive THEN "toWait" ELSE "holding")
    /\ UNCHANGED <<semcnt, waiting, forced>>

(* fault: the lowest priority first *)
HeadsFromTheTail == {h \in waiting : \A u \in waiting : Priority[u] <= Priority[h]}

(* The head of the TA_TPRI wait queue is one of its highest priority tasks. *)
Heads == {h \in waiting : \A u \in waiting : Priority[h] <= Priority[u]}

(* gcb_top_of_wait_queue: would t be served before every waiting task? *)
OnTop(t) == \A u \in waiting : Priority[t] < Priority[u]

(* tk_wai_sem for a count of 1 *)
CountAvailable == semcnt >= 1

(* Lock: tk_wai_sem(id, 1, TMO_FEVR) takes the count or joins the queue. *)
WaiSem(t) ==
    \/ /\ OnTop(t) /\ CountAvailable
       /\ semcnt' = semcnt - 1
       /\ At(t, "toWait", "holding")
       /\ UNCHANGED <<cnt, waiting, forced>>
    \/ /\ ~(OnTop(t) /\ CountAvailable)
       /\ waiting' = waiting \cup {t}
       /\ At(t, "toWait", "waiting")
       /\ UNCHANGED <<cnt, semcnt, forced>>

(* fault: Unlock signals although nobody is past Inc *)
DecPositiveAlways == cnt >= 0

(* fault: Unlock does not signal the last waiting task *)
DecPositiveLate == cnt > 1

(* Unlock: Dec returns the counter before the decrement; a positive one    *)
(* means that another task is past Inc.                                    *)
DecPositive == cnt > 0

UnlockDec(t) ==
    /\ cnt' = cnt - 1
    /\ At(t, "holding", IF DecPositive THEN "toSignal" ELSE "out")
    /\ UNCHANGED <<semcnt, waiting, forced>>

(* Unlock: tk_sig_sem(id, 1), whose result Unlock ignores.  A full         *)
(* semaphore answers E_QOVR and the signal is lost; a waiting task takes   *)
(* the count that was just returned.                                       *)
SigSem(t) ==
    /\ pc[t] = "toSignal"
    /\ \/ /\ semcnt = maxsem
          /\ pc' = [pc EXCEPT ![t] = "out"]
          /\ UNCHANGED <<semcnt, waiting>>
       \/ /\ semcnt < maxsem /\ waiting = {}
          /\ semcnt' = semcnt + 1
          /\ pc' = [pc EXCEPT ![t] = "out"]
          /\ UNCHANGED waiting
       \/ /\ semcnt < maxsem
          /\ \E h \in Heads :
                /\ waiting' = waiting \ {h}
                /\ pc' = [pc EXCEPT ![t] = "out", ![h] = "holding"]
          /\ UNCHANGED semcnt
    /\ UNCHANGED <<cnt, forced>>

(* Some other task releases the wait of t: tk_wai_sem answers E_RLWAI and  *)
(* Lock returns without looking at the answer.                             *)
RelWai(t) ==
    /\ t \in waiting
    /\ waiting' = waiting \ {t}
    /\ At(t, "waiting", "holding")
    /\ forced' = TRUE
    /\ UNCHANGED <<cnt, semcnt>>

Step(t) == LockInc(t) \/ WaiSem(t) \/ UnlockDec(t) \/ SigSem(t)

Next == \E t \in Tasks : Step(t) \/ RelWai(t)

Spec == Init /\ [][Next]_vars

(* A task that has begun Lock or Unlock goes on, and a holder ends its     *)
(* critical section; only the first step of Lock is the caller's choice.   *)
Progress(t) == WaiSem(t) \/ UnlockDec(t) \/ SigSem(t)

FairSpec == Spec /\ \A t \in Tasks : WF_vars(Progress(t))

-----------------------------------------------------------------------------
(* Lock is exclusive: between the return of Lock and the call of Unlock no *)
(* second task is there, whatever the interleaving of counter and          *)
(* semaphore, as long as no wait in Lock is released by force.             *)
MutualExclusion ==
    ~forced =>
        \A t, u \in Tasks : pc[t] = "holding" /\ pc[u] = "holding" => t = u

(* Unlock never signals a full semaphore, so ignoring E_QOVR loses nothing, *)
(* as long as no wait in Lock is released by force.                        *)
NoSignalOverflow ==
    ~forced => \A t \in Tasks : pc[t] = "toSignal" => semcnt < maxsem

(* No lost wakeup: while a task sleeps in Lock, some other task still owns *)
(* the lock or is on its way to signal it; forced releases, and the        *)
(* signals that are lost after them, do not change that.                   *)
SleeperHasWaker ==
    waiting # {} => \E t \in Tasks : pc[t] \in {"holding", "toSignal"}

(* Once it has announced itself on the counter, the one task of highest    *)
(* priority gets the lock, however often the others come back for it.      *)
TopTaskServed ==
    \A t \in Tasks :
        (\A u \in Tasks \ {t} : Priority[t] < Priority[u])
            => (pc[t] = "toWait" ~> pc[t] = "holding")
=============================================================================
