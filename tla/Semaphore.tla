----------------------------- MODULE Semaphore ------------------------------
(***************************************************************************)
(* A counting semaphore (semaphore.c) with the wait queue and the hooks    *)
(* that wait.c and task.c call: signals and requests of more than one,     *)
(* service in queue order or past it (TA_CNT), waits that end by timeout,  *)
(* release or termination, priorities that change, deletion.               *)
(*                                                                         *)
(* A step is one system call, or the end of one wait in the timer          *)
(* interrupt.  Tasks that do not wait may be running.                      *)
(***************************************************************************)
EXTENDS WaitQueue

CONSTANTS MaxSem   \* bound of semcb->maxsem

ASSUME SemaphoreAssumption == MaxSem \in Nat

VARIABLES need,     \* winfo.sem.cnt of a waiting task, else 0
          sem,      \* the SEMCB
          served    \* history: the tasks whose tk_wai_sem ended with E_OK in
                    \* the last step

semvars == <<priority, need, sem, served>>

NoSem == [semid |-> FALSE, tpri |-> FALSE, cntatr |-> FALSE,
          semcnt |-> 0, maxsem |-> 1, wait_queue |-> <<>>]

WaitsForSem(t) == t \in ToSet(sem.wait_queue)

-----------------------------------------------------------------------------
(* Definitions marked "fault" are not the code: each is a plausible mistake *)
(* in the definition that follows it.                                      *)

(* fault: a request that does not fit is passed without TA_CNT, too *)
ServeOrPass(s, t) ==
    IF s.full \/ s.sem.semcnt < need[t] THEN s
    ELSE [sem  |-> [s.sem EXCEPT !.semcnt = @ - need[t],
                                 !.wait_queue = RemoveFirst(@, t)],
          full |-> FALSE]

(* One round of the loop over the wait queue: t is served if the count     *)
(* suffices.  If not, the loop ends, or goes on with TA_CNT.               *)
ServeNext(s, t) ==
    CASE s.full -> s
      [] ~s.full /\ s.sem.semcnt < need[t] -> [s EXCEPT !.full = ~s.sem.cntatr]
      [] OTHER ->
            [s EXCEPT !.sem.semcnt = @ - need[t],
                      !.sem.wait_queue = RemoveFirst(@, t)]

(* The loop goes over the queue as it is when the loop begins. *)
ServeQueue(s) ==
    LET round[i \in 0 .. Len(s.wait_queue)] ==
            IF i = 0 THEN [sem |-> s, full |-> FALSE]
            ELSE ServeNext(round[i - 1], s.wait_queue[i])
    IN  round[Len(s.wait_queue)].sem

(* fault: the loop is left out *)
OnlyReorders(s) == s

(* sem_chg_pri after the place in the queue is adjusted, and sem_rel_wai   *)
Allocate(s) == IF s.cntatr THEN s ELSE ServeQueue(s)

(* The semaphore changes, and tasks leave its queue; those in ng without   *)
(* having been served.                                                     *)
SemBecomes(s, ng) ==
    /\ sem' = s
    /\ need' = [t \in Tasks |-> IF t \in ToSet(s.wait_queue) THEN need[t] ELSE 0]
    /\ served' = {t \in Tasks : WaitsForSem(t) /\ t \notin ToSet(s.wait_queue) \cup ng}

tk_cre_sem(tpri, cntatr, isemcnt, maxsem) ==
    /\ ~sem.semid
    /\ isemcnt <= maxsem
    /\ sem' = [semid |-> TRUE, tpri |-> tpri, cntatr |-> cntatr,
               semcnt |-> isemcnt, maxsem |-> maxsem, wait_queue |-> <<>>]
    /\ served' = {}
    /\ UNCHANGED <<priority, need>>

(* wait_delete *)
tk_del_sem ==
    /\ sem.semid
    /\ SemBecomes(NoSem, Tasks)
    /\ UNCHANGED priority

(* With E_QOVR nothing changes. *)
tk_sig_sem(cnt) ==
    /\ sem.semid
    /\ cnt <= sem.maxsem - sem.semcnt
    /\ SemBecomes(ServeQueue([sem EXCEPT !.semcnt = @ + cnt]), {})
    /\ UNCHANGED priority

MayTake(t, cnt) ==
    /\ sem.cntatr
       \/ gcb_top_of_wait_queue(sem.wait_queue, t, priority, sem.tpri) = t
    /\ sem.semcnt >= cnt

(* A polling call, or one with waits disabled, that may not take changes   *)
(* nothing.                                                                *)
tk_wai_sem(t, cnt) ==
    /\ sem.semid /\ ~WaitsForSem(t)
    /\ cnt <= sem.maxsem
    /\ \/ /\ MayTake(t, cnt)
          /\ sem' = [sem EXCEPT !.semcnt = @ - cnt]
          /\ served' = {t}
          /\ UNCHANGED need
       \/ /\ ~MayTake(t, cnt)
          /\ sem' = [sem EXCEPT !.wait_queue = gcb_make_wait(@, t, priority, sem.tpri)]
          /\ need' = [need EXCEPT ![t] = cnt]
          /\ served' = {}
    /\ UNCHANGED priority

(* wait_release_tmout, wait_release_ng or _ter_tsk: out of the queue, then  *)
(* the hook sem_rel_wai                                                    *)
EndSemWait(t) ==
    /\ WaitsForSem(t)
    /\ SemBecomes(Allocate([sem EXCEPT !.wait_queue = RemoveFirst(@, t)]), {t})
    /\ UNCHANGED priority

(* change_task_priority: only a task in a queue by priority has the hook.  *)
sem_chg_pri(t, p) ==
    /\ priority' = [priority EXCEPT ![t] = p]
    /\ \/ /\ WaitsForSem(t) /\ sem.tpri
          /\ SemBecomes(Allocate([sem EXCEPT
                        !.wait_queue = gcb_change_priority(@, t, priority')]), {})
       \/ /\ ~(WaitsForSem(t) /\ sem.tpri)
          /\ served' = {}
          /\ UNCHANGED <<need, sem>>

SemInit ==
    /\ priority \in [Tasks -> Pri]
    /\ need = [t \in Tasks |-> 0]
    /\ sem = NoSem
    /\ served = {}

SemNext ==
    \/ \E tpri, cntatr \in BOOLEAN, i \in 0 .. MaxSem, m \in 1 .. MaxSem :
            tk_cre_sem(tpri, cntatr, i, m)
    \/ tk_del_sem
    \/ \E cnt \in 1 .. MaxSem : tk_sig_sem(cnt)
    \/ \E t \in Tasks :
        \/ \E cnt \in 1 .. MaxSem : tk_wai_sem(t, cnt)
        \/ EndSemWait(t)
        \/ \E p \in Pri : sem_chg_pri(t, p)

SemSpec == SemInit /\ [][SemNext]_semvars

-----------------------------------------------------------------------------
(* No task waits for what is there: whatever signal, timeout, termination  *)
(* or change of priority came last, the count does not suffice for the     *)
(* task at the head of the queue, with TA_CNT for any task in it; and the  *)
(* count stays within its bounds.                                          *)
NoneServable ==
    /\ sem.semcnt \in 0 .. sem.maxsem
    /\ \A i \in DOMAIN sem.wait_queue :
            sem.cntatr \/ i = 1 => sem.semcnt < need[sem.wait_queue[i]]

(* Ahead(u, t): without TA_CNT the request of the waiting task u must be   *)
(* met before that of t.  A task that does not wait yet comes after those  *)
(* that do; a task whose priority is set goes behind those that have it.   *)
Ahead(u, t) ==
    IF sem.tpri
    THEN \/ priority'[u] < priority'[t]
         \/ priority'[u] = priority'[t] /\ ~WaitsForSem(t)
    ELSE \E i \in DOMAIN sem.wait_queue :
            /\ sem.wait_queue[i] = u
            /\ \A j \in 1 .. i : sem.wait_queue[j] # t

(* Without TA_CNT nobody is served while a task that comes before waits    *)
(* on, neither by a call of its own nor by one that serves several.        *)
ServedInOrder ==
    [][sem.semid /\ sem'.semid /\ ~sem.cntatr =>
        \A t \in served', u \in ToSet(sem'.wait_queue) :
            WaitsForSem(u) => ~Ahead(u, t)]_semvars
=============================================================================
