------------------------------ MODULE TaskSched ------------------------------
(***************************************************************************)
(* Task management and scheduling of T-Kernel: the life cycle of tasks     *)
(* (task_manage.c), the calls that attach to a task (task_sync.c), the     *)
(* ready queue and the choice of the task to run (task.c), the object lock *)
(* of the kernel (klock.c), the time slice of the timer interrupt          *)
(* (timer.c) and the dispatcher (cpu_support.S).                           *)
(*                                                                         *)
(* A step is a critical section: interrupts are disabled from              *)
(* BEGIN_CRITICAL_SECTION to END_CRITICAL_SECTION.  Between two steps an   *)
(* interrupt handler may run and make any call open to it; a task makes a  *)
(* call while it is the one in execution.                                  *)
(***************************************************************************)
EXTENDS ReadyQueue

CONSTANTS Locks,        \* the object locks, one per fixed-size memory pool
          SliceTimes,   \* the arguments of tk_chg_slt
          TIMER_PERIOD, \* what a timer interrupt adds to a slice counter
          MaxSus,       \* bound of suscnt, INT_MAX in the code
          MaxWup        \* bound of wupcnt, INT_MAX in the code

ASSUME TaskSchedAssumption ==
    /\ Tasks # {}
    /\ NULL \notin Locks
    /\ SliceTimes \subseteq Nat
    /\ TIMER_PERIOD \in Nat \ {0}
    /\ MaxSus \in Nat
    /\ MaxWup \in Nat

VARIABLES tcb,         \* the task control blocks
          ready_queue, \* the ready queue
          wtskq,       \* OBJLOCK.wtskq: the tasks that wait for each lock
          schedtsk,    \* the task that should run
          ctxtsk,      \* the task that runs, NULL inside the dispatcher
          dispatch_disabled, \* DDS_DISABLE was set by tk_dis_dsp
          pil,         \* the interrupt level of ctxtsk: 1 holds off dispatch
          locked,      \* OBJLOCK.wtskq.next # NULL: some task has the lock
          obj          \* the lock of the pool call each task is inside, or NULL

vars == <<tcb, ready_queue, wtskq, schedtsk,
          ctxtsk, dispatch_disabled, pil, locked, obj>>

TSTAT == {"NONEXIST", "READY", "WAIT", "SUSPEND", "WAITSUS", "DORMANT"}

(* wspec says what a task in WAIT waits for; it is not read otherwise. *)
TCB == [state     : TSTAT,
        priority  : Pri,
        ipriority : Pri,
        wspec     : {"none", "slp", "mpf"},
        wupcnt    : 0 .. MaxWup,
        suscnt    : 0 .. MaxSus,
        klockwait : BOOLEAN,
        klocked   : BOOLEAN,
        slicetime : SliceTimes \cup {0},
        slicecnt  : Nat]

TypeOK ==
    /\ tcb \in [Tasks -> TCB]
    /\ ready_queue \in RDYQUE
    /\ wtskq \in [Locks -> Seq(Tasks)]
    /\ schedtsk \in Tasks \cup {NULL}
    /\ ctxtsk \in Tasks \cup {NULL}
    /\ dispatch_disabled \in BOOLEAN
    /\ pil \in {0, 1}
    /\ locked \in [Locks -> BOOLEAN]
    /\ obj \in [Tasks -> Locks \cup {NULL}]

task_alive(t) == tcb[t].state \in {"READY", "WAIT", "SUSPEND", "WAITSUS"}

(* Definitions marked "fault" are not the code: each is a plausible mistake *)
(* in the definition that follows it, to show that a property would see it. *)

(* fault: a suspended wait is no wait *)
WaitingUnsuspended(t) == tcb[t].state = "WAIT"

(* WAIT or WAITSUS *)
Waiting(t) == tcb[t].state \in {"WAIT", "WAITSUS"}

-----------------------------------------------------------------------------
(* What the scheduling functions change, as one value: they call each      *)
(* other inside one critical section.                                      *)
Kernel == [tcb |-> tcb, rq |-> ready_queue, wtskq |-> wtskq, sched |-> schedtsk]

Becomes(k) ==
    /\ tcb' = k.tcb
    /\ ready_queue' = k.rq
    /\ wtskq' = k.wtskq
    /\ schedtsk' = k.sched

(* ready_queue_insert, with the slice counter it resets *)
Insert(k, t) ==
    [k EXCEPT !.tcb[t].slicecnt = 0,
              !.rq = ready_queue_insert(k.rq, t, k.tcb[t].priority, k.tcb[t].klocked)]

(* fault: every READY task is taken for one in a task queue *)
DeleteReady(k, t) ==
    [k EXCEPT !.rq = ready_queue_delete(k.rq, t, k.tcb[t].priority)]

(* ready_queue_delete: a task that waits for a lock leaves that queue. *)
Delete(k, t) ==
    IF k.tcb[t].klockwait
    THEN [k EXCEPT !.tcb[t].klockwait = FALSE,
                   !.wtskq = [l \in Locks |-> RemoveFirst(k.wtskq[l], t)],
                   !.rq = DeleteKlockWaiter(k.rq, t)]
    ELSE [k EXCEPT !.rq = ready_queue_delete(k.rq, t, k.tcb[t].priority)]

(* time_slice_schedule: t has run for another period; past its slice time  *)
(* it goes to the end of its queue.                                        *)
SliceOver(k, t) == k.tcb[t].slicecnt + TIMER_PERIOD > k.tcb[t].slicetime

time_slice_schedule(k, t) ==
    CASE t = NULL -> k
      [] t # NULL /\ k.tcb[t].slicetime = 0 -> k
      [] t # NULL /\ k.tcb[t].slicetime > 0 /\ ~SliceOver(k, t) ->
            [k EXCEPT !.tcb[t].slicecnt = @ + TIMER_PERIOD]
      [] OTHER ->
            [k EXCEPT !.tcb[t].slicecnt = 0,
                      !.rq = ready_queue_move_last(k.rq, t, k.tcb[t].priority)]

(* The task time_slice_schedule returns: the new head of the queue. *)
SliceHead(k, t) ==
    IF k.tcb[t].slicetime > 0 /\ SliceOver(k, t)
    THEN Head(time_slice_schedule(k, t).rq.tskque[k.tcb[t].priority])
    ELSE t

(* Before another task is chosen, the one that runs is charged a period. *)
Preempt(k) ==
    IF k.sched = ctxtsk THEN time_slice_schedule(k, ctxtsk) ELSE k

Chosen(k) == ready_queue_top(k.rq)

reschedule(k) ==
    IF k.sched = Chosen(k) THEN k
    ELSE [Preempt(k) EXCEPT !.sched = Chosen(k)]

make_ready(k, t) ==
    LET ready == Insert([k EXCEPT !.tcb[t].state = "READY"], t)
    IN  IF RaisesTop(k.rq, k.tcb[t].priority)
        THEN [Preempt(ready) EXCEPT !.sched = t]
        ELSE ready

(* fault: schedtsk is not looked at *)
KeepSched(k, t) == k.sched

ChooseAfterDelete(k, t) == IF k.sched = t THEN Chosen(k) ELSE k.sched

make_non_ready(k, t) ==
    LET gone == Delete(k, t)
    IN  [gone EXCEPT !.sched = ChooseAfterDelete(gone, t)]

(* fault: a task that is suspended too becomes READY *)
ReadyWhenReleased(k, t) == make_ready([k EXCEPT !.tcb[t].wspec = "none"], t)

(* make_non_wait: a task that is suspended too stays suspended. *)
make_non_wait(k, t) ==
    LET awake == [k EXCEPT !.tcb[t].wspec = "none"]
    IN  IF k.tcb[t].state = "WAIT" THEN make_ready(awake, t)
        ELSE [awake EXCEPT !.tcb[t].state = "SUSPEND"]

make_wait(k, t, wspec) ==
    LET waits == [k EXCEPT !.tcb[t].wspec = wspec]
    IN  IF k.tcb[t].state = "READY"
        THEN [make_non_ready(waits, t) EXCEPT !.tcb[t].state = "WAIT"]
        ELSE [waits EXCEPT !.tcb[t].state = "WAITSUS"]

change_task_priority(k, t, p) ==
    IF k.tcb[t].state = "READY"
    THEN reschedule(Insert([Delete(k, t) EXCEPT !.tcb[t].priority = p], t))
    ELSE [k EXCEPT !.tcb[t].priority = p]

rotate_ready_queue(k, p) ==
    IF k.rq.tskque[p] = <<>> THEN reschedule(k)
    ELSE reschedule([k EXCEPT !.tcb[Head(k.rq.tskque[p])].slicecnt = 0,
                              !.rq = ready_queue_rotate(k.rq, p)])

(* make_dormant: the fields of a TCB at the start of a task. *)
Dormant(ipriority) ==
    [state |-> "DORMANT", priority |-> ipriority, ipriority |-> ipriority,
     wspec |-> "none", wupcnt |-> 0, suscnt |-> 0,
     klockwait |-> FALSE, klocked |-> FALSE, slicetime |-> 0, slicecnt |-> 0]

make_dormant(k, t) == [k EXCEPT !.tcb[t] = Dormant(k.tcb[t].ipriority)]

(* A TCB in the free queue: tk_cre_tsk overwrites whatever is left in it. *)
FreeTCB == [Dormant(0) EXCEPT !.state = "NONEXIST"]

(* _ter_tsk: the task leaves the queue it is in. *)
_ter_tsk(k, t) ==
    IF k.tcb[t].state = "READY" THEN make_non_ready(k, t) ELSE k

-----------------------------------------------------------------------------
(* t executes: it was dispatched, and no dispatch is due that the          *)
(* interrupt level would let through.  Code holds a lock or tries to take  *)
(* one inside a pool call; InTask says that t is outside of them.          *)
Running(t) == ctxtsk = t /\ (schedtsk = t \/ pil = 1)

InTask(t) == Running(t) /\ obj[t] = NULL

(* The calls on a task t without a guard that says who makes them may also *)
(* come from an interrupt handler, which CHECK_NONSELF does not restrain:  *)
(* t may be the task that runs.                                            *)
tk_cre_tsk(t, ipriority) ==
    /\ tcb[t].state = "NONEXIST"
    /\ tcb' = [tcb EXCEPT ![t] = Dormant(ipriority)]
    /\ UNCHANGED <<ready_queue, wtskq, schedtsk, ctxtsk, dispatch_disabled,
                   pil, locked, obj>>

tk_del_tsk(t) ==
    /\ tcb[t].state = "DORMANT"
    /\ tcb' = [tcb EXCEPT ![t] = FreeTCB]
    /\ UNCHANGED <<ready_queue, wtskq, schedtsk, ctxtsk, dispatch_disabled,
                   pil, locked, obj>>

tk_sta_tsk(t) ==
    /\ tcb[t].state = "DORMANT"
    /\ Becomes(make_ready(Kernel, t))
    /\ UNCHANGED <<ctxtsk, dispatch_disabled, pil, locked, obj>>

(* tk_ext_tsk and tk_exd_tsk only warn when dispatch is disabled; then     *)
(* force_dispatch enters the dispatcher at its own interrupt level.  What  *)
(* the end of a task does that a handler has deleted, dispatch held off,   *)
(* is undefined: its TCB and its stack are free.                           *)
Leave(t) ==
    /\ tcb[t].state # "NONEXIST"
    /\ ctxtsk' = NULL
    /\ pil' = 0
    /\ UNCHANGED <<dispatch_disabled, locked, obj>>

tk_ext_tsk(t) ==
    /\ InTask(t)
    /\ Becomes(make_dormant(_ter_tsk(Kernel, t), t))
    /\ Leave(t)

tk_exd_tsk(t) ==
    /\ InTask(t)
    /\ Becomes([_ter_tsk(Kernel, t) EXCEPT !.tcb[t] = FreeTCB])
    /\ Leave(t)

(* fault: the owner of a kernel lock may be terminated *)
MayTerminateAlive(t) == task_alive(t)

(* tk_ter_tsk refuses a task that has the kernel lock; it may be inside    *)
(* LockOBJ, and a handler may terminate the task that runs, which goes on  *)
(* until it is dispatched out: to tk_ena_dsp if it holds off dispatch.  It *)
(* may then go on in LockOBJ when it is started again, as the dispatcher   *)
(* saves its context over the one setup_context has made; to the rest of   *)
(* the system that is a new call of LockOBJ, and it is modelled as one.    *)
MayTerminate(t) == task_alive(t) /\ ~tcb[t].klocked

tk_ter_tsk(t) ==
    /\ MayTerminate(t)
    /\ Becomes(make_dormant(_ter_tsk(Kernel, t), t))
    /\ obj' = [obj EXCEPT ![t] = NULL]
    /\ UNCHANGED <<ctxtsk, dispatch_disabled, pil, locked>>

(* tk_chg_pri without mutexes: the base priority is the priority.  TPRI_INI *)
(* is the priority the task was created with.                              *)
tk_chg_pri(t, p) ==
    /\ tcb[t].state # "NONEXIST"
    /\ Becomes(change_task_priority(Kernel, t, p))
    /\ UNCHANGED <<ctxtsk, dispatch_disabled, pil, locked, obj>>

(* TPRI_RUN is the priority of the calling task, or the top priority.  *)
tk_rot_rdq(p) ==
    /\ Becomes(rotate_ready_queue(Kernel, p))
    /\ UNCHANGED <<ctxtsk, dispatch_disabled, pil, locked, obj>>

tk_chg_slt(t, slicetime) ==
    /\ tcb[t].state # "NONEXIST"
    /\ tcb' = [tcb EXCEPT ![t].slicetime = slicetime]
    /\ UNCHANGED <<ready_queue, wtskq, schedtsk, ctxtsk, dispatch_disabled,
                   pil, locked, obj>>

-----------------------------------------------------------------------------
(* fault: the task that disabled dispatch may be suspended *)
MaySuspendAlways(t) == task_alive(t) /\ tcb[t].suscnt < MaxSus

(* tk_sus_tsk: E_CTX for the task that disabled dispatch, E_QOVR for a     *)
(* count at its maximum                                                    *)
MaySuspend(t) ==
    /\ task_alive(t)
    /\ ~(t = ctxtsk /\ dispatch_disabled)
    /\ tcb[t].suscnt < MaxSus

(* tcb[t].state after the suspension, READY having left the ready queue *)
ForceWait(k, t) ==
    CASE k.tcb[t].state = "READY" ->
            [make_non_ready(k, t) EXCEPT !.tcb[t].state = "SUSPEND"]
      [] k.tcb[t].state = "WAIT" -> [k EXCEPT !.tcb[t].state = "WAITSUS"]
      [] OTHER -> k

tk_sus_tsk(t) ==
    /\ MaySuspend(t)
    /\ Becomes(ForceWait([Kernel EXCEPT !.tcb[t].suscnt = @ + 1], t))
    /\ UNCHANGED <<ctxtsk, dispatch_disabled, pil, locked, obj>>

(* The end of a suspension *)
Resume(k, t) ==
    IF k.tcb[t].state = "SUSPEND" THEN make_ready(k, t)
    ELSE [k EXCEPT !.tcb[t].state = "WAIT"]

tk_rsm_tsk(t) ==
    /\ tcb[t].state \in {"SUSPEND", "WAITSUS"}
    /\ LET k == [Kernel EXCEPT !.tcb[t].suscnt = @ - 1]
       IN  Becomes(IF k.tcb[t].suscnt = 0 THEN Resume(k, t) ELSE k)
    /\ UNCHANGED <<ctxtsk, dispatch_disabled, pil, locked, obj>>

tk_frsm_tsk(t) ==
    /\ tcb[t].state \in {"SUSPEND", "WAITSUS"}
    /\ Becomes(Resume([Kernel EXCEPT !.tcb[t].suscnt = 0], t))
    /\ UNCHANGED <<ctxtsk, dispatch_disabled, pil, locked, obj>>

(* CHECK_DISPATCH: a call that may wait is refused while dispatch is off. *)
tk_slp_tsk(t) ==
    /\ InTask(t) /\ pil = 0
    /\ Becomes(IF tcb[t].wupcnt > 0
                 THEN [Kernel EXCEPT !.tcb[t].wupcnt = @ - 1]
                 ELSE make_wait(Kernel, t, "slp"))
    /\ UNCHANGED <<ctxtsk, dispatch_disabled, pil, locked, obj>>

tk_wup_tsk(t) ==
    /\ \/ Waiting(t) /\ tcb[t].wspec = "slp" /\ Becomes(make_non_wait(Kernel, t))
       \/ /\ task_alive(t) /\ ~(Waiting(t) /\ tcb[t].wspec = "slp")
          /\ tcb[t].wupcnt < MaxWup
          /\ Becomes([Kernel EXCEPT !.tcb[t].wupcnt = @ + 1])
    /\ UNCHANGED <<ctxtsk, dispatch_disabled, pil, locked, obj>>

tk_can_wup(t) ==
    /\ tcb[t].state \notin {"NONEXIST", "DORMANT"}
    /\ tcb' = [tcb EXCEPT ![t].wupcnt = 0]
    /\ UNCHANGED <<ready_queue, wtskq, schedtsk, ctxtsk, dispatch_disabled,
                   pil, locked, obj>>

(* wait_release by tk_rel_wai, or by the service the task waits for *)
tk_rel_wai(t) ==
    /\ Waiting(t)
    /\ Becomes(make_non_wait(Kernel, t))
    /\ UNCHANGED <<ctxtsk, dispatch_disabled, pil, locked, obj>>

-----------------------------------------------------------------------------
(* The timer interrupt: the task that runs is charged a period, then the   *)
(* waits whose time has come end.  At most one ends per interrupt here     *)
(* (due is NULL when none does); any waiting task may have set a timeout.  *)
Charged(k) ==
    IF ctxtsk # NULL /\ schedtsk = ctxtsk
    THEN [time_slice_schedule(k, ctxtsk) EXCEPT !.sched = SliceHead(k, ctxtsk)]
    ELSE k

timer_handler(due) ==
    /\ due # NULL => Waiting(due)
    /\ Becomes(IF due = NULL THEN Charged(Kernel)
               ELSE make_non_wait(Charged(Kernel), due))
    /\ UNCHANGED <<ctxtsk, dispatch_disabled, pil, locked, obj>>

tk_dis_dsp(t) ==
    /\ InTask(t)
    /\ dispatch_disabled' = TRUE /\ pil' = 1
    /\ UNCHANGED <<tcb, ready_queue, wtskq, schedtsk, ctxtsk, locked, obj>>

tk_ena_dsp(t) ==
    /\ InTask(t)
    /\ dispatch_disabled' = FALSE /\ pil' = 0
    /\ UNCHANGED <<tcb, ready_queue, wtskq, schedtsk, ctxtsk, locked, obj>>

(* The dispatcher saves the task and forgets it, accepts interrupts while  *)
(* no task is ready, and takes whichever task schedtsk names at the end.   *)
DispatchOut ==
    /\ ctxtsk # NULL /\ schedtsk # ctxtsk /\ pil = 0
    /\ ctxtsk' = NULL
    /\ UNCHANGED <<tcb, ready_queue, wtskq, schedtsk, dispatch_disabled, pil,
                   locked, obj>>

DispatchIn ==
    /\ ctxtsk = NULL /\ schedtsk # NULL
    /\ ctxtsk' = schedtsk
    /\ UNCHANGED <<tcb, ready_queue, wtskq, schedtsk, dispatch_disabled, pil,
                   locked, obj>>

-----------------------------------------------------------------------------
(* fault: a lock that nobody waits for is taken for free *)
LockUncontended(l) == wtskq[l] = <<>>

(* LockOBJ.  The calls that use it check first that dispatch is enabled.   *)
(* A task that finds the lock taken leaves the ready queue for the queue   *)
(* of the lock, READY all the while, and tries again when it runs next.    *)
LockFree(l) == ~locked[l]

TakeLock(t, l) ==
    /\ locked' = [locked EXCEPT ![l] = TRUE]
    /\ tcb' = [tcb EXCEPT ![t].klocked = TRUE]
    /\ ready_queue' = [ready_queue EXCEPT !.klocktsk = t]
    /\ UNCHANGED <<wtskq, schedtsk>>

QueueForLock(t, l) ==
    LET gone == Delete(Kernel, t)
        k    == [gone EXCEPT !.tcb[t].klockwait = TRUE,
                             !.wtskq[l] = Append(@, t)]
    IN  /\ Becomes([k EXCEPT !.sched = Chosen(k)])
        /\ UNCHANGED locked

LockOBJ(t, l) ==
    /\ Running(t) /\ pil = 0
    /\ obj[t] \in {NULL, l} /\ ~tcb[t].klocked
    /\ obj' = [obj EXCEPT ![t] = l]
    /\ IF LockFree(l) THEN TakeLock(t, l) ELSE QueueForLock(t, l)
    /\ UNCHANGED <<ctxtsk, dispatch_disabled, pil>>

(* UnlockOBJ: the lock goes to the task that has waited longest. *)
Unlocked(k, t, l) ==
    LET free == [k EXCEPT !.tcb[t].klocked = FALSE, !.rq.klocktsk = NULL]
        heir == Head(k.wtskq[l])
        held == [free EXCEPT
                   !.tcb[heir].klockwait = FALSE,
                   !.tcb[heir].klocked = TRUE,
                   !.wtskq[l] = Tail(@),
                   !.rq = ready_queue_insert_top(free.rq, heir,
                                                 k.tcb[heir].priority, TRUE)]
        next == IF k.wtskq[l] = <<>> THEN free ELSE held
    IN  [next EXCEPT !.sched = Chosen(next)]

(* fault: the lock is marked free although it was handed over *)
FreedAlways(l) == [locked EXCEPT ![l] = FALSE]

(* OBJLOCK.wtskq.next after the lock was given up *)
FreedLock(l) == [locked EXCEPT ![l] = wtskq[l] # <<>>]

InSection(t, l) == Running(t) /\ obj[t] = l /\ tcb[t].klocked

UnlockOBJ(t, l) ==
    /\ InSection(t, l)
    /\ Becomes(Unlocked(Kernel, t, l))
    /\ locked' = FreedLock(l)
    /\ obj' = [obj EXCEPT ![t] = NULL]
    /\ UNCHANGED <<ctxtsk, dispatch_disabled, pil>>

(* tk_get_mpf without a free block: the task begins to wait and gives the  *)
(* lock back in the same critical section.                                 *)
WaitAndUnlock(t, l) ==
    /\ InSection(t, l)
    /\ Becomes(Unlocked(make_wait(Kernel, t, "mpf"), t, l))
    /\ locked' = FreedLock(l)
    /\ obj' = [obj EXCEPT ![t] = NULL]
    /\ UNCHANGED <<ctxtsk, dispatch_disabled, pil>>

-----------------------------------------------------------------------------
(* The initial task has been created and started; force_dispatch follows. *)
Init ==
    /\ \E t \in Tasks, p \in Pri :
        /\ tcb = [u \in Tasks |-> IF u = t
                                  THEN [Dormant(p) EXCEPT !.state = "READY"]
                                  ELSE FreeTCB]
        /\ ready_queue = ready_queue_insert(ready_queue_initialize, t, p, FALSE)
        /\ schedtsk = t
    /\ wtskq = [l \in Locks |-> <<>>]
    /\ ctxtsk = NULL
    /\ dispatch_disabled = FALSE
    /\ pil = 0
    /\ locked = [l \in Locks |-> FALSE]
    /\ obj = [t \in Tasks |-> NULL]

LifeCycle(t) ==
    \/ \E p \in Pri : tk_cre_tsk(t, p)
    \/ tk_del_tsk(t)
    \/ tk_sta_tsk(t)
    \/ tk_ext_tsk(t)
    \/ tk_exd_tsk(t)
    \/ tk_ter_tsk(t)

Attached(t) ==
    \/ tk_sus_tsk(t)
    \/ tk_rsm_tsk(t)
    \/ tk_frsm_tsk(t)
    \/ tk_slp_tsk(t)
    \/ tk_wup_tsk(t)
    \/ tk_can_wup(t)
    \/ tk_rel_wai(t)

Scheduling ==
    \/ \E t \in Tasks, p \in Pri : tk_chg_pri(t, p)
    \/ \E p \in Pri : tk_rot_rdq(p)
    \/ \E t \in Tasks, s \in SliceTimes : tk_chg_slt(t, s)
    \/ \E due \in Tasks \cup {NULL} : timer_handler(due)
    \/ \E t \in Tasks : tk_dis_dsp(t) \/ tk_ena_dsp(t)
    \/ DispatchOut
    \/ DispatchIn

Locking(t, l) == LockOBJ(t, l) \/ UnlockOBJ(t, l) \/ WaitAndUnlock(t, l)

Next ==
    \/ \E t \in Tasks : LifeCycle(t) \/ Attached(t)
    \/ Scheduling
    \/ \E t \in Tasks, l \in Locks : Locking(t, l)

Spec == Init /\ [][Next]_vars

-----------------------------------------------------------------------------
(* READY, and not in the queue of a kernel lock *)
Executable == {t \in Tasks : tcb[t].state = "READY" /\ ~tcb[t].klockwait}

LockWaiters(l) == {t \in Tasks : tcb[t].klockwait /\ obj[t] = l}

Owners(l) == {t \in Tasks : tcb[t].klocked /\ obj[t] = l}

(* TCB.tskque links a task into one queue at most, and into the right one: *)
(* a task that can execute is in the task queue of its priority, one that  *)
(* waits in LockOBJ is in the queue of that lock and still READY.  A call  *)
(* that moves a task must pick the right one of the two to take it out of. *)
QueuesExact ==
    /\ Holds(ready_queue, Executable, [t \in Tasks |-> tcb[t].priority])
    /\ \A l \in Locks : ToSet(wtskq[l]) = LockWaiters(l) /\ IsInjective(wtskq[l])
    /\ \A t \in Tasks : tcb[t].klockwait => tcb[t].state = "READY" /\ obj[t] # NULL

(* bitmap and top_priority, updated incrementally by every insertion and   *)
(* deletion, always agree with the task queues.                            *)
IndexExact == Indexed(ready_queue)

(* schedtsk is a task that can execute, and NULL only when there is none:  *)
(* the dispatcher neither resumes a task that waits nor idles while one    *)
(* is ready.                                                               *)
SchedExecutable ==
    IF Executable = {} THEN schedtsk = NULL ELSE schedtsk \in Executable

(* When no task has a kernel lock, schedtsk is the head of the highest     *)
(* priority queue, although the calls that change the queues decide one by *)
(* one whether to look at it again.                                        *)
TopScheduled ==
    (\A t \in Tasks : ~tcb[t].klocked) => schedtsk = ready_queue_top(ready_queue)

(* Whatever handlers do to the task that runs, it does not go on executing *)
(* when it is suspended, waiting or queued for a lock, and when terminated *)
(* it goes on only while it holds off dispatch: no call that may wait or   *)
(* take a lock, which are refused then, is made by a task that has ended.  *)
Ended(t) == tcb[t].state \in {"DORMANT", "NONEXIST"}

RunnerExecutable ==
    \A t \in Tasks : Running(t) =>
        \/ t \in Executable
        \/ Ended(t) /\ pil = 1 /\ dispatch_disabled /\ obj[t] = NULL

(* A lock is marked taken exactly while one task has it, no task has two,  *)
(* and nobody waits for a free lock: a suspension, a priority change or a  *)
(* termination of a waiting task loses neither the lock nor its queue.     *)
LockOwned ==
    /\ \A l \in Locks :
        /\ locked[l] <=> Owners(l) # {}
        /\ \A t, u \in Owners(l) : t = u
        /\ wtskq[l] # <<>> => locked[l]
    /\ \A t \in Tasks : tcb[t].klocked => obj[t] # NULL

(* Only the owner gives a kernel lock away: no call by another task or a   *)
(* handler, termination included, takes it from the owner.                 *)
OnlyOwnerUnlocks ==
    [][\A t \in Tasks : tcb[t].klocked /\ ~tcb'[t].klocked => ctxtsk = t]_vars

(* A wakeup is never counted for a task that sleeps: it would sleep on     *)
(* although it was woken, also when it is suspended while it sleeps.       *)
NoWakeupLost ==
    \A t \in Tasks : Waiting(t) /\ tcb[t].wspec = "slp" => tcb[t].wupcnt = 0

(* The nesting of suspensions and the state agree through waits, wakeups   *)
(* and timeouts that happen while a task is suspended.                     *)
SuspendCounted ==
    \A t \in Tasks : tcb[t].suscnt > 0 <=> tcb[t].state \in {"SUSPEND", "WAITSUS"}

(* The object locks as a pool sees them, and the promise they keep: see    *)
(* module ObjLock.                                                         *)
OwnerOf(l) == IF Owners(l) = {} THEN NULL ELSE CHOOSE t \in Owners(l) : TRUE

ObjectLock == INSTANCE ObjLock WITH
    NoTask  <- NULL,
    owner   <- [l \in Locks |-> OwnerOf(l)],
    waiters <- [l \in Locks |-> ToSet(wtskq[l])]

(* LockOBJ and UnlockOBJ, with every call that may take a waiting task out *)
(* of the queue of a lock, implement the abstract lock: no barging, and no *)
(* lock free while a task waits for it.                                    *)
ImplementsObjectLock == ObjectLock!Spec

(* ready_queue.h:41: "Multiple READY tasks with kernel lock do not exist at *)
(* the same time."                                                         *)
OneReadyOwner ==
    \A t, u \in Tasks :
        /\ tcb[t].state = "READY" /\ tcb[t].klocked
        /\ tcb[u].state = "READY" /\ tcb[u].klocked
        => t = u

(* task.h:176: dispatch_disabled records the disabling of dispatch by      *)
(* tk_dis_dsp, so no dispatch has happened since.                          *)
DisableRecorded == dispatch_disabled => pil = 1
=============================================================================
