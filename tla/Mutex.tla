------------------------------- MODULE Mutex --------------------------------
(***************************************************************************)
(* Mutexes of T-Kernel (mutex.c) and the priorities they give to tasks:    *)
(* inheritance and ceiling, along chains of tasks that wait for each       *)
(* other's mutexes, while waits time out or are cancelled, base priorities *)
(* change, mutexes are deleted and tasks are suspended and terminated.     *)
(*                                                                         *)
(* A step is a critical section.  The ready queue is module TaskSched's    *)
(* matter: here a READY task may be the one that runs.                     *)
(***************************************************************************)
EXTENDS Naturals, FiniteSetsExt, SequencesExt

CONSTANTS Tasks,
          Mutexes,
          NULL,
          NUM_PRI, \* priorities are 0 .. NUM_PRI-1, 0 the highest
          CeilPris \* the ceilings that TA_CEILING mutexes are created with

Attributes == {"TFIFO", "TPRI", "INHERIT", "CEILING"}

Pri == 0 .. NUM_PRI - 1

ASSUME MutexAssumption ==
    /\ IsFiniteSet(Tasks)
    /\ NULL \notin Tasks \cup Mutexes
    /\ NUM_PRI \in Nat \ {0}
    /\ CeilPris \subseteq Pri

VARIABLES state,     \* tcb->state; a task that does not exist is DORMANT too
          bpriority, \* tcb->bpriority; 0 in a DORMANT task, set when it starts
          priority,  \* tcb->priority, likewise
          wid,       \* the mutex a waiting task waits for, or NULL
          mtxlist,   \* the mutexes in tcb->mtxlist
          exists,    \* mtxcb->mtxid # 0
          attr,      \* mtxcb->mtxatr; "TFIFO" while the mutex does not exist
          ceilpri,   \* mtxcb->ceilpri; 0 unless attr is "CEILING"
          mtxtsk,    \* mtxcb->mtxtsk
          wait_queue,\* mtxcb->wait_queue
          circular   \* history: the application has made tasks wait in a circle

created == <<exists, attr, ceilpri>>

vars == <<state, bpriority, priority, wid, mtxlist, created, mtxtsk, wait_queue,
          circular>>

TypeOK ==
    /\ state \in [Tasks -> {"DORMANT", "READY", "WAIT", "SUSPEND", "WAITSUS"}]
    /\ bpriority \in [Tasks -> Pri]
    /\ priority \in [Tasks -> Pri]
    /\ wid \in [Tasks -> Mutexes \cup {NULL}]
    /\ mtxlist \in [Tasks -> SUBSET Mutexes]
    /\ exists \in [Mutexes -> BOOLEAN]
    /\ attr \in [Mutexes -> Attributes]
    /\ ceilpri \in [Mutexes -> Pri]
    /\ mtxtsk \in [Mutexes -> Tasks \cup {NULL}]
    /\ wait_queue \in [Mutexes -> Seq(Tasks)]
    /\ circular \in BOOLEAN

-----------------------------------------------------------------------------
(* What the functions of mutex.c change, as one value                      *)
Kernel == [state |-> state, bpri |-> bpriority, pri |-> priority, wid |-> wid,
           list |-> mtxlist, owner |-> mtxtsk, queue |-> wait_queue]

Becomes(k) ==
    /\ state' = k.state
    /\ bpriority' = k.bpri
    /\ priority' = k.pri
    /\ wid' = k.wid
    /\ mtxlist' = k.list
    /\ mtxtsk' = k.owner
    /\ wait_queue' = k.queue

Waits(k, t) == k.state[t] \in {"WAIT", "WAITSUS"}

(* Definitions marked "fault" are not the code: each is a plausible mistake *)
(* in the definition that follows it, to show that a property would see it. *)

(* fault: the queue in order of arrival *)
InsertAtTail(q, t, pri) == Append(q, t)

(* queue_insert_tpri: in front of the first task of lower priority         *)
queue_insert_tpri(q, t, pri) ==
    LET lower == {i \in DOMAIN q : pri[q[i]] > pri[t]}
    IN  InsertAt(q, IF lower = {} THEN Len(q) + 1 ELSE Min(lower), t)

(* fault: the task keeps its place *)
StaysInPlace(k, m, t) == k

gcb_change_priority(k, m, t) ==
    [k EXCEPT !.queue[m] = queue_insert_tpri(RemoveFirst(@, t), t, k.pri)]

(* The priorities that the mutexes of t lend to it *)
Lent(k, t) ==
    {ceilpri[m] : m \in {n \in k.list[t] : attr[n] = "CEILING"}} \cup
    {k.pri[Head(k.queue[m])] :
        m \in {n \in k.list[t] : attr[n] = "INHERIT" /\ k.queue[n] # <<>>}}

(* The priority release_mutex computes *)
Due(k, t) == Min({k.bpri[t]} \cup Lent(k, t))

(* A call of change_task_priority, with the hook mtx_chg_pri of a waiting  *)
(* task.  The hook may end in another call, for the owner of the mutex:    *)
(* t is the task whose priority is to become p, NULL when there is none.   *)
Call(k, t, p) == [k |-> k, t |-> t, p |-> p]

(* fault: the owner is raised and never lowered again *)
OnlyRaises(k, t, oldpri) ==
    LET m     == k.wid[t]
        moved == gcb_change_priority(k, m, t)
    IN  IF attr[m] = "INHERIT" /\ k.pri[k.owner[m]] > k.pri[t]
        THEN Call(moved, k.owner[m], k.pri[t]) ELSE Call(moved, NULL, 0)

(* fault: the owner follows whether or not anything changes *)
AlwaysFollows(k, t, oldpri) ==
    LET moved == gcb_change_priority(k, k.wid[t], t)
        owner == k.owner[k.wid[t]]
    IN  IF attr[k.wid[t]] = "INHERIT" THEN Call(moved, owner, Due(moved, owner))
        ELSE Call(moved, NULL, 0)

mtx_chg_pri(k, t, oldpri) ==
    LET m     == k.wid[t]
        moved == gcb_change_priority(k, m, t)
        owner == k.owner[m]
    IN  CASE attr[m] = "INHERIT" /\ k.pri[owner] > k.pri[t] ->
                Call(moved, owner, k.pri[t])
          [] attr[m] = "INHERIT" /\ k.pri[owner] <= k.pri[t]
                                 /\ k.pri[owner] = oldpri
                                 /\ Due(moved, owner) # oldpri ->
                Call(moved, owner, Due(moved, owner))
          [] OTHER -> Call(moved, NULL, 0)

ChangeOne(c) ==
    LET k == [c.k EXCEPT !.pri[c.t] = c.p]
    IN  IF Waits(k, c.t) /\ attr[k.wid[c.t]] # "TFIFO"
        THEN mtx_chg_pri(k, c.t, c.k.pri[c.t])
        ELSE Call(k, NULL, 0)

NextCall(c) == IF c.t = NULL THEN c ELSE ChangeOne(c)

(* The nested calls: as deep as there are tasks, see ChainEnds.            *)
NestedCalls(k, t, p) ==
    LET calls[i \in Nat] ==
            IF i = 0 THEN Call(k, t, p) ELSE NextCall(calls[i - 1])
    IN  calls[Cardinality(Tasks)]

change_task_priority(k, t, p) == NestedCalls(k, t, p).k

reset_priority(k, t) ==
    IF Due(k, t) = k.pri[t] THEN k ELSE change_task_priority(k, t, Due(k, t))

release_mutex(k, t, m) == reset_priority([k EXCEPT !.list[t] = @ \ {m}], t)

(* wait_cancel takes the task out of the wait queue and leaves its state.  *)
wait_cancel(k, t) == [k EXCEPT !.queue[k.wid[t]] = RemoveFirst(@, t)]

(* make_non_wait for the tasks U *)
NonWait(k, U) ==
    [k EXCEPT !.state = [u \in Tasks |->
                            IF u \notin U THEN @[u]
                            ELSE IF @[u] = "WAIT" THEN "READY" ELSE "SUSPEND"],
              !.wid = [u \in Tasks |-> IF u \in U THEN NULL ELSE @[u]]]

wait_release(k, t) == NonWait(wait_cancel(k, t), {t})

(* fault: the owner keeps the priority it inherited *)
KeepsInherited(k, t, m) == k

(* The hook of a wait that ends without the mutex: t waited for m.         *)
mtx_rel_wai(k, t, m) ==
    IF attr[m] = "INHERIT" /\ k.pri[k.owner[m]] = k.pri[t]
    THEN reset_priority(k, k.owner[m]) ELSE k

(* The mutexes M are given up: each goes to the head of its queue, if any. *)
(* An heir does not wait any more when its priority changes: it becomes    *)
(* that of the ceiling where that is higher, and nobody else is concerned. *)
HandOver(k, M) ==
    LET passed  == {m \in M : k.queue[m] # <<>>}
        Heir(m) == Head(k.queue[m])
        Gets(u) == {m \in passed : Heir(m) = u}
        Ceil(u) == {ceilpri[m] : m \in {n \in Gets(u) : attr[n] = "CEILING"}}
    IN  [NonWait(k, {Heir(m) : m \in passed}) EXCEPT
            !.queue = [m \in Mutexes |-> IF m \in passed THEN Tail(@[m]) ELSE @[m]],
            !.owner = [m \in Mutexes |-> IF m \in passed THEN Heir(m)
                                         ELSE IF m \in M THEN NULL ELSE @[m]],
            !.list  = [u \in Tasks |-> @[u] \cup Gets(u)],
            !.pri   = [u \in Tasks |-> Min({@[u]} \cup Ceil(u))]]

(* fault: the mutexes are freed, and their waiters forgotten *)
FreesAll(k, t) ==
    [k EXCEPT !.owner = [m \in Mutexes |-> IF m \in k.list[t] THEN NULL ELSE @[m]]]

signal_all_mutex(k, t) == HandOver(k, k.list[t])

(* _ter_tsk: the hook is called while t is still in its wait state.        *)
_ter_tsk(k, t) ==
    signal_all_mutex(IF Waits(k, t) THEN mtx_rel_wai(wait_cancel(k, t), t, k.wid[t])
                     ELSE k, t)

make_dormant(k, t) ==
    [k EXCEPT !.state[t] = "DORMANT", !.bpri[t] = 0, !.pri[t] = 0,
              !.wid[t] = NULL, !.list[t] = {}]

-----------------------------------------------------------------------------
task_alive(t) == state[t] # "DORMANT"

(* The task that makes a call *)
Running(t) == state[t] = "READY"

(* Only the running task of the highest priority may call what can wait:   *)
(* CHECK_DISPATCH has found dispatch enabled.                              *)
Dispatched(t) ==
    Running(t) /\ \A u \in Tasks : Running(u) => priority[t] <= priority[u]

(* Tasks that wait for each other in a circle *)
Circle ==
    \E S \in (SUBSET Tasks) \ {{}} :
        \A t \in S : Waits(Kernel, t) /\ mtxtsk[wid[t]] \in S

tk_sta_tsk(t, p) ==
    /\ state[t] = "DORMANT"
    /\ Becomes([Kernel EXCEPT !.state[t] = "READY", !.bpri[t] = p, !.pri[t] = p])
    /\ UNCHANGED <<created, circular>>

tk_ext_tsk(t) ==
    /\ Running(t)
    /\ Becomes(make_dormant(_ter_tsk(Kernel, t), t))
    /\ UNCHANGED <<created, circular>>

tk_ter_tsk(t) ==
    /\ task_alive(t)
    /\ Becomes(make_dormant(_ter_tsk(Kernel, t), t))
    /\ UNCHANGED <<created, circular>>

tk_sus_tsk(t) ==
    /\ state[t] \in {"READY", "WAIT"}
    /\ state' = [state EXCEPT ![t] = IF @ = "READY" THEN "SUSPEND" ELSE "WAITSUS"]
    /\ UNCHANGED <<bpriority, priority, wid, mtxlist, created, mtxtsk,
                   wait_queue, circular>>

tk_rsm_tsk(t) ==
    /\ state[t] \in {"SUSPEND", "WAITSUS"}
    /\ state' = [state EXCEPT ![t] = IF @ = "SUSPEND" THEN "READY" ELSE "WAIT"]
    /\ UNCHANGED <<bpriority, priority, wid, mtxlist, created, mtxtsk,
                   wait_queue, circular>>

(* chg_pri_mutex: a base priority above a ceiling of a mutex that the task *)
(* has or waits for is refused, and the priorities lent to it stay.        *)
Ceilings(t) ==
    {ceilpri[m] : m \in {n \in mtxlist[t] \cup ({wid[t]} \ {NULL}) : attr[n] = "CEILING"}}

tk_chg_pri(t, p) ==
    /\ task_alive(t)
    /\ \A c \in Ceilings(t) : p >= c
    /\ LET k == [Kernel EXCEPT !.bpri[t] = p]
       IN  Becomes(change_task_priority(k, t, Due(k, t)))
    /\ UNCHANGED <<created, circular>>

tk_cre_mtx(m, mtxatr, ceil) ==
    /\ ~exists[m]
    /\ mtxatr # "CEILING" => ceil = 0
    /\ mtxatr = "CEILING" => ceil \in CeilPris
    /\ exists' = [exists EXCEPT ![m] = TRUE]
    /\ attr' = [attr EXCEPT ![m] = mtxatr]
    /\ ceilpri' = [ceilpri EXCEPT ![m] = ceil]
    /\ UNCHANGED <<state, bpriority, priority, wid, mtxlist, mtxtsk, wait_queue,
                   circular>>

(* tk_del_mtx, with wait_delete: no hook is called for the tasks it wakes. *)
wait_delete(k, m) ==
    [NonWait(k, ToSet(k.queue[m])) EXCEPT !.queue[m] = <<>>]

tk_del_mtx(m) ==
    /\ exists[m]
    /\ LET freed == IF mtxtsk[m] = NULL THEN Kernel
                    ELSE release_mutex(Kernel, mtxtsk[m], m)
       IN  Becomes([wait_delete(freed, m) EXCEPT !.owner[m] = NULL])
    /\ exists' = [exists EXCEPT ![m] = FALSE]
    /\ attr' = [attr EXCEPT ![m] = "TFIFO"]
    /\ ceilpri' = [ceilpri EXCEPT ![m] = 0]
    /\ UNCHANGED circular

(* fault: any task may lock below a ceiling *)
MayLockAnyBase(t, m) == Dispatched(t) /\ exists[m] /\ mtxtsk[m] # t

MayLock(t, m) ==
    /\ Dispatched(t) /\ exists[m] /\ mtxtsk[m] # t
    /\ attr[m] = "CEILING" => bpriority[t] >= ceilpri[m]

(* tk_loc_mtx when the mutex is free *)
Take(t, m) ==
    /\ MayLock(t, m) /\ mtxtsk[m] = NULL
    /\ LET own == [Kernel EXCEPT !.owner[m] = t, !.list[t] = @ \cup {m}]
       IN  Becomes(IF attr[m] = "CEILING" /\ priority[t] > ceilpri[m]
                   THEN change_task_priority(own, t, ceilpri[m]) ELSE own)
    /\ UNCHANGED <<created, circular>>

(* tk_loc_mtx when another task has it: that task inherits the priority    *)
(* before the caller is in the queue.                                      *)
RaiseOwner(k, t, m) ==
    IF attr[m] = "INHERIT" /\ k.pri[k.owner[m]] > k.pri[t]
    THEN change_task_priority(k, k.owner[m], k.pri[t]) ELSE k

Enqueue(k, t, m) ==
    [k EXCEPT !.state[t] = "WAIT", !.wid[t] = m,
              !.queue[m] = IF attr[m] = "TFIFO" THEN Append(@, t)
                           ELSE queue_insert_tpri(@, t, k.pri)]

Block(t, m) ==
    /\ MayLock(t, m) /\ mtxtsk[m] # NULL
    /\ Becomes(Enqueue(RaiseOwner(Kernel, t, m), t, m))
    /\ circular' = (circular \/ Circle')
    /\ UNCHANGED created

tk_loc_mtx(t, m) == Take(t, m) \/ Block(t, m)

tk_unl_mtx(t, m) ==
    /\ Running(t) /\ exists[m] /\ mtxtsk[m] = t
    /\ Becomes(HandOver(release_mutex(Kernel, t, m), {m}))
    /\ UNCHANGED <<created, circular>>

(* The end of a wait by a timeout, or by tk_rel_wai of a task or handler   *)
EndWait(t) ==
    /\ Waits(Kernel, t)
    /\ Becomes(mtx_rel_wai(wait_release(Kernel, t), t, wid[t]))
    /\ UNCHANGED <<created, circular>>

-----------------------------------------------------------------------------
Init ==
    /\ state = [t \in Tasks |-> "DORMANT"]
    /\ bpriority = [t \in Tasks |-> 0]
    /\ priority = [t \in Tasks |-> 0]
    /\ wid = [t \in Tasks |-> NULL]
    /\ mtxlist = [t \in Tasks |-> {}]
    /\ exists = [m \in Mutexes |-> FALSE]
    /\ attr = [m \in Mutexes |-> "TFIFO"]
    /\ ceilpri = [m \in Mutexes |-> 0]
    /\ mtxtsk = [m \in Mutexes |-> NULL]
    /\ wait_queue = [m \in Mutexes |-> <<>>]
    /\ circular = FALSE

(* A wait queue has a task in it that does not wait: its link is then      *)
(* shared with the next queue the task enters, and no queue can be relied  *)
(* on.  What happens from there on is not modelled.                        *)
Broken == \E m \in Mutexes : \E t \in ToSet(wait_queue[m]) : ~Waits(Kernel, t)

Next ==
    /\ ~Broken
    /\ \/ \E t \in Tasks :
            \/ \E p \in Pri : tk_sta_tsk(t, p) \/ tk_chg_pri(t, p)
            \/ tk_ext_tsk(t) \/ tk_ter_tsk(t)
            \/ tk_sus_tsk(t) \/ tk_rsm_tsk(t)
            \/ EndWait(t)
            \/ \E m \in Mutexes : tk_loc_mtx(t, m) \/ tk_unl_mtx(t, m)
       \/ \E m \in Mutexes, a \in Attributes, p \in Pri : tk_cre_mtx(m, a, p)
       \/ \E m \in Mutexes : tk_del_mtx(m)

Spec == Init /\ [][Next]_vars

-----------------------------------------------------------------------------
(* The owner of a mutex and the list of its owner agree through every way  *)
(* a mutex changes hands, and nobody waits for a mutex without an owner or *)
(* a deleted one: no unlock, termination or deletion leaves a waiter behind.*)
OwnershipExact ==
    \A m \in Mutexes :
        /\ \A t \in Tasks : m \in mtxlist[t] <=> mtxtsk[m] = t
        /\ mtxtsk[m] # NULL => exists[m] /\ task_alive(mtxtsk[m])
        /\ wait_queue[m] # <<>> => mtxtsk[m] # NULL

(* wait.h:49: a task whose wait is cancelled is out of the wait queue      *)
(* ("Remove the task from the timer queue and the wait queue"), so that    *)
(* the tasks in the queue of a mutex are those that wait for it.           *)
CancelRemoves ==
    \A m \in Mutexes : ToSet(wait_queue[m]) \subseteq {t \in Tasks : Waits(Kernel, t)}

(* The queue of a mutex holds the tasks that wait for it and no others,    *)
(* once, each in front of those of lower priority, however priorities      *)
(* change meanwhile and whichever call ends a wait ("no others", while     *)
(* tasks have never waited for each other in a circle).                    *)
WaitQueuesExact ==
    /\ ~circular => CancelRemoves
    /\ \A m \in Mutexes :
        LET q == wait_queue[m]
        IN  /\ \A t \in Tasks : Waits(Kernel, t) /\ wid[t] = m => t \in ToSet(q)
            /\ IsInjective(q)
            /\ attr[m] # "TFIFO" =>
                \A i, j \in DOMAIN q :
                    i < j /\ Waits(Kernel, q[i]) /\ Waits(Kernel, q[j])
                    => priority[q[i]] <= priority[q[j]]

(* mutex.c:113: the priority of a task is the highest of its base priority *)
(* and of those in all mutexes it locks, after every call, wherever in a   *)
(* chain of waiting tasks the change began.                                *)
PriorityExact ==
    ~circular =>
        \A t \in Tasks : task_alive(t) => priority[t] = Due(Kernel, t)

(* The tasks whose priority t must have: those that wait, directly or      *)
(* along a chain, for an inheritance mutex of t                            *)
HasHeirs(S) ==
    \A u \in Tasks :
        Waits(Kernel, u) /\ attr[wid[u]] = "INHERIT" /\ mtxtsk[wid[u]] \in S => u \in S

Heirs(t) ==
    {u \in Tasks : \A S \in SUBSET Tasks : t \in S /\ HasHeirs(S) => u \in S}

OwnPriority(t) ==
    Min({bpriority[t]} \cup {ceilpri[m] : m \in {n \in mtxlist[t] : attr[n] = "CEILING"}})

(* Inheritance along chains is transitive and is taken back in full: the   *)
(* priority of a task is the highest that it, or a task blocked by it, has *)
(* of its own.  The code never computes this closure; it adjusts one owner *)
(* after another.                                                          *)
InheritanceExact ==
    ~circular =>
        \A t \in Tasks :
            task_alive(t) => priority[t] = Min({OwnPriority(u) : u \in Heirs(t)})

(* No task with a ceiling mutex, or waiting for one, gets a base priority  *)
(* above the ceiling, whenever the base priority changes; and the owner    *)
(* runs at the ceiling at least.                                           *)
CeilingKept ==
    \A t \in Tasks :
        /\ \A c \in Ceilings(t) : bpriority[t] >= c
        /\ \A m \in mtxlist[t] : attr[m] = "CEILING" => priority[t] <= ceilpri[m]

(* The recursion change_task_priority - mtx_chg_pri, which runs on the     *)
(* stack of whoever calls with interrupts disabled, ends, and is no deeper *)
(* than there are tasks, from every state and for every new priority, also *)
(* when the tasks wait for each other in a circle.                         *)
ChainEnds ==
    \A t \in Tasks, p \in Pri : task_alive(t) => NestedCalls(Kernel, t, p).t = NULL

(* A mutex with a queue by priority goes to a waiting task of the highest  *)
(* priority that waits for it: of those that they have when the call is    *)
(* made, for the calls that come before the hand-over do not touch them    *)
(* while the tasks have never waited for each other in a circle.           *)
HighestHeir ==
    [][~circular => \A m \in Mutexes :
        /\ mtxtsk[m] # NULL /\ mtxtsk'[m] \notin {NULL, mtxtsk[m]}
        /\ attr[m] # "TFIFO"
        => \A t \in ToSet(wait_queue[m]) : priority[mtxtsk'[m]] <= priority[t]]_vars
=============================================================================
