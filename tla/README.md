# A TLA+ verification of the T-Kernel of SpaceCubeMK4

This directory holds TLA+ specifications of the kernel in this repository
(T-Kernel 2.0 with the T2EX extensions, ported to the LEON5 processor), the
configurations with which TLC checks them, and theorems about them that TLAPS
checks. Paths below are relative to `src/`; `tkernel/` stands for
`kernel/tkernel/src/`.

`PROJECT.json` is the index: components, runs, mutants, the map from every
definition to its lines of source, findings, hazards and theorems.

## 1. The system

T-Kernel is a real-time kernel for one processor. Tasks are scheduled
preemptively by fixed priority; interrupt handlers may make most of the calls
that do not wait. There is no memory protection in this configuration, nothing
is persistent, and there is one processor: the concurrency is that of tasks and
interrupt handlers between **critical sections**, i.e. sections that run with
interrupts disabled (`BEGIN_CRITICAL_SECTION`, `cpu_status.h:34-37`).
In every module **one step is one critical section**, or a piece of code between
two of them.

| component | state | operations | talks to |
|---|---|---|---|
| ready queue (`tkernel/ready_queue.h`) | a task queue per priority, bitmap, top priority, `klocktsk` | insert, insert_top, delete, rotate, move_last, top | called by everything below |
| scheduling (`tkernel/task.c`) | TCBs, `schedtsk`, `ctxtsk` | make_ready, make_non_ready, reschedule, change_task_priority, rotate, time slices | ready queue, dispatcher |
| dispatcher (`kernel/sysdepend/cpu/leon5`) | `ctxtsk`, interrupt level, `dispatch_disabled` | dispatch, force_dispatch, tk_dis_dsp, tk_ena_dsp | reads `schedtsk` |
| task management (`tkernel/task_manage.c`) | task state, priorities, slice time | create, delete, start, exit, terminate, change priority, rotate, release wait | scheduling, mutex, SVC lock |
| task synchronisation (`tkernel/task_sync.c`) | suspension and wakeup counts | suspend, resume, sleep, wake up | scheduling |
| wait (`tkernel/wait.c`, `wait.h`) | wait queues, wait specification with two hooks | make_wait, release, cancel, delete | hooks of each object |
| object lock (`tkernel/klock.c`) | queue per lock, `klocked`, `klockwait` | LockOBJ, UnlockOBJ | manipulates the ready queue directly |
| extended SVC lock (`tkernel/klock.c`, `subsystem.c`) | a lock per task, list of locks held | LockSVC, UnlockSVC, AllUnlockSVC | svc_ientry, tk_ras_tex, call_brkhdr |
| mutex (`tkernel/mutex.c`) | owner, wait queue, list per task | create, delete, lock, unlock; hooks | change_task_priority and the hooks call each other |
| fast lock (`lib/libtk/src/fastlock.c`) | counter | Lock, Unlock | a semaphore |
| fast multi-lock (`lib/libtk/src/fastmlock.c`) | 32 flags, waiter count | MLock, MUnlock | an event flag |
| semaphore, event flag, mailbox, message buffer, rendezvous | a count, pattern, list, ring buffer; wait queues | signal/wait, set/wait, send/receive, call/accept/reply/forward | wait hooks |
| memory pools (`mempfix.c`, `mempool.c`) | free blocks, wait queue, object lock | get, release | object lock, wait hooks |
| timer, cyclic and alarm handlers (`timer.c`, `time_calls.c`) | event queue sorted by time | insert, delete, expiry | wait_release_tmout, handlers |
| subsystems, resource groups (`subsystem.c`) | SVC tables, exception state per task | define, start, clean up, event; exceptions | extended SVC lock |
| device management (`kernel/sysmgr/src`) | devices, opens, requests | open, close, read, write, wait, suspend | drivers, fast multi-lock |
| memory allocation, configuration, log, start-up, libraries, drivers, monitor, T2EX | | | see section 7 |

What is hard, per component:

* **Scheduling.** `schedtsk` is never computed from scratch: each call decides
  whether it might have changed. A task has *one* queue link, used for the ready
  queue, for lock queues and for wait queues; a call has to know which queue a
  task is in. Handlers act while the dispatcher is between two tasks.
  *Correct when* every executable task is in the queue of its priority, once;
  `schedtsk` can execute, and is the best task; suspension and wakeup counts
  survive any overlap with waits.
* **Object lock.** A task waits for it in state READY, outside of the ready
  queue, and may be suspended, terminated or given another priority there.
  *Correct when* it has one owner, no waiter is forgotten, nobody else gives it
  away.
* **Mutex.** Priorities travel along chains of owners by mutual recursion and
  have to be taken back exactly when any link of the chain goes.
* **Extended SVC lock.** A task holds several; the lock that is given up is the
  one taken last; the break function of another task must exclude entry into
  and exit from the call it breaks.
* **Fast lock, multi-lock.** The decision on the counter and the call of the
  semaphore or event flag that follows it are two steps, and waits end by
  timeout or by force in between. *Correct when* there is one owner, and no
  sleeper is forgotten.
* **Semaphore, event flag, message buffer, rendezvous.** One call may serve
  several waiting tasks, and a wait that ends for another reason (timeout, forced
  release, termination, change of priority, deletion) may let others through.
  *Correct when* nobody waits for what is there, order is kept, and an answer
  reaches the call it belongs to.
* **Timer.** Handlers run with interrupts enabled inside the loop over the event
  queue, and change the queue. *Correct when* what is started is queued, once,
  and nothing happens before its time.
* **Device management.** Opening, closing, waiting and aborting overlap; every
  call gives up its lock while the driver works. *Correct when* the driver is
  open exactly while the device is, nothing is freed while the driver works on
  it, and no task sleeps for a wakeup that will not come.

The full list, each at its line and with the properties that cover it, is under
`hazards` in `PROJECT.json`.

## 2. Modules

| module | models | extends / uses |
|---|---|---|
| `ReadyQueue` | `ready_queue.h`, as functions from a queue to the next | |
| `TaskSched` | `task.c`, `task_manage.c`, `task_sync.c`, LockOBJ/UnlockOBJ, the time slice, the dispatcher | extends `ReadyQueue`, instantiates `ObjLock` |
| `ObjLock` | what LockOBJ/UnlockOBJ promise (abstract) | |
| `Mutex` | `mutex.c` with the parts of `task.c`, `wait.c`, `task_manage.c` it calls | |
| `SvcLock` | LockSVC, UnlockSVC, AllUnlockSVC, `svc_ientry`, `tk_ras_tex`, `call_brkhdr` | |
| `FastLock` | `fastlock.c` over its semaphore | |
| `TaskPriorities` | the constants of the objects below | |
| `WaitQueue` | the priorities of tasks, and the wait queue of `wait.h`, `wait.c`, as functions | extends `TaskPriorities` |
| `Semaphore`, `EventFlag`, `MessageBuffer`, `Rendezvous` | `semaphore.c`, `eventflag.c`, `messagebuf.c`, `rendezvous.c` | extend `WaitQueue` |
| `MsgQueue` | what a message buffer promises (abstract) | instantiated by `MessageBuffer` |
| `FastMLock` | `fastmlock.c` over its event flag | extends `TaskPriorities` |
| `TimerEvents` | the event queue of `timer.c`, cyclic and alarm handlers (`time_calls.c`) | |
| `DeviceIO` | `deviceio.c`: open, close, requests, waits, abort | |
| `QueueLemmas` | lemmas about removing from, appending to and inserting into queues without repetitions, about queues in the order of a key, and about loops | no state |
| `TaskSchedProofs`, `MutexProofs`, `SvcLockProofs`, `FastLockProofs`, `FastMLockProofs`, `DeviceIOProofs` | lemmas and theorems | extend the module they are about and `QueueLemmas` |
| `WaitObjectProofs` | lemmas and theorems about `WaitQueue`, `Semaphore`, `EventFlag`, `Rendezvous` and `MessageBuffer`, and about `TimerEvents`, which ends their waits | extends these and `QueueLemmas` |
| `MC...` | instances for TLC: symmetry, values of function constants | extend the module |

`MCObjects` and `MCOwners` check several modules that share no state in one run.
Their variable `subject` names the one that moves in a behaviour; the others
stay in an initial state. Thus the number of states is the sum of those of the
modules and not their product. `MCObjects` extends the modules of the objects
(their definitions are `SemInit`, `MbfNext`, and so on); the variable `priority`
of `WaitQueue` is shared by the objects in it, each of which changes it itself. `CallPris` restricts the new priorities
in `Rendezvous` so that only runs that need them have them. `MCOwners` extends
`Mutex` and `DeviceIO`, and adds a stuttering step where one of them says that the
model stops, so that every other deadlock is found.

Each module has a few definitions marked `fault`. They are *not* the code: each
is a plausible programming mistake in the definition that follows it. The
mutants of `PROJECT.json` swap one of them in, and the named property must then
fail; so every property is known to be able to fail.

### TaskSched

* State. `tcb[t]` has the fields of the TCB that calls decide on; `ready_queue`
  those of `RDYQUE`; `schedtsk`, `ctxtsk`, `dispatch_disabled` are the variables
  of the same names; `pil` is the interrupt level of the task that runs
  (tk_dis_dsp sets 1); `wtskq` and `locked` are the two things that the
  `QUEUE` head of an `OBJLOCK` encodes (`wtskq.next # NULL` means taken);
  `obj[t]` says which pool call `t` is inside of.
* `Kernel` gathers what the functions of `task.c` change into a record, so that
  a call that runs several of them in one critical section is a composition:
  `make_ready(k, t)`, `make_wait`, `change_task_priority`, and so on, each named
  as in the source. `schedtsk` is updated where the source updates it, with the
  same conditions, never recomputed.
* Callers. `InTask(t)` guards calls that only the running task makes; a call
  without such a guard may also come from an interrupt handler, at any time, also
  inside the dispatcher (`ctxtsk = NULL`). `CHECK_NONSELF` does not restrain a
  handler (`check.h:132-136`), so `tk_ter_tsk` and `tk_del_tsk` have no guard for
  it: the task may be the one that runs, also while dispatch is disabled. Such a
  task goes on until `tk_ena_dsp`. What the *end* of a task does that a handler has
  terminated and deleted meanwhile is undefined (its TCB and its stack are free)
  and is not modelled (`Leave`).
* The dispatcher is two steps, `DispatchOut` (save, forget `ctxtsk`) and
  `DispatchIn` (take what `schedtsk` names): handlers act in between.
* `Running(t)`: `ctxtsk = t`, and no dispatch is due that the interrupt level
  lets through.
* The clients of object locks are the calls of the fixed-size memory pool.
  `WaitAndUnlock` is `tk_get_mpf` without a free block: it starts to wait and
  unlocks in one critical section (`mempfix.c:301-311`).
* Left out: mutexes and inherited priorities (module `Mutex`), wait objects other
  than sleep and the memory pool, task events, registers and stacks, resource
  groups, wait disabling.

### Mutex

`Kernel` again is a record. `change_task_priority` and `mtx_chg_pri` call each
other; `mtx_chg_pri` ends in at most one further call, so one round of the
recursion is an operator that returns the next call to make (`NextCall`), and the
recursion is a recursive function of at most `Cardinality(Tasks)` rounds
(`NestedCalls`). That this bound is enough is itself a property, `ChainEnds`.
The loop of `signal_all_mutex` over the list of a task, and the hand-over of one
mutex in `tk_unl_mtx`, are one definition in closed form, `HandOver`: an heir does
not wait any more when its priority is raised to a ceiling, so the change goes no
further, and the order in which the mutexes are handed over does not matter.
`wait_delete`, a loop over a queue, has a closed form for the same reason: no
hook runs in it. `_ter_tsk` calls the release hook
while the task is still in its wait state, as the source does. The attribute and
the ceiling of a mutex are variables: `tk_cre_mtx` chooses them, and a mutex may
be deleted and created anew with others.

`circular` is a history variable: it becomes TRUE when a task starts to wait for
a mutex whose owner waits, directly or along a chain, for that task (`Circle`
holds then). The kernel does not prevent such circles. `PriorityExact`, `InheritanceExact`,
`HighestHeir` and a part of `WaitQueuesExact` are stated for executions in which
it is FALSE; the other properties hold also after it.

`Broken`: in one case (finding `mutex_terminate`) a dormant task stays in a wait
queue. Its link is then shared by two queues, and what happens afterwards
depends on memory contents; the model stops there. That is why
`MCMutexTerminate.cfg` has `CHECK_DEADLOCK FALSE`.

### SvcLock

`calls[t]` is the stack of calls `t` is inside of: extended SVCs (`svc`) and
exceptions it raises (`ras`). Each has a place: before LockSVC, in the section,
in the handler or break function, before the second LockSVC, before the last
UnlockSVC. `svclocked[t]` is the linked list through `locklist`. AllUnlockSVC is
a loop of UnlockSVC; the model states its result for all locks of the task at
once (each goes to the head of its own queue, no two to the same task, since a
task waits in one queue). `HeldAsNested` reads the list off the stack: the locks
of the sections that the task is in, the innermost first. Three constants
separate what the kernel guarantees from what it relies on (`tk_ter_tsk` may come
from the running task or from a handler that has interrupted it, and then may end
that very task):

* `MayReenter`: a task takes a lock that it has;
* `BreakRaises`: a break function raises exceptions. With TRUE, `NoCircle` does
  not hold: two tasks whose break functions raise exceptions to each other wait
  for ever;
* `MayTerminateHolder`: a task that has a lock is terminated by another.

### FastLock

`pc` says where each task is between the counter and the semaphore call. The
semaphore is created by CreateLock with count 0 and maximum 1; its calls are
modelled from `semaphore.c`, ordered by priority, with E_QOVR. tk_rel_wai may
end the wait of a task in Lock at any time; the history variable `forced`
records that it has happened. `MutualExclusion` and `NoSignalOverflow` are stated
for executions in which it has not (see the observations in section 3), the
other properties for all.

*Fairness.* `FairSpec` has weak fairness for every step after the first of
Lock: a task that runs goes on, and the user of the lock leaves the section. It
is *not* guaranteed by the kernel that a task of low priority gets the
processor: the assumption is that tasks other than the ones at the lock do not
keep it for ever, and that the sections terminate. There is no fairness for
beginning to lock, so nothing depends on tasks coming back. Only
`TopTaskServed` uses it. It is stated for the one task of highest priority
because others may starve: a queue by priority promises them nothing.

### Semaphore, EventFlag, MessageBuffer, Rendezvous

A step is one system call, or the end of one wait. The wait queue of the object
is a sequence of tasks, ordered as `gcb_make_wait` and `queue_insert_tpri` order
it. A change of priority (`sem_chg_pri`, `mbf_chg_pri`, and so on: `tk_chg_pri` with
the hook of the object) and the end of a wait (`EndSemWait`, `EndMbfWait`, and so on:
timeout, `tk_rel_wai`, termination, with hooks like `mbf_rel_wai`) are one step,
because the hooks serve other tasks in the same critical section. Objects are created with any
attributes and deleted, so that `del` meets waiting tasks.

* `Semaphore`: `ServeNext` is one round of the loop of `tk_sig_sem`; with TA_CNT
  the loop goes on behind a request that does not fit. The history variable
  `served` holds the tasks the last step gave resources.
* `EventFlag`: a pattern is a set of bits. `ReleaseNext` is one round of the loop
  of `tk_set_flg`, which ends early when a released task has cleared all bits.
* `MessageBuffer`: the ring is kept word by word. A word holds a size or a part
  of a message; what was read is forgotten, so that reading it again is an
  error the refinement notices. `StoreNext` is one round of the loop of
  `mbf_wakeup`. The refinement mapping to `MsgQueue` (`Stored`) walks the ring
  from its head, one message a round (`NextStored`). Messages are identities with
  sizes.
* `Rendezvous`: numbers are counted per task (`wrdvno`); any task that does not
  wait may use any number that was given out, also old ones, because programs
  pass numbers on. Wait disabling may come at any time. The number has 16 bits
  in the code; the model stops before it comes round (`RdvLimit`).

### FastMLock

Inc, bit test-and-set, the wait for the flag, Dec, bit reset, the look at the
counter and the set of the flag are steps of their own; the event flag serves
all lock numbers, so a bit that nobody waited for stays set and wakes a later
task for nothing. The wait may fail (TMO_POL) or end (timeout, force) at any
time; MLock then returns an error and the task does not have the lock.

### TimerEvents

`current_time` is the time of the last timer interrupt, `elapsed` the time since
(`adjust_time`), which may reach two periods because the interrupt may stay
pending for one (`tkdev_timer.h:67-71`). The interrupt handles one event per step (`HandleEvent`); while a
cyclic or alarm handler runs (`handling`), interrupts are enabled, and calls of
this and of other handlers are steps of their own, as is the return of the
handler. Only timer interrupts do not nest. `due` is a history variable, the
earliest time at which an event may happen, from the arguments of the call that
started it.

### DeviceIO

`opn` and `req` are the tables OpnCBtbl and ReqCBtbl, `syncq` the queue of tasks
that open or close. A step is a section between LockDM and UnlockDM; the driver
calls are the time between two steps, and the driver may succeed or fail as it
likes, except that an abort (`told`) is answered by the end of the call.
SyncWaitDM and SyncSignalDM are a wait for a semaphore whose count is always 0,
and `tk_dis_wai`, which ends the wait of one task or lets its next wait fail:
`disabled`. The result of the wait is not looked at, so a release by somebody
else (`ReleaseWait`: `tk_rel_wai`, at any time while a task sleeps there) lets the
task pass as well. LockDM is a lock of `FastMLock`, and taken as atomic because that
module shows its exclusion (see section 5).

`Served` says that the blocks the driver call returns to are still its own; when
it fails, memory is used for two things and the model stops. Two history
variables say when the code loses its hold, and the observations describe what
follows. `disturbed` becomes TRUE when a wakeup comes too early and when a wait in
SyncWaitDM is released from outside: `DriverMatches` is stated for executions in
which it is FALSE. `uncounted` becomes TRUE then too, and when a wait for any
request overlaps the start of another: `InService` is stated for executions in
which it is FALSE. `SleepersAreWoken` holds in all of them.

## 3. Runs

All bounds are constants in the `.cfg` files.

| run | instance | checks | states |
|---|---|---|---|
| `fastlock` | 4 tasks, priorities 1, 2, 2, 3 | MutualExclusion, NoSignalOverflow, SleeperHasWaker, TopTaskServed (fair) | 1,008 |
| `sched` | 3 tasks, 2 priorities, no locks, MaxSus 2, MaxWup 1 | SuspendCounted, NoWakeupLost | 92,049 |
| `sched_objlock` | 3 tasks, 2 priorities, 2 locks, MaxSus 1 | QueuesExact, LockOwned, SchedExecutable, RunnerExecutable, OnlyOwnerUnlocks, ImplementsObjectLock | 257,119 |
| `sched_slices` | 3 tasks, 2 priorities, 1 lock, slice times 0 and 1, period 1 | TopScheduled, IndexExact | 1,556,341 |
| `owners` | 3 tasks; 3 priorities and 2 mutexes of any attribute; 2 opens and 2 requests of a device | OwnershipExact, WaitQueuesExact, PriorityExact, InheritanceExact, CeilingKept, ChainEnds, HighestHeir; DriverMatches, InService, SleepersAreWoken | 1,762,332 |
| `svclock` | 3 tasks, calls nested 3 deep | HeldAsNested, LocksExact, BreakExclusive, NoCircle, DormantHasNoLock | 1,072,620 |
| `objects` | 3 tasks, 2 priorities; see below | NoneServable, ServedInOrder (semaphore); ImplementsMsgQueue, NoIdleWait (message buffer); NoneSatisfied (event flag); LockExclusive, SleeperHasUnlocker (multi-lock); NoMatchWaits, OwnAnswer (rendezvous); QueuedExactly, NeverEarly (timer) | 676,721 |

Why these bounds are enough to be interesting:

* Three tasks are an owner, a waiter and a third that interferes (terminates,
  suspends, preempts). Two priorities give a preemption and a queue of equals;
  the mutex runs have three so that a priority can be passed along a chain and
  a ceiling can lie in the middle. Three tasks and two mutexes make a chain of
  inheritance of two links, and a circle.
* `MaxSus` 2 gives nested suspension and the refusal at the maximum (INT_MAX in
  the code); `MaxWup` 1 a wakeup that is counted and one that is refused.
* With a period of 1 a slice time of 1 is charged once and over the second time,
  and 0 is "no time slice": every branch of `time_slice_schedule` is reached.
* `MaxCalls` 3 is an SVC inside a break function inside an SVC.
* Tasks, locks and mutexes are interchangeable in all runs but the fast lock's,
  whose tasks have fixed priorities.

* `objects`. Semaphore: counts up to 3, so that one signal can serve two requests
  or none. Message buffer: messages of 2, 5 and 9 bytes, which are 1, 2 and 3
  words behind a header of one, in buffers of 0 bytes (every message is handed
  over) and 24 bytes (two messages fit, the third is cut in two at the end of
  the ring). Event flag: 2 bits and 7 kinds of waits, any or all of the bits,
  clearing none, the pattern or all. Multi-lock: 2 numbers, so that the flag
  keeps bits of the other one. Rendezvous: 2 ports (one by priority, with a
  smaller answer), 2 numbers per task, so that there is an old one and a
  current one. Timer: a task, a cyclic and an alarm handler, a period of 2 and
  times of 1 and 3, i.e. within and beyond a period, up to time 6. This run has
  `CHECK_DEADLOCK FALSE` because the numbers of rendezvous and the time stop at
  their bounds.
* `owners`. Two opens of one device are a first and a last one, so the driver is
  called for either or none; two requests can be waited for one by one or both
  at once; the third task closes. syncreq is counted down no further than
  `MinSync` by the case of an uninitialised pointer (`WaitRefused`). `Opens` has
  the same elements as `Mutexes`, so that one symmetry set serves both.

Symmetry is used with invariants and with safety properties of steps only.

### Runs that end in a violation

| run | shows |
|---|---|
| `sched_two_owners` | Two READY tasks with a kernel lock, against `ready_queue.h:41`: the owner is suspended, another task takes another lock, the first resumes. |
| `sched_disable` | A task that ends with dispatch disabled leaves `dispatch_disabled` set although dispatch is enabled; later `tk_sus_tsk` refuses whichever task runs (`task_sync.c:53`). |
| `mutex_terminate` | Terminating a task on a circle of waiting tasks puts it back into a wait queue (`task_manage.c:299-302`). |
| `svclock_reenter` | LockSVC does not nest for the lock at the head of the list (`klock.c:101`), against `kernel.h:77`. |
| `svclock_terminate` | AllUnlockSVC gives up the locks of the caller, not those of the terminated task (`klock.c:167`). |

The mutex finding needs an application that deadlocks first; the one about
re-entry needs `tk_ras_tex` of the task itself with a break function that calls
an extended SVC.

### Observations without a run of their own

* Lock ignores the result of tk_wai_sem (`fastlock.c:64`): after a forced release
  the released task is in the section together with the owner. Without `~forced`
  in it, `MutualExclusion` fails in the `fastlock` instance.
* When a suspended task with a kernel lock resumes, `ready_queue_insert` makes it
  `klocktsk`, but `make_ready` chooses again only when the top priority rose
  (`task.c:212-215`): `schedtsk` need not be `klocktsk`, although
  `ready_queue.h:78` calls the task with the kernel lock the one of highest
  priority.
* A handler may terminate, and then delete, the task that runs while dispatch is
  disabled: `tk_ter_tsk` has no CHECK_INTSK, and CHECK_NONSELF lets handlers pass.
  The task goes on executing as DORMANT or NON-EXISTENT until it enables dispatch.
  Without the second case in it, `RunnerExecutable` fails in the `sched_objlock`
  instance; with it, it says that such a task has no lock and waits for none, as
  the calls that wait are refused. `make_dormant` writes the first context of a
  task to the stack that is still in use (`setup_context`), and the dispatcher saves
  the context of the task over it (`cpu_support.S:245`): when the task is started
  again it goes on where it was. Stacks and registers are not modelled; for the
  rest of the system a task that goes on in LockOBJ is like one that calls it.
* On a circle of waiting tasks `tk_del_mtx` lowers the owner before it clears the
  mutex (`mutex.c:409`), and the hooks that lead back through the mutex raise it
  again: without `~circular` in it, `PriorityExact` fails in the `owners` instance.
* `abort_allrequest` reads `abort_cnt` after it has given up its lock
  (`deviceio.c:498-503`). If the last request ended in between, its
  SyncSignalDM finds nobody asleep and stays in force: the next SyncWaitDM of the
  closing task, in the queue of tasks that open and close, returns at once. Two
  tasks are then in open or close processing at the same time, against the
  comment at `deviceio.c:374-375` and `559-560`, and a descriptor may be left open
  whose driver is closed.
* SyncWaitDM ignores the result of `tk_wai_sem` (`sysmgr.h:64-67`), as Lock of the
  fast lock does. A task that `tk_rel_wai` releases from it goes on: two tasks open
  or close at once, or a close frees requests that the driver works on. The
  wakeup sent to such a task later finds it elsewhere, and ends another wait of it.
* Without `~disturbed` in it, `DriverMatches` fails in the `owners` instance by
  either of these.
* `tk_wai_dev( dd, 0 )` refuses only while other tasks *wait* for requests: a
  request whose `execfn` still runs is put into its list, and a request can be
  started while it waits (`deviceio.c:711-715`, `857-885`). An abort then asks only
  the task that waits to end its call, although `deviceio.c:449` says "If 'execfn'
  and 'waitfn' are called, execute abort request", and counts one driver call
  where there are two; the first to return wakes the close. With `~disturbed` in
  place of `~uncounted`, `InService` fails in the `owners` instance after a few
  steps: the open is freed while the driver works for it.
* `waitcomplete` counts `syncreq` down through `opncb` also when
  `check_devdesc` has refused the descriptor and not set it (`deviceio.c:836-839`,
  `972`): when the device is closed between the two halves of a synchronous
  request. The model lets it change any block or memory outside of the table.
* MLockTmo waits again with its whole timeout every time another task was faster
  (`fastmlock.c:97`): each wait ends, their sum has no bound.
* LockSVC with dispatch disabled (`svc_ientry` has no CHECK_DISPATCH) cannot give
  up the processor and tries again for ever.

## 4. What is proved

`ASSUME`s used: those of the modules, which TLC evaluates in the runs. They say
that there is at least one priority and that priorities are natural numbers, that
tasks are finitely many for the mutexes, the wait queues and the two locks that
count them, that NULL is no task or lock, that tasks and handlers are different
things (`TimerEvents`), that the period of the timer, times, slice times, maximal
counts and the sizes of buffers are natural numbers, that a message has a byte at
least (CHECK_PAR of `tk_snd_mbf`) and `Nothing` is none, and that a wait for an event
flag has one of the modes there are. No bound on the number of tasks, priorities,
locks, ports, handlers, or on the counts, times and sizes.

**FastLockProofs.** `IInv` says that there is one *permit*: it is held by at
most one task from the time it may go on in Lock until its signal is done, or
it is the count of the semaphore; the counter is -1 only if nobody has it.
`MutualExclusion` alone is not inductive: between Dec and tk_sig_sem nobody is
in the section, and a step of a state with a count of 1 and a holder would
break it. The invariant is stated as `~forced => Permits`, and a step that
keeps `forced` FALSE starts from a state in which it was. `Exclusive` and
`SignalsFit` follow. `SleepersWoken` holds with forced releases too, and so has an
invariant of its own, `WInv`: the counter is one less than the number of tasks
past Inc that have not left (`Counted`), and the semaphore count is up only while
nobody sleeps, while a task on its way to wait has the count or somebody with a
permit before it (`Woken`). A forced release breaks `Permits`, but neither of
these: Lock returns as if the task had the lock, and it will signal.

**FastMLockProofs.** `IInv` has four parts beside the types. `Counted`: `wai` is
the number of tasks inside MLock, so MUnlock sees 0 only when nobody can be
asleep or about to be. `OneOwner` and `SetIffOwned`: a bit is set exactly while
one task owns the number, which makes the test-and-set exclusive. `Wakeable`:
nobody sleeps for a bit of the event flag that is set, and who sleeps, or is
about to, has a waker (an owner, a task that will set the flag or one that will
test the lock), or finds the bit set. The last case is what
`SleeperHasUnlocker` lacks to be inductive: between the failed test and the
wait, the unlock and its signal may both pass. Timeouts and forced releases are
steps of the proof like all others.

**TaskSchedProofs.** The inductive invariant is `TypeOK`, and

* `InKernel`: `InQueues` (task queues hold exactly the executable tasks, lock
  queues exactly the tasks that wait for the lock, index exact) and
  `SchedFrom` (schedtsk is one of the executable tasks, NULL iff none) and
  `Ranks` (unless some task has a kernel lock, `klocktsk` is NULL and schedtsk
  `Leads`: it is the head of its queue, and no priority in use is higher);
* `LockFacts`: a lock is marked taken iff some task has it, it has one owner at
  most, and waiters only when taken;
* `TaskFact`, for each task: waits for a lock only READY and inside a pool
  call; suspension count positive iff suspended; no wakeup counted while
  asleep; a DORMANT task has nothing;
* `HeldOff`: with dispatch held off (`pil = 1`) `ctxtsk` stays executable, because
  every call that could make it wait or suspend it is refused; if a handler
  terminates it, it is outside of the pool calls, dispatch is disabled and it has
  no lock.

It is needed because none of the properties stands alone: that schedtsk can
execute depends on the queues being exact, that the queue of a lock is exact on
who is suspended, and that the runner can execute on what CHECK_DISPATCH and
the refusal of `tk_sus_tsk` exclude. The proof first shows what each function of
`task.c` does to `InQueues` and `SchedFrom` (lemmas on an arbitrary `Kernel`
record), then has a lemma for every call, then combines them in `Invariant`.
The corollaries are `TypeCorrect`, `QueuesCorrect`, `IndexCorrect`,
`ScheduleCorrect`, `TopCorrect`, `RunnerCorrect`, `SuspensionsCorrect`,
`WakeupsCorrect`, `LocksCorrect`, and the
action property `UnlockCorrect`. Every call is also shown to do one thing at
most to the object locks (`LockMoves`): a task stops waiting for one, takes a
free one, queues up for a taken one, or gives its lock to a task of its queue.

`TopCorrect` needs `Leads` and not the equation of `TopScheduled`, because the
equation speaks of the top priority, and the calls compare tasks: an insertion
replaces the leader only if it raises the top priority, a deletion or a move to
the end of a queue leaves every other leader in front, and the charge of a period
to the task that runs is either to a task that no longer leads or makes the
next one of its queue lead. That schedtsk is looked at only sometimes is thus
shown to be enough.

`ObjectLockImplemented` is the refinement: the invariant lets
the abstract owner and waiters be read off the task control blocks (`ReadOff`),
and each of the moves is then a step of `ObjLock` or a stutter. So the promise of
the lock (direct hand-over, no free lock with a waiter) holds with
any number of tasks and locks, through suspensions, terminations, priority
changes and waits that begin inside the critical section.

**SvcLockProofs.** The theorems assume `~MayReenter` and `~MayTerminateHolder`:
the code takes both for granted and the runs `svclock_reenter` and
`svclock_terminate` show what happens otherwise. `NoDeadlock` assumes
`~BreakRaises` too, without which it is false. The number of tasks and the depth
of the calls are arbitrary. `IInv` is

* `LocksOK`: lists, queues, `taken` and `klockwait` agree (`RecordOK`): a lock is
  in one list at most, a lock with waiters is taken, and a task that waits is in
  the queue of the lock it asks for, once, and in no other;
* `TaskOK`, for each task: its stack has a possible shape (`Frames`: only the
  innermost call is at a section's border, calls below it run); its list is that of
  the sections it is in (`Nested`); if it waits, its innermost call asks for a lock
  that it does not have.

`Nesting` is the reason that UnlockSVC, which unlocks the head of the list
whatever it is, unlocks what was meant. `Exclusion` has an invariant of its own:
a break function that runs holds the lock of its target, so the target can
neither begin nor end a call, and the call it interrupted stays its innermost
one. `NoDeadlock` rests on two facts more: a task is in one `tk_ras_tex` at most
(`OneRas`), and "t runs or waits to run the break function of u" has no circle
(`OrderInv`), because a break function that raises nothing waits for nobody; in
a circle of waiting tasks each would break the next.

**MutexProofs.** The only assumption is `MutexAssumption` of the module: finitely
many tasks, NULL is no task or mutex, at least one priority, ceilings are
priorities. The inductive invariant `Inv` has two layers, because the kernel
lets tasks wait in a circle and some guarantees survive that and some do not.

* `Lasting` holds whatever the application does: owners and lists agree and owners
  live (`Owned`); a task that waits does so for another's mutex and is in its queue
  (`Waiting`); a queue has no task twice and belongs to an owned mutex (`Linking`);
  waiting tasks are in the order of their priorities (`InOrder`); base priorities
  respect the ceilings (`Refused`), and so do priorities (`AllLifted`).
* `Peaceful` holds while `circular` is FALSE: nobody is in a queue who does not wait
  (`AllWait`), the graph "waits for the owner of" has no circle (`Acyclic`), and
  every priority is the least of the task's claims (`AllExact`): its base priority,
  the ceilings of its mutexes, the priorities of all tasks in the queues of its
  inheritance mutexes. Claims range over whole queues where the code looks at
  heads: `DueIsLeast` shows that the head is enough.

The core is `CallsEnd`: from a state that is `Calm`, i.e. exact but for one task `o`,
the nested calls of `change_task_priority` end and leave every priority exact.
The invariant of the recursion, `Chain`, says that the tasks whose priority has
been set, `V`, form a path that ends where the next call is for, that the only
inexact task is that one, and that what the call is about to set is the
least of its claims. Acyclicity makes the next task a new one (`Fresh`), so the
calls are no more than there are tasks; and it is why the two tests of
`mtx_chg_pri` (raise the owner when its priority is lower; lower it only when it had
the old priority of the task) are enough. In `_ter_tsk` and `tk_loc_mtx` a task
is between two places while a priority changes (it still waits but is out of the
queue, or is about to wait): the set `B` of `Calm` stands for it. `HandOver` is
shown to give the mutexes away without touching anything but the heirs.

The corollaries: `OwnershipCorrect`, `WaitQueuesCorrect`, `CeilingsCorrect` and
`PrioritiesCorrect` follow from `Inv`, `HeirCorrect` from the steps. In
`InheritanceCorrect` that no heir has a higher priority is the closure of the tasks of
at most the priority of t under waiting; that some heir has it on its own follows
from the chain of tasks with that priority, which must begin somewhere as a
finite graph without circles does (`Beginning`). `ChainsCorrect` proves `ChainEnds`
only while no tasks have waited in a circle: the argument needs exact priorities.
In circles, where TLC finds that it holds too, no measure is known that makes it
inductive.

**WaitObjectProofs.** The module begins with lemmas about the wait queue that the
objects share: `gcb_make_wait`, `gcb_change_priority` and a removal keep
it `Linked` (each waiting task once, nobody else) and, with TA_TPRI, `SortedBy` the
priorities that tasks have by now. Loops over a queue are recursive functions of
the number of rounds; `QueueLemmas!Rounds` shows by induction on natural numbers
that each value is one round behind the last, and the proofs give the invariant
of a loop.

* *Semaphore.* `AfterRounds` is the invariant of the loop over the queue as it was
  when the loop began: those not looked at are all still there; with TA_CNT the
  count does not suffice for anybody looked at who is still there; without it,
  those served are the first of the queue. After the last round nobody is left
  who could be served, so `NoneServable`, which is a conjunct of `SemInv`, is
  inductive: a call that only reorders the queue, or takes a task out of it, runs
  the same loop (`Allocate`), except with TA_CNT, when there is nothing to find.
  `SemServesAll` states it. `SemInTurn` shows `ServedInOrder` for each call: who
  is served has gone before all who wait on, by place or by the priorities after
  the step.
* *Event flag.* Here a released task may clear bits, so the loop may leave tasks
  behind that were satisfied when it began. `FlgAfterRounds` says that those looked
  at who are still there are not satisfied by the bits that are *left*: bits are
  only cleared within a loop and the modes of waiting are monotonic in the bits
  (`FewerBits`); and that the search ends early only when no bit is left, which
  satisfies nobody as nobody waits for no bit (`WaitsAsked`). `FlgReleasesAll`.
* *Rendezvous.* `RdvInv` has two parts. `AtPorts`: the two queues of a port link
  exactly the tasks whose wait names that port and that role, so a task is in one
  queue of one port, and no two of them have a bit in common. It is shown for
  four kinds of change (a task leaves a queue, waits without a queue, is added as
  a caller, is added as an acceptor) and the calls are compositions of these;
  `tk_fwd_por` without an acceptor adds a caller that was in no queue. `Agreed`
  ties what a caller waits for to what it brought: while it waits for an acceptor, no
  number has been used for the call after the next one; while it waits for the
  end, the number is its last; the answer never outgrows the buffer, since a
  forwarding refuses a port with longer answers. `RdvMatches` is `NoMatchWaits`,
  `RdvAnswers` the action property `OwnAnswer`.
* *Message buffer.* A word of the ring is named by its distance from the head
  (`Place`); no two distances below the size share a word (`PlacesDiffer`), and what
  the two-part copies of the code write and read is what follows, also across the
  end of the ring (`CopiesFollow`). `Holds(b, s)` says that the messages of the
  list s lie one behind the other from the head to the tail, each with a header
  and rounded up to words, and that together they are as long as `bufsz - frbufsz`.
  `msg_to_mbf` with enough room appends to s (`MessageStored`), `mbf_to_msg` takes
  the first (`MessageTaken`). The loop of `mbf_wakeup` takes in the messages of the
  first senders, in order (`WokenUp`), and ends when the next does not fit
  (`Stuck`). `MbfInv` says that the ring holds some list; that the send queue
  links exactly the tasks that have a message, each its own, in the order of their
  priorities with TA_TPRI; and `NoIdleWait`, which rests on the hooks: whoever comes
  to the front of the send queue by a removal or a change of priority is tried. Each call
  is shown to do one step of `MsgQueue` with the list before it and one after it
  (`QueueStep`). The refinement mapping finds the list by a search: `StoredIs`
  shows that it finds what the ring holds. The search is a function of the number of
  rounds, so the induction is on natural numbers and not over the list, and the
  rounds are enough because each message takes a header at least. `MbfServesAll` and `MsgQueueImplemented`.
* *Timer.* `TimerInv` says beside the types that the queue links
  exactly what is started, once (`Linked`), in the order of the times (`SortedBy`),
  and for each event (`EventFact`): a cyclic handler is started only while it exists,
  its time is a whole number of cycles past the one due by the calls, also while it
  is stopped (`InPhase`), no event is queued before it is due, and outside of the
  interrupt nothing that is past is left in the queue. The last two are what
  `NeverEarly` lacks: `tk_sta_cyc` without TA_PHS and the call of a handler compute
  the next time from the last one, with one division (`NextTime`), and while
  a handler runs, any call may add, remove or move events, also those that the loop
  of the interrupt has still to look at. `QueueCorrect` and `TimesCorrect` are the
  two properties.

**DeviceIOProofs.** The assumption is `DeviceIOAssumption`: finitely many tasks and
requests, and the two absent values are no task and no open. None of the three
properties of devices is inductive, because they speak of the result of a
protocol whose steps are spread over several tasks. `DevInv` is, beside the types,

* in every state: `InTurn` (the queue links the tasks that open or close, and its
  first goes on or has been woken); `Handled` (an open is opened or closed by one
  task); `InProcess` (the task noted in a request has the driver at work on it, one
  task at most waits for any request of an open, and none is left after the
  drain); `Aborting` (a close that waits has asked every call for its open to
  end, and `abort_cnt` does not exceed the number of those calls);
* while `disturbed` is FALSE: `OneByOne` (nobody is woken but the first
  of the queue, or a close whose count has reached 0, and only the first is
  processed) and `DriverKnows` (`driver` and the answers of `chkopen` agree with the
  opens);
* while `uncounted` is FALSE: `Counted` (a task that waits for any request is the
  only one in the driver for its open, and `abort_cnt` *is* the number of calls) and
  `Drained` (`Served`, and after the abort no call is left); and `disturbed` is FALSE.

`NoLostSync` needs the first layer only. So it holds for every order of an abort,
its completions and the wait, also after a wakeup came early or from outside and
with requests started while a task waits for any: the bound `<=` on `abort_cnt`
is what such executions keep, and enough, since a count above 0 then means that a
call that was asked to end, and will count it down, is still there. `DriverAgrees`
needs the second layer, `RequestsStay` the third. Each step keeps its layer or
sets the history variable. Completions are shown to take one
call from `Calls` and one from the count together (`Notified`), so that they meet
at 0, and a drain begins only then.

**Only model-checked:** `ChainEnds` of `Mutex` once there was a circle, and liveness
(`TopTaskServed`), which the prover cannot handle under fairness.

## 5. What the checks do not cover

* Time: timeouts are nondeterministic ends of waits.
* `TopScheduled` says nothing while some task has a kernel lock; what the source
  promises for that case does not hold (run `sched_two_owners` and the
  observation about `klocktsk`).
* `PriorityExact` and `InheritanceExact` end with the first circle of waiting
  tasks: from then on inherited priorities may sustain each other. Likewise
  `MutualExclusion` of the fast lock ends with the first forced release, and
  `DriverMatches` and `InService` with the first wakeup out of turn.
* What a task does that a handler has terminated while it holds off dispatch is
  modelled in `TaskSched` only; in the other modules a terminated task stops.
* Mutexes and scheduling are separate modules: `Mutex` lets any READY task make
  calls that do not wait and the top one those that may.
* `SvcLock` has no dispatch control; in `Semaphore`, `EventFlag`, `MessageBuffer` and
  `Rendezvous` any task that does not wait may make the next call.
* The modules of `MCObjects` and `MCOwners` do not interact in the model. In the
  code they do by priorities only, and a change of priority is a step of each
  module; the fast locks have their own model of the object they use.
* In `DeviceIO` LockDM is atomic. `MLock` may be released from its wait as well, and
  LockDM ignores its result (`sysmgr.h:48`): a task released there would enter
  the section of another. Nor does the model let others than device management
  call `tk_ena_wai`, or `tk_dis_wai` for a task that is not yet in SyncWaitDM.
* In `DeviceIO` the driver answers; a driver that ignores an abort would keep the
  closing task asleep.

## 6. Order of work, and what could come next

The modules were written from the scheduler outwards: ready queue, scheduling and
object lock; mutexes; extended SVC locks; the objects tasks communicate with and
the locks of the library built on them; timer events; device management. What
would come next, in this order:

1. The fixed-size pool with its free list and hooks, over `ObjLock`; wait disabling
   and task events in `TaskSched`.
2. `tk_sus_dev` and the clean-up of resource groups in `DeviceIO`, with the startup
   and clean-up functions of `subsystem.c`.

## 7. Not modelled

The repository has some 317,000 lines of C; about 17,000 of them are the kernel
and its managers. The rest is outside of this project: the vendored BSD network
stack and C library, the FAT file system and program loader of T2EX, drivers,
board support, monitor and applications.

In the kernel and its managers:

* `mailbox.c`: a linked list in the callers' memory with a wait queue that has no
  hooks; a special case of the semaphore's.
* `mempool.c`, `imalloc.c`, `malloc.c`: allocators. They split and merge areas in
  place; they are data structures over addresses without a protocol between
  tasks other than the object lock and the wait hooks, which are modelled.
* The free list of `mempfix.c`: whether a block is free is nondeterministic.
* Subsystem definition, startup, clean-up and events (`subsystem.c`), resource
  groups, exception masks and pending exceptions: tables and calls of user
  functions.
* `device.c`: registration of devices and device events; `tk_sus_dev`,
  `devmgr_break` and `devmgr_cleanup` of `deviceio.c`, sub-units and TDA_OPENREQ.
* Task events, wait disabling (except where SyncWaitDM and rendezvous use it),
  registers, profiling times.
* Configuration text (`system.c`), the log, start-up (a fixed sequence whose
  result is `TaskSched`'s initial state), references (`*_ref_*`, `td_*`: no effect
  on state; td_ref_tsk reads `nodiswai` of the running task instead of the one
  asked about, `task_manage.c:937`), generated call stubs, string library.

## 8. Running the checks

    tlc -config MCTaskSched.cfg MCTaskSched.tla
    tlapm TaskSchedProofs.tla
    tlapm MutexProofs.tla
    tlapm SvcLockProofs.tla

and likewise for the other modules named `...Proofs` and for `QueueLemmas`. Every
run takes less than five minutes on four cores. `Mutex` and `DeviceIO` are checked
with `MCOwners`, the objects with `MCObjects`.
