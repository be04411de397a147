------------------------------- MODULE SvcLock -------------------------------
(***************************************************************************)
(* The extended SVC locks (klock.c) and what they protect (subsystem.c):   *)
(* every task has a lock; svc_ientry takes it to begin and to end a call   *)
(* of an extended SVC of the task, tk_ras_tex of another task takes it     *)
(* while it runs the break function of that call.  A task may hold several *)
(* locks, which form the list tcb->svclocked.                              *)
(*                                                                         *)
(* A step is a critical section, or the code between two of them.  Any     *)
(* task that does not wait for a lock may be the one that runs.            *)
(***************************************************************************)
EXTENDS Naturals, SequencesExt

CONSTANTS Tasks,
          MaxCalls,           \* bound on the calls a task is inside of
          MayReenter,         \* a task calls LockSVC for a lock it has
          BreakRaises,        \* break functions call tk_ras_tex
          MayTerminateHolder  \* a task that has a lock may be terminated

ASSUME SvcLockAssumption ==
    /\ IsFiniteSet(Tasks)
    /\ MaxCalls \in Nat
    /\ {MayReenter, BreakRaises, MayTerminateHolder} \subseteq BOOLEAN

VARIABLES alive,     \* the task is not DORMANT
          calls,     \* the calls each task is inside of, the innermost last
          svclocked, \* tcb->svclocked, the lock taken last first
          taken,     \* SVCLOCK.wtskq.next # NULL, for the lock of each task
          wtskq,     \* SVCLOCK.wtskq: the tasks that wait for it
          klockwait  \* tcb->klockwait: the task is in such a queue

vars == <<alive, calls, svclocked, taken, wtskq, klockwait>>

(* An element of calls has an op, "svc" or "ras" (tk_ras_tex for the task   *)
(* that has the lock); a lock; a place at: "lock", "locked", "run" (the SVC *)
(* handler or the break function executes), "relock" or "unlock"; and       *)
(* broken, the flag BREAK_RAN of tcb->execssid.                             *)

-----------------------------------------------------------------------------
(* Definitions marked "fault" are not the code: each is a plausible mistake *)
(* in the definition that follows it, to show that a property would see it. *)

Running(t) == alive[t] /\ ~klockwait[t]

Innermost(t) == Last(calls[t])

At(t, step) == calls[t] # <<>> /\ Innermost(t).at = step

GoTo(t, step) == calls' = [calls EXCEPT ![t][Len(calls[t])].at = step]

BreakRunning(t) ==
    \E i \in DOMAIN calls[t] : calls[t][i].op = "ras" /\ calls[t][i].at = "run"

(* Outside of all calls, in an SVC handler or in a break function          *)
CanCall(t) ==
    /\ Running(t) /\ Len(calls[t]) < MaxCalls
    /\ calls[t] = <<>> \/ At(t, "run")

Begin(t, op, lock) ==
    /\ CanCall(t)
    /\ MayReenter \/ lock \notin ToSet(svclocked[t])
    /\ calls' = [calls EXCEPT ![t] =
                    Append(@, [op |-> op, lock |-> lock, at |-> "lock",
                               broken |-> FALSE])]
    /\ UNCHANGED <<alive, svclocked, taken, wtskq, klockwait>>

svc_ientry(t) == Begin(t, "svc", t)

tk_ras_tex(t, target) ==
    /\ BreakRaises \/ ~BreakRunning(t)
    /\ Begin(t, "ras", target)

-----------------------------------------------------------------------------
(* LockSVC.  Whoever is woken tries again, and finds the lock at the head  *)
(* of its list when it was given to it.                                    *)
Locked(t) == GoTo(t, IF At(t, "lock") THEN "locked" ELSE "unlock")

(* fault: a task that is woken believes it has the lock *)
HasLockWhenWoken(t, lock) == ~taken[lock] \/ svclocked[t] # <<>>

HasLock(t, lock) == svclocked[t] # <<>> /\ Head(svclocked[t]) = lock

(* fault: the lock is not looked at *)
TakeLockAlways(t, lock) ==
    /\ ~HasLock(t, lock)
    /\ taken' = [taken EXCEPT ![lock] = TRUE]
    /\ svclocked' = [svclocked EXCEPT ![t] = <<lock>> \o @]
    /\ Locked(t)
    /\ UNCHANGED <<wtskq, klockwait>>

TakeLock(t, lock) ==
    /\ ~HasLock(t, lock) /\ ~taken[lock]
    /\ taken' = [taken EXCEPT ![lock] = TRUE]
    /\ svclocked' = [svclocked EXCEPT ![t] = <<lock>> \o @]
    /\ Locked(t)
    /\ UNCHANGED <<wtskq, klockwait>>

QueueForLock(t, lock) ==
    /\ ~HasLock(t, lock) /\ taken[lock]
    /\ klockwait' = [klockwait EXCEPT ![t] = TRUE]
    /\ wtskq' = [wtskq EXCEPT ![lock] = Append(@, t)]
    /\ UNCHANGED <<calls, svclocked, taken>>

LockSVC(t) ==
    /\ Running(t) /\ (At(t, "lock") \/ At(t, "relock"))
    /\ LET lock == Innermost(t).lock
       IN  \/ /\ HasLock(t, lock) /\ Locked(t)
              /\ UNCHANGED <<svclocked, taken, wtskq, klockwait>>
           \/ TakeLock(t, lock)
           \/ QueueForLock(t, lock)
    /\ UNCHANGED alive

(* t leaves the queue it waits in. *)
Left(queue, t) == [l \in Tasks |-> RemoveFirst(queue[l], t)]

(* A task is suspended while it waits, or its priority changes: it leaves  *)
(* the queue and tries again when it runs next.                            *)
Disturb(t) ==
    /\ klockwait[t]
    /\ klockwait' = [klockwait EXCEPT ![t] = FALSE]
    /\ wtskq' = Left(wtskq, t)
    /\ UNCHANGED <<alive, calls, svclocked, taken>>

-----------------------------------------------------------------------------
Locks == [list |-> svclocked, taken |-> taken, queue |-> wtskq, wait |-> klockwait]

Become(k) ==
    /\ svclocked' = k.list
    /\ taken' = k.taken
    /\ wtskq' = k.queue
    /\ klockwait' = k.wait

(* fault: the lock is freed, and the next task is only woken *)
FreeAndWake(k, t) ==
    LET lock == Head(k.list[t])
        free == [k EXCEPT !.list[t] = Tail(@), !.taken[lock] = FALSE]
    IN  IF k.queue[lock] = <<>> THEN free
        ELSE [free EXCEPT !.wait[Head(k.queue[lock])] = FALSE,
                          !.queue[lock] = Tail(@)]

(* The lock t took last goes to the task that has waited longest for it.   *)
GiveUp(k, t) ==
    LET lock == Head(k.list[t])
        left == [k EXCEPT !.list[t] = Tail(@)]
        heir == Head(k.queue[lock])
    IN  IF k.queue[lock] = <<>> THEN [left EXCEPT !.taken[lock] = FALSE]
        ELSE [left EXCEPT !.wait[heir] = FALSE,
                          !.list[heir] = <<lock>> \o @,
                          !.queue[lock] = Tail(@)]

(* UnlockSVC: without a lock it would follow a null pointer, see           *)
(* HeldAsNested; there is no such step.                                    *)
Unlock(t) == svclocked[t] # <<>> /\ Become(GiveUp(Locks, t))

EndCall(t) == calls' = [calls EXCEPT ![t] = Front(@)]

(* svc_ientry at its first UnlockSVC: the handler runs, or TTX_SVC refuses *)
(* the call.                                                               *)
EnterHandler(t) ==
    /\ Running(t) /\ At(t, "locked") /\ Innermost(t).op = "svc"
    /\ Unlock(t)
    /\ GoTo(t, "run") \/ EndCall(t)
    /\ UNCHANGED alive

LeaveHandler(t) ==
    /\ Running(t) /\ At(t, "run") /\ Innermost(t).op = "svc"
    /\ GoTo(t, "relock")
    /\ UNCHANGED <<alive, svclocked, taken, wtskq, klockwait>>

(* The last UnlockSVC of svc_ientry and of tk_ras_tex                      *)
Return(t) ==
    /\ Running(t) /\ At(t, "unlock")
    /\ Unlock(t) /\ EndCall(t)
    /\ UNCHANGED alive

(* call_brkhdr: the break function of the extended SVC that the target is  *)
(* in runs once, unless the target runs a break function itself.           *)
Interruptible(u) ==
    {i \in DOMAIN calls[u] : calls[u][i].op = "svc"
                             /\ calls[u][i].at \in {"run", "relock"}}

(* fault: a task in a break function is interrupted too *)
MayBreakAlways(u) ==
    Interruptible(u) # {} /\ ~calls[u][Max(Interruptible(u))].broken

MayBreak(u) ==
    /\ ~BreakRunning(u)
    /\ Interruptible(u) # {}
    /\ ~calls[u][Max(Interruptible(u))].broken

call_brkhdr(t) ==
    /\ Running(t) /\ At(t, "locked") /\ Innermost(t).op = "ras"
    /\ LET u == Innermost(t).lock
       IN  /\ MayBreak(u)
           /\ calls' = [[calls EXCEPT ![u][Max(Interruptible(u))].broken = TRUE]
                        EXCEPT ![t][Len(calls[t])].at = "run"]
    /\ UNCHANGED <<alive, svclocked, taken, wtskq, klockwait>>

(* No exception is raised, or there is no break function to call; or it    *)
(* has returned.                                                           *)
Raised(t) ==
    /\ Running(t) /\ calls[t] # <<>> /\ Innermost(t).op = "ras"
    /\ At(t, "locked") \/ At(t, "run")
    /\ GoTo(t, "unlock")
    /\ UNCHANGED <<alive, svclocked, taken, wtskq, klockwait>>

-----------------------------------------------------------------------------
(* fault: a task ends with its locks *)
KeepsLocks(k, c) == k

(* The locks of c that t waits for first: one at most, for it is in one    *)
(* queue at most.                                                          *)
Inherits(k, c, t) ==
    {l \in ToSet(k.list[c]) : k.queue[l] # <<>> /\ Head(k.queue[l]) = t}

(* AllUnlockSVC, with ctxtsk = c for the termination of a task: it         *)
(* unlocks what c has, whichever task is terminated.  The loop gives up    *)
(* one lock after another; each goes to a task of a queue of its own.      *)
AllUnlockSVC(k, c) ==
    LET mine == ToSet(k.list[c])
    IN  [list  |-> [t \in Tasks |->
                      IF t = c THEN <<>>
                      ELSE IF Inherits(k, c, t) = {} THEN k.list[t]
                      ELSE <<CHOOSE l \in Inherits(k, c, t) : TRUE>> \o k.list[t]],
         taken |-> [l \in Tasks |-> k.taken[l] /\ (l \in mine => k.queue[l] # <<>>)],
         queue |-> [l \in Tasks |-> IF l \in mine /\ k.queue[l] # <<>>
                                     THEN Tail(k.queue[l]) ELSE k.queue[l]],
         wait  |-> [t \in Tasks |-> k.wait[t] /\ Inherits(k, c, t) = {}]]

_ter_tsk(c, t) ==
    LET gone == [Locks EXCEPT !.wait[t] = FALSE,
                              !.queue = Left(@, t)]
    IN  /\ Become(IF svclocked[t] = <<>> THEN gone ELSE AllUnlockSVC(gone, c))
        /\ calls' = [calls EXCEPT ![t] = <<>>]
        /\ alive' = [alive EXCEPT ![t] = FALSE]

(* The task c calls, or an interrupt handler that has interrupted c in any *)
(* place; t may be c then.                                                 *)
tk_ter_tsk(c, t) ==
    /\ Running(c) /\ alive[t]
    /\ MayTerminateHolder \/ svclocked[t] = <<>>
    /\ _ter_tsk(c, t)

(* tk_ext_tsk, in a break function too *)
tk_ext_tsk(t) == CanCall(t) /\ _ter_tsk(t, t)

tk_sta_tsk(t) ==
    /\ ~alive[t]
    /\ alive' = [alive EXCEPT ![t] = TRUE]
    /\ UNCHANGED <<calls, svclocked, taken, wtskq, klockwait>>

-----------------------------------------------------------------------------
Init ==
    /\ alive = [t \in Tasks |-> FALSE]
    /\ calls = [t \in Tasks |-> <<>>]
    /\ svclocked = [t \in Tasks |-> <<>>]
    /\ taken = [t \in Tasks |-> FALSE]
    /\ wtskq = [t \in Tasks |-> <<>>]
    /\ klockwait = [t \in Tasks |-> FALSE]

Next ==
    \E t \in Tasks :
        \/ svc_ientry(t) \/ EnterHandler(t) \/ LeaveHandler(t)
        \/ call_brkhdr(t) \/ Raised(t) \/ Return(t)
        \/ LockSVC(t) \/ Disturb(t)
        \/ tk_sta_tsk(t) \/ tk_ext_tsk(t)
        \/ \E u \in Tasks : tk_ras_tex(t, u) \/ tk_ter_tsk(t, u)

Spec == Init /\ [][Next]_vars

-----------------------------------------------------------------------------
(* A call c that is between LockSVC and UnlockSVC                          *)
InSection(c) == c.at \in {"locked", "unlock"} \/ (c.op = "ras" /\ c.at = "run")

(* The places in the calls c at which a lock of the list s is held: the    *)
(* sections, and the innermost call if the lock it asks for was given to   *)
(* the task, which has not run since.                                      *)
Holding(s, c) ==
    {i \in DOMAIN c : \/ InSection(c[i])
                      \/ /\ i = Len(c) /\ c[i].at \in {"lock", "relock"}
                         /\ s # <<>> /\ Head(s) = c[i].lock}

(* The list s has the locks of the calls c that hold one, the innermost    *)
(* first: place[i] is the call that the i-th lock was taken for.           *)
Nested(s, c) ==
    \E place \in [DOMAIN s -> Holding(s, c)] :
        /\ \A i, j \in DOMAIN s : i < j => place[i] > place[j]
        /\ \A h \in Holding(s, c) : \E i \in DOMAIN s : place[i] = h
        /\ \A i \in DOMAIN s : s[i] = c[place[i]].lock

(* The list of a task is that of the sections it is in, the innermost      *)
(* first.  UnlockSVC unlocks the head of that list, so it unlocks the      *)
(* right lock, and there is one.                                           *)
HeldAsNested == \A t \in Tasks : Nested(svclocked[t], calls[t])

(* kernel.h:77 "Able to nest lock": a task has the lock of every section   *)
(* that it is in, also when it is in two sections of the same lock.        *)
SectionsLocked ==
    \A t \in Tasks : \A i \in DOMAIN calls[t] :
        InSection(calls[t][i]) => calls[t][i].lock \in ToSet(svclocked[t])

(* A lock is in one list once, or it is free and nobody waits for it; a    *)
(* task that waits is in the queue of the lock it wants and in no other.   *)
LocksExact ==
    \A l \in Tasks :
        /\ taken[l] <=> \E t \in Tasks : l \in ToSet(svclocked[t])
        /\ \A t, u \in Tasks :
            l \in ToSet(svclocked[t]) /\ l \in ToSet(svclocked[u]) => t = u
        /\ wtskq[l] # <<>> => taken[l]
        /\ IsInjective(wtskq[l])
        /\ \A t \in Tasks :
            t \in ToSet(wtskq[l]) <=> klockwait[t] /\ Innermost(t).lock = l

(* subsystem.c:591 "Lock to run with break function exclusively": while    *)
(* another task runs the break function of a call of u, u is not at the    *)
(* beginning or the end of a call, and the call it is in, if it has not    *)
(* been terminated, is the one that is broken.                             *)
BreakExclusive ==
    \A t \in Tasks, i \in 1 .. MaxCalls :
        /\ i \in DOMAIN calls[t]
        /\ calls[t][i].op = "ras" /\ calls[t][i].at = "run" /\ calls[t][i].lock # t
        => LET u == calls[t][i].lock
           IN  /\ Interruptible(u) # {} => calls[u][Max(Interruptible(u))].broken
               /\ At(u, "locked") \/ At(u, "unlock") => Innermost(u).op = "ras"

(* klock.c:160: "Unlock all extended SVCs in which 'tcb' tasks are locked": *)
(* a task that was terminated has no lock.                                 *)
DormantHasNoLock == \A t \in Tasks : ~alive[t] => svclocked[t] = <<>>

Owner(l) == CHOOSE t \in Tasks : l \in ToSet(svclocked[t])

(* No circle of tasks waits for each other's locks: a break function calls *)
(* extended SVCs with the lock of another task held, and the task whose    *)
(* call it breaks may be doing the same to a third one.                    *)
NoCircle ==
    \A S \in (SUBSET Tasks) \ {{}} :
        \E t \in S : ~(klockwait[t] /\ taken[Innermost(t).lock]
                       /\ Owner(Innermost(t).lock) \in S)
=============================================================================
