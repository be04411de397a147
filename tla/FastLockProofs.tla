--------------------------- MODULE FastLockProofs ---------------------------
(***************************************************************************)
(* Proofs about the fast lock of lib/libtk/src/fastlock.c, for any set of  *)
(* tasks and any priorities.  There is one permit: a task has it from the  *)
(* time it may go on in Lock until its tk_sig_sem is done, or the count of *)
(* the semaphore is the permit.  The counter is -1 only when nobody has    *)
(* the permit; how many tasks wait plays no part.                          *)
(*                                                                         *)
(* That no sleeper is forgotten rests on more, and holds also after forced *)
(* releases: the counter counts the tasks past Inc exactly.                *)
(***************************************************************************)
EXTENDS FastLock, FiniteSetTheorems, TLAPS

HasPermit(t) == pc[t] \in {"holding", "toSignal"}

OnePermit ==
    /\ \A t, u \in Tasks : HasPermit(t) /\ HasPermit(u) => t = u
    /\ \A t \in Tasks : HasPermit(t) => semcnt = 0

PermitCounted ==
    /\ cnt >= -1
    /\ cnt = -1 => semcnt = 0 /\ \A t \in Tasks : ~HasPermit(t)

Waiters == waiting = {t \in Tasks : pc[t] = "waiting"}

Permits == TypeOK /\ OnePermit /\ PermitCounted /\ Waiters

(* Once a wait has been released by force, nothing is said of the permit.  *)
IInv == ~forced => Permits

-----------------------------------------------------------------------------
(* The initial state of a lock has no permit in use. *)
LEMMA InitIInv == Init => IInv
<1> SUFFICES ASSUME Init PROVE Permits
  BY DEF IInv
<1>1. forced \in BOOLEAN
  BY DEF Init
<1> QED
  BY <1>1 DEF Init, Permits, TypeOK, OnePermit, PermitCounted, Waiters, HasPermit,
         maxsem, Points

(* A forced release is remembered. *)
LEMMA ForcedStays == forced /\ [Next]_vars => forced'
  BY DEF Next, Step, LockInc, WaiSem, UnlockDec, SigSem, RelWai, vars

(* Every step of Lock and Unlock keeps the permit unique, provided nobody  *)
(* is released from the wait by force.                                     *)
LEMMA NextIInv == IInv /\ [Next]_vars => IInv'
<1> SUFFICES ASSUME Permits, ~forced', [Next]_vars PROVE Permits'
  BY ForcedStays DEF IInv
<1>0. forced' \in BOOLEAN
  BY DEF Next, Step, LockInc, WaiSem, UnlockDec, SigSem, RelWai, vars, Permits, TypeOK
<1> USE <1>0 DEF Permits, TypeOK, OnePermit, PermitCounted, Waiters, HasPermit,
            maxsem, Points, At
<1>1. ASSUME NEW t \in Tasks, LockInc(t) PROVE Permits'
  BY <1>1 DEF LockInc, IncPositive
<1>2. ASSUME NEW t \in Tasks, WaiSem(t) PROVE Permits'
  <2>1. CASE OnTop(t) /\ CountAvailable
    BY <1>2, <2>1 DEF WaiSem, CountAvailable
  <2>2. CASE ~(OnTop(t) /\ CountAvailable)
    BY <1>2, <2>2 DEF WaiSem
  <2> QED BY <2>1, <2>2
<1>3. ASSUME NEW t \in Tasks, UnlockDec(t) PROVE Permits'
  BY <1>3 DEF UnlockDec, DecPositive
<1>4. ASSUME NEW t \in Tasks, SigSem(t) PROVE Permits'
  <2>1. pc[t] = "toSignal" /\ semcnt = 0 /\ cnt' = cnt /\ cnt # -1
    BY <1>4 DEF SigSem
  <2>2. CASE waiting = {} /\ semcnt' = semcnt + 1
             /\ pc' = [pc EXCEPT ![t] = "out"] /\ UNCHANGED waiting
    BY <2>1, <2>2
  <2>3. ASSUME NEW h \in Heads, waiting' = waiting \ {h}, UNCHANGED semcnt,
               pc' = [pc EXCEPT ![t] = "out", ![h] = "holding"]
        PROVE Permits'
    <3>1. h \in Tasks /\ pc[h] = "waiting" /\ h # t
      BY <2>1 DEF Heads
    <3> QED BY <2>1, <2>3, <3>1
  <2> QED BY <1>4, <2>1, <2>2, <2>3 DEF SigSem
<1>5. ASSUME NEW t \in Tasks, RelWai(t) PROVE Permits'
  BY <1>5 DEF RelWai
<1>6. CASE UNCHANGED vars
  BY <1>6 DEF vars
<1> QED BY <1>1, <1>2, <1>3, <1>4, <1>5, <1>6 DEF Next, Step

(* The permit is unique in every state that can be reached. *)
THEOREM Inductive == Spec => []IInv
<1>1. Init => IInv
  BY InitIInv
<1>2. IInv /\ [Next]_vars => IInv'
  BY NextIInv
<1> QED BY <1>1, <1>2, PTL DEF Spec

(* Lock is exclusive for any number of tasks: no two of them are between   *)
(* the return of Lock and the call of Unlock.                              *)
THEOREM Exclusive == Spec => []MutualExclusion
<1>1. IInv => MutualExclusion
  BY DEF IInv, Permits, OnePermit, HasPermit, MutualExclusion
<1> QED BY <1>1, Inductive, PTL

(* The signal of Unlock never meets a full semaphore, so the result of     *)
(* tk_sig_sem that Unlock drops is never E_QOVR.                           *)
THEOREM SignalsFit == Spec => []NoSignalOverflow
<1>1. IInv => NoSignalOverflow
  BY DEF IInv, Permits, OnePermit, HasPermit, NoSignalOverflow, maxsem
<1> QED BY <1>1, Inductive, PTL

-----------------------------------------------------------------------------
(* The tasks that the counter counts *)
Past == {t \in Tasks : pc[t] \in {"toWait", "waiting", "holding"}}

Counted == cnt = Cardinality(Past) - 1

(* The count of the semaphore is there only when nobody sleeps for it, and *)
(* who is past Inc without the lock has the count or a permit to hope for. *)
Woken ==
    /\ semcnt = 1 => waiting = {}
    /\ (\E t \in Tasks : pc[t] \in {"toWait", "waiting"})
        => semcnt = 1 \/ \E t \in Tasks : HasPermit(t)

WInv == TypeOK /\ Waiters /\ Counted /\ Woken

(* Adding or removing one task changes the number of counted ones by one.  *)
LEMMA PastCount ==
  ASSUME NEW t \in Tasks
  PROVE  /\ Cardinality(Past) \in Nat
         /\ Cardinality(Past) = 0 => Past = {}
         /\ t \notin Past => Cardinality(Past \cup {t}) = Cardinality(Past) + 1
         /\ t \in Past => Cardinality(Past \ {t}) = Cardinality(Past) - 1
<1>1. IsFiniteSet(Past)
  BY FS_Subset, FastLockAssumption DEF Past
<1> QED BY <1>1, FS_CardinalityType, FS_EmptySet, FS_AddElement, FS_RemoveElement

(* A new lock: nobody is past Inc. *)
LEMMA InitWInv == Init => WInv
<1> SUFFICES ASSUME Init PROVE WInv
  OBVIOUS
<1>1. Past = {}
  BY DEF Init, Past
<1>2. Counted
  BY <1>1, FS_EmptySet DEF Init, Counted
<1>3. forced \in BOOLEAN
  BY DEF Init
<1> QED
  BY <1>2, <1>3 DEF Init, WInv, TypeOK, Waiters, Woken, HasPermit, maxsem, Points

(* Types, and the queue as the set of tasks that wait, are kept.           *)
LEMMA NextTypes == TypeOK /\ Waiters /\ [Next]_vars => TypeOK' /\ Waiters'
<1> SUFFICES ASSUME TypeOK, Waiters, [Next]_vars PROVE TypeOK' /\ Waiters'
  OBVIOUS
<1> USE DEF TypeOK, Waiters, Points, maxsem, At
<1>1. ASSUME NEW t \in Tasks, LockInc(t) PROVE TypeOK' /\ Waiters'
  BY <1>1 DEF LockInc
<1>2. ASSUME NEW t \in Tasks, WaiSem(t) PROVE TypeOK' /\ Waiters'
  <2>1. CASE OnTop(t) /\ CountAvailable
    BY <1>2, <2>1 DEF WaiSem, CountAvailable
  <2>2. CASE ~(OnTop(t) /\ CountAvailable)
    BY <1>2, <2>2 DEF WaiSem
  <2> QED BY <2>1, <2>2
<1>3. ASSUME NEW t \in Tasks, UnlockDec(t) PROVE TypeOK' /\ Waiters'
  BY <1>3 DEF UnlockDec
<1>4. ASSUME NEW t \in Tasks, SigSem(t) PROVE TypeOK' /\ Waiters'
  <2>1. pc[t] = "toSignal" /\ cnt' = cnt /\ forced' = forced
    BY <1>4 DEF SigSem
  <2>2. CASE pc' = [pc EXCEPT ![t] = "out"] /\ UNCHANGED waiting
             /\ semcnt' \in 0 .. 1
    BY <2>1, <2>2
  <2>3. ASSUME NEW h \in Heads, waiting' = waiting \ {h}, UNCHANGED semcnt,
               pc' = [pc EXCEPT ![t] = "out", ![h] = "holding"]
        PROVE TypeOK' /\ Waiters'
    <3>1. h \in Tasks /\ pc[h] = "waiting" /\ h # t
      BY <2>1 DEF Heads
    <3> QED BY <2>1, <2>3, <3>1
  <2> QED BY <1>4, <2>2, <2>3 DEF SigSem
<1>5. ASSUME NEW t \in Tasks, RelWai(t) PROVE TypeOK' /\ Waiters'
  BY <1>5 DEF RelWai
<1>6. CASE UNCHANGED vars
  BY <1>6 DEF vars
<1> QED BY <1>1, <1>2, <1>3, <1>4, <1>5, <1>6 DEF Next, Step

(* Only Inc and Dec change who is counted. *)
LEMMA NextCounted == TypeOK /\ Waiters /\ Counted /\ [Next]_vars => Counted'
<1> SUFFICES ASSUME TypeOK, Waiters, Counted, [Next]_vars PROVE Counted'
  OBVIOUS
<1> USE DEF TypeOK, Counted, At
<1>1. ASSUME NEW t \in Tasks, LockInc(t) PROVE Counted'
  <2>1. t \notin Past /\ Past' = Past \cup {t}
    BY <1>1 DEF LockInc, Past
  <2> QED BY <1>1, <2>1, PastCount DEF LockInc
<1>2. ASSUME NEW t \in Tasks, UnlockDec(t) PROVE Counted'
  <2>1. t \in Past /\ Past' = Past \ {t}
    BY <1>2 DEF UnlockDec, Past
  <2> QED BY <1>2, <2>1, PastCount DEF UnlockDec
<1>3. ASSUME cnt' = cnt, Past' = Past PROVE Counted'
  BY <1>3
<1>4. ASSUME NEW t \in Tasks, WaiSem(t) PROVE Counted'
  BY <1>3, <1>4 DEF WaiSem, Past
<1>5. ASSUME NEW t \in Tasks, SigSem(t) PROVE Counted'
  <2>1. CASE pc' = [pc EXCEPT ![t] = "out"]
    BY <1>3, <1>5, <2>1 DEF SigSem, Past
  <2>2. ASSUME NEW h \in Heads, pc' = [pc EXCEPT ![t] = "out", ![h] = "holding"]
        PROVE  Counted'
    <3>1. h \in Tasks /\ pc[h] = "waiting"
      BY DEF Heads, Waiters
    <3>2. Past' = Past
      BY <1>5, <2>2, <3>1 DEF SigSem, Past
    <3> QED BY <1>3, <1>5, <3>2 DEF SigSem
  <2> QED BY <1>5, <2>1, <2>2 DEF SigSem
<1>6. ASSUME NEW t \in Tasks, RelWai(t) PROVE Counted'
  BY <1>3, <1>6 DEF RelWai, Past
<1>7. CASE UNCHANGED vars
  BY <1>3, <1>7 DEF vars, Past
<1> QED BY <1>1, <1>2, <1>4, <1>5, <1>6, <1>7 DEF Next, Step

(* Whoever is past Inc keeps somebody to wake it. *)
LEMMA NextWoken == WInv /\ [Next]_vars => Woken'
<1> SUFFICES ASSUME WInv, [Next]_vars PROVE Woken'
  OBVIOUS
<1> USE DEF WInv, TypeOK, Woken, Waiters, HasPermit, At, maxsem
<1>1. ASSUME NEW t \in Tasks, LockInc(t) PROVE Woken'
  <2>1. CASE IncPositive
    <3>1. Past # {}
      BY <2>1, PastCount, FS_EmptySet DEF IncPositive, Counted
    <3>2. PICK u \in Tasks : pc[u] \in {"toWait", "waiting", "holding"}
      BY <3>1 DEF Past
    <3>3. semcnt = 1 \/ \E v \in Tasks : HasPermit(v)
      BY <3>2
    <3> QED BY <1>1, <2>1, <3>3 DEF LockInc
  <2>2. CASE ~IncPositive
    BY <1>1, <2>2 DEF LockInc
  <2> QED BY <2>1, <2>2
<1>2. ASSUME NEW t \in Tasks, WaiSem(t) PROVE Woken'
  <2>1. CASE OnTop(t) /\ CountAvailable
    BY <1>2, <2>1 DEF WaiSem, CountAvailable
  <2>2. CASE ~(OnTop(t) /\ CountAvailable)
    <3>1. semcnt = 0
      BY <2>2 DEF OnTop, CountAvailable
    <3>2. \E v \in Tasks : HasPermit(v) /\ v # t
      BY <1>2, <3>1 DEF WaiSem
    <3> QED BY <1>2, <2>2, <3>1, <3>2 DEF WaiSem
  <2> QED BY <2>1, <2>2
<1>3. ASSUME NEW t \in Tasks, UnlockDec(t) PROVE Woken'
  <2>1. CASE DecPositive
    BY <1>3, <2>1 DEF UnlockDec
  <2>2. CASE ~DecPositive
    <3>1. t \in Past /\ Past \ {t} = {}
      <4>1. t \in Past
        BY <1>3 DEF UnlockDec, Past
      <4>2. Cardinality(Past \ {t}) = Cardinality(Past) - 1
            /\ Cardinality(Past) \in Nat
        BY <4>1, PastCount
      <4>3. IsFiniteSet(Past \ {t})
        BY FS_Subset, FastLockAssumption DEF Past
      <4>4. Cardinality(Past \ {t}) \in Nat
        BY <4>3, FS_CardinalityType
      <4>5. Cardinality(Past \ {t}) = 0
        BY <2>2, <4>2, <4>4 DEF DecPositive, Counted
      <4> QED BY <4>1, <4>3, <4>5, FS_EmptySet
    <3>2. \A u \in Tasks : u # t => pc[u] \notin {"toWait", "waiting"}
      BY <3>1 DEF Past
    <3> QED BY <1>3, <2>2, <3>2 DEF UnlockDec
  <2> QED BY <2>1, <2>2
<1>4. ASSUME NEW t \in Tasks, SigSem(t) PROVE Woken'
  <2>1. pc[t] = "toSignal"
    BY <1>4 DEF SigSem
  <2>2. CASE pc' = [pc EXCEPT ![t] = "out"] /\ semcnt' = 1 /\ waiting' = {}
    BY <2>2
  <2>3. ASSUME NEW h \in Heads, semcnt' = 0,
               pc' = [pc EXCEPT ![t] = "out", ![h] = "holding"]
        PROVE  Woken'
    <3>1. h \in Tasks /\ pc[h] = "waiting" /\ h # t
      BY <2>1 DEF Heads
    <3>2. pc'[h] = "holding"
      BY <2>3, <3>1
    <3> QED BY <2>3, <3>1, <3>2
  <2> QED BY <1>4, <2>2, <2>3 DEF SigSem
<1>5. ASSUME NEW t \in Tasks, RelWai(t) PROVE Woken'
  <2>1. pc'[t] = "holding" /\ semcnt' = semcnt /\ waiting' \subseteq waiting
    BY <1>5 DEF RelWai
  <2> QED BY <2>1
<1>6. CASE UNCHANGED vars
  BY <1>6 DEF vars
<1> QED BY <1>1, <1>2, <1>3, <1>4, <1>5, <1>6 DEF Next, Step

(* While any of any number of tasks sleeps in Lock, another one has the    *)
(* lock or is about to signal it, whatever waits have been released.       *)
THEOREM SleepersWoken == Spec => []SleeperHasWaker
<1>1. Init => WInv
  BY InitWInv
<1>2. WInv /\ [Next]_vars => WInv'
  BY NextTypes, NextCounted, NextWoken DEF WInv
<1>3. WInv => SleeperHasWaker
  <2> SUFFICES ASSUME WInv, waiting # {}
               PROVE  \E t \in Tasks : pc[t] \in {"holding", "toSignal"}
    BY DEF SleeperHasWaker
  <2>1. \E t \in Tasks : pc[t] = "waiting"
    BY DEF WInv, Waiters
  <2>2. semcnt # 1
    BY DEF WInv, Woken
  <2> QED BY <2>1, <2>2 DEF WInv, Woken, HasPermit
<1> QED BY <1>1, <1>2, <1>3, PTL DEF Spec
=============================================================================
