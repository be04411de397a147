-------------------------- MODULE FastMLockProofs ---------------------------
(***************************************************************************)
(* Proofs about the multi-lock of lib/libtk/src/fastmlock.c, for any       *)
(* finite set of tasks, any priorities and any lock numbers.  The counter  *)
(* is the number of tasks inside MLock, so that MUnlock may return without *)
(* setting the event flag only when there is nobody to wake.               *)
(***************************************************************************)
EXTENDS FastMLock, FiniteSetTheorems, TLAPS

Inside == {t \in Tasks : call[t] \in {"toTest", "toWait", "waiting", "locked", "failed"}}

Counted == wai = Cardinality(Inside)

OneOwner == \A t, u \in Tasks, n \in Locks : Owns(t, n) /\ Owns(u, n) => t = u

SetIffOwned == \A n \in Locks : n \in flg <=> \E t \in Tasks : Owns(t, n)

(* A task that has the lock n, is about to test it or to set its bit in    *)
(* the event flag                                                          *)
Waker(n) ==
    \E t \in Tasks : \/ Owns(t, n)
                     \/ no[t] = n /\ call[t] \in {"toTest", "toLook", "toSet"}

(* Nobody sleeps for a bit of the event flag that is set.  Whoever sleeps, *)
(* or is about to, has a waker, or finds the bit set.                      *)
Wakeable ==
    \A t \in Tasks :
        /\ call[t] = "waiting" => no[t] \notin flgptn /\ Waker(no[t])
        /\ call[t] = "toWait" => no[t] \in flgptn \/ Waker(no[t])

IInv == MLockTypeOK /\ Counted /\ OneOwner /\ SetIffOwned /\ Wakeable

-----------------------------------------------------------------------------
(* A new lock is free, and nobody is inside. *)
LEMMA InitIInv == Init => IInv
<1> SUFFICES ASSUME Init PROVE IInv
  OBVIOUS
<1>1. MLockTypeOK
  BY DEF Init, MLockTypeOK, Calls
<1>2. Counted
  <2>1. Inside = {}
    BY DEF Init, Inside
  <2> QED BY <2>1, FS_EmptySet DEF Init, Counted
<1>3. OneOwner /\ SetIffOwned /\ Wakeable
  BY DEF Init, OneOwner, SetIffOwned, Wakeable, Owns
<1> QED BY <1>1, <1>2, <1>3 DEF IInv

(* The number of tasks inside MLock is finite, and adding or removing one  *)
(* changes it by one.                                                      *)
LEMMA InsideCount ==
  ASSUME NEW t \in Tasks
  PROVE  /\ Cardinality(Inside) \in Nat
         /\ Cardinality(Inside) = 0 => Inside = {}
         /\ t \notin Inside => Cardinality(Inside \cup {t}) = Cardinality(Inside) + 1
         /\ t \in Inside => Cardinality(Inside \ {t}) = Cardinality(Inside) - 1
<1>1. IsFiniteSet(Inside)
  BY FS_Subset, TaskPrioritiesAssumption DEF Inside
<1> QED BY <1>1, FS_CardinalityType, FS_EmptySet, FS_AddElement, FS_RemoveElement

(* Every step keeps the types. *)
LEMMA NextTypeOK == MLockTypeOK /\ [Next]_mlockvars => MLockTypeOK'
<1> SUFFICES ASSUME MLockTypeOK, [Next]_mlockvars PROVE MLockTypeOK'
  OBVIOUS
<1> USE DEF MLockTypeOK, Calls, Goes
<1>1. ASSUME NEW t \in Tasks, NEW n \in Locks, Inc(t, n) PROVE MLockTypeOK'
  BY <1>1 DEF Inc
<1>2. ASSUME NEW t \in Tasks, NEW n \in Locks, BitReset(t, n) PROVE MLockTypeOK'
  BY <1>2 DEF BitReset
<1>3. ASSUME NEW t \in Tasks, TestAndSet(t) PROVE MLockTypeOK'
  BY <1>3 DEF TestAndSet
<1>4. ASSUME NEW t \in Tasks, WaiFlg(t) PROVE MLockTypeOK'
  BY <1>4 DEF WaiFlg
<1>5. ASSUME NEW t \in Tasks, EndWait(t) PROVE MLockTypeOK'
  BY <1>5 DEF EndWait
<1>6. ASSUME NEW t \in Tasks, Dec(t) PROVE MLockTypeOK'
  BY <1>6 DEF Dec
<1>7. ASSUME NEW t \in Tasks, Look(t) PROVE MLockTypeOK'
  BY <1>7 DEF Look
<1>8. ASSUME NEW t \in Tasks, SetFlg(t) PROVE MLockTypeOK'
  <2>1. flgptn' \in SUBSET Locks
    BY <1>8 DEF SetFlg
  <2>2. call' \in [Tasks -> Calls]
    BY <1>8 DEF SetFlg
  <2> QED BY <1>8, <2>1, <2>2 DEF SetFlg
<1>9. CASE UNCHANGED mlockvars
  BY <1>9 DEF mlockvars
<1> QED BY <1>1, <1>2, <1>3, <1>4, <1>5, <1>6, <1>7, <1>8, <1>9 DEF Next

(* tk_set_flg: the caller leaves MUnlock; of the others only tasks that    *)
(* wait move, each to test its lock again.  A bit that is set stays set,   *)
(* unless a task that waits for it takes it.                               *)
LEMMA SetFlgMoves ==
  ASSUME MLockTypeOK, NEW t \in Tasks, SetFlg(t)
  PROVE  /\ call[t] = "toSet" /\ call'[t] = "out"
         /\ \A u \in Tasks \ {t} :
                \/ call'[u] = call[u]
                \/ call[u] = "waiting" /\ call'[u] = "toTest"
         /\ \A b \in flgptn \cup {no[t]} :
                \/ b \in flgptn' /\ Waiters(b) = {}
                \/ b \notin flgptn'
                   /\ \E u \in Tasks : no[u] = b /\ call'[u] = "toTest"
         /\ flgptn' \subseteq flgptn \cup {no[t]}
         /\ no' = no /\ has' = has /\ flg' = flg /\ wai' = wai
<1> DEFINE ptn == flgptn \cup {no[t]}
           hit == {b \in ptn : Waiters(b) # {}}
<1>1. call[t] = "toSet" /\ flgptn' = ptn \ hit
  BY DEF SetFlg
<1>2. PICK h \in [hit -> Tasks] :
        /\ \A b \in hit : h[b] \in Heads(b)
        /\ call' = [u \in Tasks |->
                        CASE u = t -> "out"
                          [] u # t /\ (\E b \in hit : u = h[b]) -> "toTest"
                          [] OTHER -> call[u]]
  BY DEF SetFlg
<1>3. \A b \in hit : h[b] \in Tasks /\ call[h[b]] = "waiting" /\ no[h[b]] = b
  BY <1>2 DEF Heads, Waiters
<1>4. call'[t] = "out"
  BY <1>2
<1>5. ASSUME NEW u \in Tasks \ {t}
      PROVE  call'[u] = call[u] \/ (call[u] = "waiting" /\ call'[u] = "toTest")
  <2>1. CASE \E b \in hit : u = h[b]
    BY <1>2, <1>3, <2>1
  <2>2. CASE ~\E b \in hit : u = h[b]
    BY <1>2, <2>2
  <2> QED BY <2>1, <2>2
<1>6. ASSUME NEW b \in hit PROVE \E u \in Tasks : no[u] = b /\ call'[u] = "toTest"
  <2>1. h[b] # t
    BY <1>1, <1>3
  <2>2. call'[h[b]] = "toTest"
    BY <1>2, <1>3, <2>1
  <2> QED BY <1>3, <2>2
<1>7. no' = no /\ has' = has /\ flg' = flg /\ wai' = wai
  BY DEF SetFlg
<1> QED BY <1>1, <1>4, <1>5, <1>6, <1>7

-----------------------------------------------------------------------------
(* Only the calls of MLock enter and leave the inside, each with its step  *)
(* on the counter.                                                         *)
LEMMA NextCounted == MLockTypeOK /\ Counted /\ [Next]_mlockvars => Counted'
<1> SUFFICES ASSUME MLockTypeOK, Counted, [Next]_mlockvars PROVE Counted'
  OBVIOUS
<1> USE DEF MLockTypeOK, Counted, Goes
<1>1. ASSUME NEW t \in Tasks, NEW n \in Locks, Inc(t, n) PROVE Counted'
  <2>1. t \notin Inside /\ Inside' = Inside \cup {t}
    BY <1>1 DEF Inc, Inside
  <2> QED BY <1>1, <2>1, InsideCount DEF Inc
<1>2. ASSUME NEW t \in Tasks, Dec(t) PROVE Counted'
  <2>1. t \in Inside /\ Inside' = Inside \ {t}
    BY <1>2 DEF Dec, Inside
  <2> QED BY <1>2, <2>1, InsideCount DEF Dec
<1>3. ASSUME wai' = wai, Inside' = Inside PROVE Counted'
  BY <1>3
<1>4. ASSUME NEW t \in Tasks, NEW n \in Locks, BitReset(t, n) PROVE Counted'
  BY <1>3, <1>4 DEF BitReset, Inside
<1>5. ASSUME NEW t \in Tasks, TestAndSet(t) PROVE Counted'
  BY <1>3, <1>5 DEF TestAndSet, Inside
<1>6. ASSUME NEW t \in Tasks, WaiFlg(t) PROVE Counted'
  BY <1>3, <1>6 DEF WaiFlg, Inside
<1>7. ASSUME NEW t \in Tasks, EndWait(t) PROVE Counted'
  BY <1>3, <1>7 DEF EndWait, Inside
<1>8. ASSUME NEW t \in Tasks, Look(t) PROVE Counted'
  BY <1>3, <1>8 DEF Look, Inside
<1>9. ASSUME NEW t \in Tasks, SetFlg(t) PROVE Counted'
  <2>1. \A u \in Tasks : u \in Inside' <=> u \in Inside
    BY <1>9, SetFlgMoves DEF Inside
  <2>2. wai' = wai
    BY <1>9, SetFlgMoves
  <2> QED BY <1>3, <2>1, <2>2 DEF Inside
<1>10. CASE UNCHANGED mlockvars
  BY <1>3, <1>10 DEF mlockvars, Inside
<1> QED BY <1>1, <1>2, <1>4, <1>5, <1>6, <1>7, <1>8, <1>9, <1>10 DEF Next

(* The lock of a number is taken by one task and its bit set in one step,  *)
(* and given up with its bit.                                              *)
LEMMA NextOwned ==
  MLockTypeOK /\ OneOwner /\ SetIffOwned /\ [Next]_mlockvars
    => OneOwner' /\ SetIffOwned'
<1> SUFFICES ASSUME MLockTypeOK, OneOwner, SetIffOwned, [Next]_mlockvars
             PROVE  OneOwner' /\ SetIffOwned'
  OBVIOUS
<1> USE DEF MLockTypeOK, Goes
<1>1. ASSUME flg' = flg, \A t \in Tasks, n \in Locks : Owns(t, n)' <=> Owns(t, n)
      PROVE  OneOwner' /\ SetIffOwned'
  BY <1>1 DEF OneOwner, SetIffOwned
<1>2. ASSUME NEW t \in Tasks, NEW n \in Locks, Inc(t, n)
      PROVE  OneOwner' /\ SetIffOwned'
  BY <1>1, <1>2 DEF Inc, Owns
<1>3. ASSUME NEW t \in Tasks, NEW n \in Locks, BitReset(t, n)
      PROVE  OneOwner' /\ SetIffOwned'
  <2>1. \A u \in Tasks, m \in Locks :
            Owns(u, m)' <=> Owns(u, m) /\ ~(u = t /\ m = n)
    BY <1>3 DEF BitReset, Owns
  <2>2. Owns(t, n) /\ flg' = flg \ {n}
    BY <1>3 DEF BitReset, Owns
  <2> QED BY <2>1, <2>2 DEF OneOwner, SetIffOwned
<1>4. ASSUME NEW t \in Tasks, TestAndSet(t) PROVE OneOwner' /\ SetIffOwned'
  <2>1. CASE no[t] \in flg
    BY <1>1, <1>4, <2>1 DEF TestAndSet, Owns
  <2>2. CASE no[t] \notin flg
    <3>1. \A u \in Tasks, m \in Locks :
            Owns(u, m)' <=> Owns(u, m) \/ (u = t /\ m = no[t])
      BY <1>4, <2>2 DEF TestAndSet, Owns
    <3>2. flg' = flg \cup {no[t]} /\ \A u \in Tasks : ~Owns(u, no[t])
      BY <1>4, <2>2 DEF TestAndSet, SetIffOwned
    <3> QED BY <3>1, <3>2 DEF OneOwner, SetIffOwned
  <2> QED BY <2>1, <2>2
<1>5. ASSUME NEW t \in Tasks, WaiFlg(t) PROVE OneOwner' /\ SetIffOwned'
  BY <1>1, <1>5 DEF WaiFlg, Owns
<1>6. ASSUME NEW t \in Tasks, EndWait(t) PROVE OneOwner' /\ SetIffOwned'
  BY <1>1, <1>6 DEF EndWait, Owns
<1>7. ASSUME NEW t \in Tasks, Dec(t) PROVE OneOwner' /\ SetIffOwned'
  BY <1>1, <1>7 DEF Dec, Owns
<1>8. ASSUME NEW t \in Tasks, Look(t) PROVE OneOwner' /\ SetIffOwned'
  BY <1>1, <1>8 DEF Look, Owns
<1>9. ASSUME NEW t \in Tasks, SetFlg(t) PROVE OneOwner' /\ SetIffOwned'
  <2>1. \A u \in Tasks, n \in Locks : Owns(u, n)' <=> Owns(u, n)
    <3>1. \A u \in Tasks : call'[u] = "locked" <=> call[u] = "locked"
      BY <1>9, SetFlgMoves
    <3>2. no' = no /\ has' = has
      BY <1>9, SetFlgMoves
    <3> QED BY <3>1, <3>2 DEF Owns
  <2>2. flg' = flg
    BY <1>9, SetFlgMoves
  <2> QED BY <1>1, <2>1, <2>2
<1>10. CASE UNCHANGED mlockvars
  BY <1>1, <1>10 DEF mlockvars, Owns
<1> QED BY <1>2, <1>3, <1>4, <1>5, <1>6, <1>7, <1>8, <1>9, <1>10 DEF Next

-----------------------------------------------------------------------------
(* Every step keeps each sleeping task a waker.                            *)
LEMMA NextWakeable == IInv /\ [Next]_mlockvars => Wakeable'
<1> SUFFICES ASSUME IInv, [Next]_mlockvars PROVE Wakeable'
  OBVIOUS
<1> USE DEF IInv, MLockTypeOK, Goes
<1>1. ASSUME flgptn' = flgptn,
             \A t \in Tasks : call[t] \in {"toWait", "waiting"} =>
                                no[t]' = no[t] /\ (Waker(no[t]) => Waker(no[t])'),
             \A t \in Tasks :
                call'[t] = call[t] \/ call'[t] \notin {"toWait", "waiting"}
      PROVE  Wakeable'
  BY <1>1 DEF Wakeable
<1>2. ASSUME NEW t \in Tasks, NEW n \in Locks, Inc(t, n) PROVE Wakeable'
  <2>1. \A m \in Locks : Waker(m) => Waker(m)'
    BY <1>2 DEF Inc, Waker, Owns
  <2> QED BY <1>1, <1>2, <2>1 DEF Inc
<1>3. ASSUME NEW t \in Tasks, NEW n \in Locks, BitReset(t, n) PROVE Wakeable'
  <2>1. Waker(n)'
    BY <1>3 DEF BitReset, Waker
  <2>2. \A m \in Locks : m # n /\ Waker(m) => Waker(m)'
    BY <1>3 DEF BitReset, Waker, Owns
  <2> QED BY <1>1, <1>3, <2>1, <2>2 DEF BitReset
<1>4. ASSUME NEW t \in Tasks, TestAndSet(t) PROVE Wakeable'
  <2>1. Waker(no[t])'
    <3>1. CASE no[t] \in flg
      <4>1. PICK u \in Tasks : Owns(u, no[t])
        BY <3>1 DEF SetIffOwned
      <4>2. Owns(u, no[t])'
        BY <1>4, <4>1 DEF TestAndSet, Owns
      <4> QED BY <1>4, <4>2 DEF TestAndSet, Waker
    <3>2. CASE no[t] \notin flg
      BY <1>4, <3>2 DEF TestAndSet, Waker, Owns
    <3> QED BY <3>1, <3>2
  <2>2. \A m \in Locks : m # no[t] /\ Waker(m) => Waker(m)'
    BY <1>4 DEF TestAndSet, Waker, Owns
  <2>3. no' = no /\ flgptn' = flgptn /\ call'[t] # "waiting"
        /\ \A u \in Tasks : u # t => call'[u] = call[u]
    BY <1>4 DEF TestAndSet
  <2> QED BY <2>1, <2>2, <2>3 DEF Wakeable
<1>5. ASSUME NEW t \in Tasks, WaiFlg(t) PROVE Wakeable'
  <2>1. CASE no[t] \in flgptn
    <3>1. Waker(no[t])'
      BY <1>5, <2>1 DEF WaiFlg, Waker
    <3>2. \A m \in Locks : m # no[t] /\ Waker(m) => Waker(m)'
      BY <1>5, <2>1 DEF WaiFlg, Waker, Owns
    <3>3. /\ no' = no /\ flgptn' = flgptn \ {no[t]} /\ call'[t] = "toTest"
          /\ \A u \in Tasks : u # t => call'[u] = call[u]
      BY <1>5, <2>1 DEF WaiFlg
    <3> QED BY <3>1, <3>2, <3>3 DEF Wakeable
  <2>2. CASE no[t] \notin flgptn
    <3>1. \A m \in Locks : Waker(m) => Waker(m)'
      BY <1>5, <2>2 DEF WaiFlg, Waker, Owns
    <3>2. /\ no' = no /\ flgptn' = flgptn /\ call[t] = "toWait"
          /\ call'[t] \in {"waiting", "failed"}
          /\ \A u \in Tasks : u # t => call'[u] = call[u]
      BY <1>5, <2>2 DEF WaiFlg
    <3> QED BY <2>2, <3>1, <3>2 DEF Wakeable
  <2> QED BY <2>1, <2>2
<1>6. ASSUME NEW t \in Tasks, EndWait(t) PROVE Wakeable'
  <2>1. \A m \in Locks : Waker(m) => Waker(m)'
    BY <1>6 DEF EndWait, Waker, Owns
  <2> QED BY <1>1, <1>6, <2>1 DEF EndWait
<1>7. ASSUME NEW t \in Tasks, Dec(t) PROVE Wakeable'
  <2>1. \A m \in Locks : Waker(m) => Waker(m)'
    BY <1>7 DEF Dec, Waker, Owns
  <2> QED BY <1>1, <1>7, <2>1 DEF Dec
<1>8. ASSUME NEW t \in Tasks, Look(t) PROVE Wakeable'
  <2>1. CASE NobodyInside
    <3>1. Inside = {}
      BY <2>1, InsideCount DEF NobodyInside, Counted
    <3> QED BY <1>8, <3>1 DEF Look, Inside, Wakeable
  <2>2. CASE ~NobodyInside
    <3>1. \A m \in Locks : Waker(m) => Waker(m)'
      BY <1>8, <2>2 DEF Look, Waker, Owns
    <3> QED BY <1>1, <1>8, <2>2, <3>1 DEF Look
  <2> QED BY <2>1, <2>2
<1>9. ASSUME NEW t \in Tasks, SetFlg(t) PROVE Wakeable'
  <2>1. no' = no /\ has' = has /\ flgptn' \subseteq flgptn \cup {no[t]}
    BY <1>9, SetFlgMoves
  <2>2. call[t] = "toSet" /\ call'[t] = "out"
    BY <1>9, SetFlgMoves
  <2>3. \A u \in Tasks \ {t} : \/ call'[u] = call[u]
                               \/ call[u] = "waiting" /\ call'[u] = "toTest"
    BY <1>9, SetFlgMoves
  <2>4. \A b \in flgptn \cup {no[t]} :
            \/ b \in flgptn' /\ Waiters(b) = {}
            \/ b \notin flgptn' /\ Waker(b)'
    <3>1. \A b \in flgptn \cup {no[t]} :
            \/ b \in flgptn' /\ Waiters(b) = {}
            \/ b \notin flgptn' /\ \E u \in Tasks : no[u] = b /\ call'[u] = "toTest"
      BY <1>9, SetFlgMoves
    <3> QED BY <2>1, <3>1 DEF Waker
  <2>5. \A m \in Locks : m # no[t] /\ Waker(m) => Waker(m)'
    BY <2>1, <2>2, <2>3 DEF Waker, Owns
  <2>6. ASSUME NEW u \in Tasks, call'[u] = "waiting"
        PROVE  no[u] \notin flgptn' /\ Waker(no[u])'
    <3>1. call[u] = "waiting" /\ u \in Waiters(no[u])
      BY <2>2, <2>3, <2>6 DEF Waiters
    <3>2. no[u] \notin flgptn /\ Waker(no[u]) /\ no[u] \in Locks
      BY <3>1 DEF Wakeable
    <3>3. CASE no[u] = no[t]
      BY <2>1, <2>4, <3>1, <3>3
    <3>4. CASE no[u] # no[t]
      BY <2>1, <2>5, <3>2, <3>4
    <3> QED BY <3>3, <3>4
  <2>7. ASSUME NEW u \in Tasks, call'[u] = "toWait"
        PROVE  no[u] \in flgptn' \/ Waker(no[u])'
    <3>1. call[u] = "toWait" /\ no[u] \in Locks
      BY <2>2, <2>3, <2>7
    <3>2. no[u] \in flgptn \/ Waker(no[u])
      BY <3>1 DEF Wakeable
    <3>3. CASE no[u] \in flgptn \cup {no[t]}
      BY <2>1, <2>4, <3>3
    <3>4. CASE no[u] \notin flgptn \cup {no[t]}
      BY <2>1, <2>5, <3>1, <3>2, <3>4
    <3> QED BY <3>3, <3>4
  <2> QED BY <2>1, <2>6, <2>7 DEF Wakeable
<1>10. CASE UNCHANGED mlockvars
  BY <1>10 DEF mlockvars, Wakeable, Waker, Owns
<1> QED BY <1>2, <1>3, <1>4, <1>5, <1>6, <1>7, <1>8, <1>9, <1>10 DEF Next

-----------------------------------------------------------------------------
(* The inductive invariant of the multi-lock                               *)
THEOREM MLockInvariant == Spec => []IInv
<1>1. Init => IInv
  BY InitIInv
<1>2. IInv /\ [Next]_mlockvars => IInv'
  BY NextTypeOK, NextCounted, NextOwned, NextWakeable DEF IInv
<1> QED BY <1>1, <1>2, PTL DEF Spec

(* No two of any number of tasks have a lock of the same number, and a     *)
(* number whose bit is set is had by a task: MLock and MUnlock with waits  *)
(* that end in any way.                                                    *)
THEOREM MLockExclusive == Spec => []LockExclusive
<1>1. IInv => LockExclusive
  BY DEF IInv, MLockTypeOK, OneOwner, SetIffOwned, LockExclusive
<1> QED BY <1>1, MLockInvariant, PTL

(* A task that sleeps in MLock has a task that will wake it: MUnlock reads *)
(* the counter after it has cleared the bit.                               *)
THEOREM MLockWakesSleepers == Spec => []SleeperHasUnlocker
<1>1. IInv => SleeperHasUnlocker
  BY DEF IInv, Wakeable, Waker, Waiters, SleeperHasUnlocker
<1> QED BY <1>1, MLockInvariant, PTL
=============================================================================
