----------------------------- MODULE FastMLock ------------------------------
(***************************************************************************)
(* The high-speed multi-lock of the T-Kernel library                       *)
(* (lib/libtk/src/fastmlock.c): one word holds a bit per lock number, a    *)
(* counter the tasks that are inside MLock, and one event flag parks the   *)
(* tasks of all lock numbers.  Each of the steps on the word, the counter  *)
(* and the flag is atomic; every other task may run between them.          *)
(*                                                                         *)
(* A task may have several locks.  Waits end by timeout or by force.       *)
(***************************************************************************)
EXTENDS TaskPriorities, Integers

CONSTANTS Locks,   \* the lock numbers in use
          Rank     \* Rank[t]: the priority of t, in Pri

VARIABLES flg,    \* FastMLock.flg: the numbers whose bit is set
          wai,    \* FastMLock.wai
          flgptn, \* the bits of the event flag FastMLock.id
          call,   \* where each task stands in MLock or MUnlock
          no,     \* the lock number of that call
          has     \* the locks each task has when it is outside of the calls

mlockvars == <<flg, wai, flgptn, call, no, has>>

(* MLock passes "toTest", perhaps "toWait" and "waiting", then "locked" or *)
(* "failed"; MUnlock passes "toLook" and perhaps "toSet".                  *)
Calls == {"out", "toTest", "toWait", "waiting", "locked", "failed",
          "toLook", "toSet"}

MLockTypeOK ==
    /\ flg \in SUBSET Locks
    /\ wai \in Int
    /\ flgptn \in SUBSET Locks
    /\ call \in [Tasks -> Calls]
    /\ no \in [Tasks -> Locks]
    /\ has \in [Tasks -> SUBSET Locks]

(* CreateMLock *)
Init ==
    /\ flg = {}
    /\ wai = 0
    /\ flgptn = {}
    /\ call = [t \in Tasks |-> "out"]
    /\ no \in [Tasks -> Locks]
    /\ has = [t \in Tasks |-> {}]

Goes(t, from, to) == call[t] = from /\ call' = [call EXCEPT ![t] = to]

-----------------------------------------------------------------------------
(* Definitions marked "fault" are not the code: each is a plausible mistake *)
(* in the definition that follows it.                                      *)

(* MLock announces itself on the counter first. *)
Inc(t, n) ==
    /\ n \notin has[t]
    /\ Goes(t, "out", "toTest")
    /\ wai' = wai + 1
    /\ no' = [no EXCEPT ![t] = n]
    /\ UNCHANGED <<flg, flgptn, has>>

(* fault: the bit is tested and set in two steps, the second of which is   *)
(* taken for granted                                                       *)
TestOnly(t) ==
    /\ Goes(t, "toTest", IF no[t] \in flg THEN "toWait" ELSE "locked")
    /\ UNCHANGED <<flg, wai, flgptn, no, has>>

(* BTS: the bit is set; the lock is taken if it was not set before. *)
TestAndSet(t) ==
    /\ Goes(t, "toTest", IF no[t] \in flg THEN "toWait" ELSE "locked")
    /\ flg' = flg \cup {no[t]}
    /\ UNCHANGED <<wai, flgptn, no, has>>

(* tk_wai_flg(id, 1 << no, TWF_ORW|TWF_BITCLR): the bit is taken, or the   *)
(* task waits for it; with TMO_POL it gives up.                            *)
WaiFlg(t) ==
    /\ \/ /\ no[t] \in flgptn
          /\ Goes(t, "toWait", "toTest")
          /\ flgptn' = flgptn \ {no[t]}
       \/ /\ no[t] \notin flgptn
          /\ Goes(t, "toWait", "waiting") \/ Goes(t, "toWait", "failed")
          /\ UNCHANGED flgptn
    /\ UNCHANGED <<flg, wai, no, has>>

(* The wait ends with E_TMOUT or E_RLWAI: MLock ends with that error. *)
EndWait(t) ==
    /\ Goes(t, "waiting", "failed")
    /\ UNCHANGED <<flg, wai, flgptn, no, has>>

(* MLock leaves the counter and returns. *)
Dec(t) ==
    /\ \/ /\ Goes(t, "locked", "out")
          /\ has' = [has EXCEPT ![t] = @ \cup {no[t]}]
       \/ /\ Goes(t, "failed", "out")
          /\ UNCHANGED has
    /\ wai' = wai - 1
    /\ UNCHANGED <<flg, flgptn, no>>

(* MUnlock: BR frees the lock, and only then wai is read. *)
BitReset(t, n) ==
    /\ n \in has[t]
    /\ Goes(t, "out", "toLook")
    /\ flg' = flg \ {n}
    /\ no' = [no EXCEPT ![t] = n]
    /\ has' = [has EXCEPT ![t] = @ \ {n}]
    /\ UNCHANGED <<wai, flgptn>>

(* fault: one task inside MLock is thought to be the caller itself *)
OneIsInside == wai <= 1

NobodyInside == wai = 0

Look(t) ==
    /\ Goes(t, "toLook", IF NobodyInside THEN "out" ELSE "toSet")
    /\ UNCHANGED <<flg, wai, flgptn, no, has>>

Waiters(b) == {u \in Tasks : call[u] = "waiting" /\ no[u] = b}

(* The first in the TA_TPRI queue that wait for bit b *)
Heads(b) == {h \in Waiters(b) : \A u \in Waiters(b) : Rank[h] <= Rank[u]}

(* tk_set_flg: for each bit that is set and waited for, the first such     *)
(* task is released and takes the bit.                                     *)
SetFlg(t) ==
    LET ptn == flgptn \cup {no[t]}
        hit == {b \in ptn : Waiters(b) # {}}
    IN  /\ call[t] = "toSet"
        /\ \E h \in [hit -> Tasks] :
            /\ \A b \in hit : h[b] \in Heads(b)
            /\ call' = [u \in Tasks |->
                            CASE u = t -> "out"
                              [] u # t /\ (\E b \in hit : u = h[b]) -> "toTest"
                              [] OTHER -> call[u]]
        /\ flgptn' = ptn \ hit
        /\ UNCHANGED <<flg, wai, no, has>>

Next ==
    \E t \in Tasks :
        \/ \E n \in Locks : Inc(t, n) \/ BitReset(t, n)
        \/ TestAndSet(t) \/ WaiFlg(t) \/ EndWait(t) \/ Dec(t)
        \/ Look(t) \/ SetFlg(t)

Spec == Init /\ [][Next]_mlockvars

-----------------------------------------------------------------------------
Owns(t, n) == n \in has[t] \/ (call[t] = "locked" /\ no[t] = n)

(* No two tasks have a lock of the same number, and a number that nobody   *)
(* has can be locked: also after timeouts, and after wakeups that came     *)
(* from bits which earlier unlocks left in the event flag.                 *)
LockExclusive ==
    /\ \A t, u \in Tasks, n \in Locks : Owns(t, n) /\ Owns(u, n) => t = u
    /\ \A n \in flg : \E t \in Tasks : Owns(t, n)

(* No lost wakeup: while a task sleeps for a lock, another one has the     *)
(* lock, is on its way to set the flag for it, or is about to test the     *)
(* lock and will unlock it later.                                          *)
SleeperHasUnlocker ==
    \A n \in Locks : Waiters(n) # {} =>
        \E t \in Tasks :
            \/ Owns(t, n)
            \/ no[t] = n /\ call[t] \in {"toTest", "toLook", "toSet"}
=============================================================================
