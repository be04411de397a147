-------------------------- MODULE WaitObjectProofs --------------------------
(***************************************************************************)
(* Proofs about the objects that tasks wait for in the queue of wait.c:    *)
(* semaphores, event flags, rendezvous ports and message buffers; and, at  *)
(* the end, about the timer event queue, which ends the waits with a limit *)
(* and runs the time event handlers, for any tasks, handlers, times and    *)
(* period of the timer interrupt.                                          *)
(***************************************************************************)
EXTENDS Semaphore, EventFlag, Rendezvous, MessageBuffer, TimerEvents, QueueLemmas

-----------------------------------------------------------------------------
(* The wait queue                                                          *)

LEMMA PriorityIsNat ==
    ASSUME NEW f \in [Tasks -> Pri]
    PROVE  \A t \in Tasks : f[t] \in Nat
  BY TaskPrioritiesAssumption

(* queue_insert_tpri: the priority of t, and only this, may be another one *)
(* than when the queue was made.                                           *)
LEMMA InsertByPriority ==
    ASSUME NEW q, NEW A, Linked(Tasks, q, A), NEW t \in Tasks \ A,
           NEW f \in [Tasks -> Pri], SortedBy(q, f)
    PROVE  /\ Linked(Tasks, queue_insert_tpri(q, t, f), A \cup {t})
           /\ SortedBy(queue_insert_tpri(q, t, f), f)
<1> DEFINE p == f[t]
           r == InsertAt(q, KeyPlace(q, f, p), t)
<1>1. p \in Nat /\ \A u \in Tasks : f[u] \in Nat
  BY PriorityIsNat
<1>2. r = queue_insert_tpri(q, t, f)
  BY DEF queue_insert_tpri, KeyPlace
<1> HIDE DEF p, r
<1>3. r = InsertAt(q, KeyPlace(q, f, p), t) /\ f[t] = p
  BY DEF r, p
<1>4. Linked(Tasks, r, A \cup {t}) /\ SortedBy(r, f)
  BY <1>1, <1>3, KeyedInsertion
<1> QED BY <1>2, <1>4

LEMMA MakeWait ==
    ASSUME NEW q, NEW A, Linked(Tasks, q, A), NEW t \in Tasks \ A,
           NEW f \in [Tasks -> Pri], NEW tpri \in BOOLEAN,
           tpri => SortedBy(q, f),
           NEW r, r = gcb_make_wait(q, t, f, tpri)
    PROVE  /\ Linked(Tasks, r, A \cup {t})
           /\ tpri => SortedBy(r, f)
<1>1. CASE tpri
  BY <1>1, InsertByPriority DEF gcb_make_wait
<1>2. CASE ~tpri
  BY <1>2, AppendLinked DEF gcb_make_wait
<1> QED BY <1>1, <1>2

(* gcb_top_of_wait_queue says who is at the head once t waits. *)
LEMMA TopOfWaitQueue ==
    ASSUME NEW q \in Seq(Tasks), NEW t \in Tasks,
           NEW f \in [Tasks -> Pri], NEW tpri \in BOOLEAN,
           NEW r, r = gcb_make_wait(q, t, f, tpri)
    PROVE  r[1] = gcb_top_of_wait_queue(q, t, f, tpri)
<1>1. /\ Len(q) \in Nat /\ q = <<>> <=> Len(q) = 0
      /\ \A i \in 1 .. Len(q) : q[i] \in Tasks
      /\ q # <<>> => Head(q) = q[1]
  BY PlacesOf
<1>2. CASE tpri
  <2>1. r = InsertAt(q, KeyPlace(q, f, f[t]), t)
    BY <1>2 DEF gcb_make_wait, queue_insert_tpri, KeyPlace
  <2>2. /\ q = <<>> => r[1] = t
        /\ q # <<>> => r[1] = IF f[q[1]] <= f[t] THEN q[1] ELSE t
    BY <2>1, KeyedHead
  <2>3. q # <<>> => f[q[1]] \in Nat /\ f[t] \in Nat
    BY <1>1, PriorityIsNat
  <2>4. CASE q = <<>>
    BY <2>2, <2>4 DEF gcb_top_of_wait_queue
  <2>5. CASE q # <<>> /\ f[t] < f[q[1]]
    <3>1. r[1] = t
      BY <2>2, <2>3, <2>5
    <3> QED BY <1>1, <1>2, <2>5, <3>1 DEF gcb_top_of_wait_queue
  <2>6. CASE q # <<>> /\ ~(f[t] < f[q[1]])
    <3>1. r[1] = q[1]
      BY <2>2, <2>3, <2>6
    <3> QED BY <1>1, <1>2, <2>6, <3>1 DEF gcb_top_of_wait_queue
  <2> QED BY <2>4, <2>5, <2>6
<1>3. CASE ~tpri
  <2>1. r = Append(q, t)
    BY <1>3 DEF gcb_make_wait
  <2>2. /\ \A i \in 1 .. Len(q) : r[i] = q[i]
        /\ r[Len(q) + 1] = t
    BY <2>1, AppendProperties
  <2> QED BY <1>1, <1>3, <2>2 DEF gcb_top_of_wait_queue
<1> QED BY <1>2, <1>3

(* The place of a task whose priority changes from f to g is found anew.   *)
LEMMA ChangePriority ==
    ASSUME NEW q, NEW A, Linked(Tasks, q, A), NEW t \in A,
           NEW f, SortedBy(q, f), NEW g \in [Tasks -> Pri],
           \A u \in Tasks \ {t} : g[u] = f[u],
           NEW r, r = gcb_change_priority(q, t, g)
    PROVE  Linked(Tasks, r, A) /\ SortedBy(r, g)
<1> DEFINE s == RemoveFirst(q, t)
<1>1. A \subseteq Tasks
  BY PlacesOf DEF Linked
<1>2. Linked(Tasks, s, A \ {t}) /\ SortedBy(s, g)
  <2>1. \A u \in A \ {t} : g[u] = f[u]
    BY <1>1
  <2> QED BY <2>1, RemoveInOrder
<1>3. r = queue_insert_tpri(s, t, g)
  BY DEF gcb_change_priority
<1> HIDE DEF s
<1>4. t \in Tasks \ (A \ {t}) /\ (A \ {t}) \cup {t} = A
  BY <1>1
<1> DEFINE B == A \ {t}
<1> HIDE DEF B
<1>5. Linked(Tasks, r, B \cup {t}) /\ SortedBy(r, g)
  BY <1>2, <1>3, <1>4, InsertByPriority DEF B
<1> QED BY <1>4, <1>5 DEF B

LEMMA LeaveQueue ==
    ASSUME NEW q, NEW A, Linked(Tasks, q, A), NEW t,
           NEW r, r = RemoveFirst(q, t)
    PROVE  Linked(Tasks, r, A \ {t}) /\ InOrderOf(q, r)
<1>1. Linked(Tasks, r, A \ {t})
  BY RemoveInOrder
<1>2. ASSUME NEW f, SortedBy(q, f) PROVE SortedBy(r, f)
  BY <1>2, RemoveInOrder
<1> QED BY <1>1, <1>2 DEF InOrderOf

(* Who comes first in a part of a queue comes first in the queue.          *)
LEMMA StaysBefore ==
    ASSUME NEW q, NEW A, Linked(Tasks, q, A), NEW r, NEW B,
           Linked(Tasks, r, B), B \subseteq A, InOrderOf(q, r),
           NEW t, NEW u, Before(r, t, u)
    PROVE  Before(q, t, u)
<1>1. PICK f : SortedBy(q, f) /\ \A i \in 1 .. Len(q) : f[q[i]] = i
  BY OrderOfPlaces
<1>2. SortedBy(r, f)
  BY <1>1 DEF InOrderOf
<1>3. PICK i \in 1 .. Len(r), j \in 1 .. Len(r) : i < j /\ r[i] = t /\ r[j] = u
  BY DEF Before
<1>4. f[t] <= f[u]
  BY <1>2, <1>3 DEF SortedBy
<1>5. t \in A /\ u \in A /\ t # u
  <2>1. /\ \A x : x \in B <=> \E k \in 1 .. Len(r) : r[k] = x
        /\ \A x, y \in 1 .. Len(r) : r[x] = r[y] => x = y
    BY PlacesOf DEF Linked
  <2> QED BY <1>3, <2>1
<1>6. /\ Len(q) \in Nat
      /\ \A x : x \in A <=> \E k \in 1 .. Len(q) : q[k] = x
  BY PlacesOf DEF Linked
<1>7. PICK k \in 1 .. Len(q), l \in 1 .. Len(q) : q[k] = t /\ q[l] = u
  BY <1>5, <1>6
<1>8. k <= l /\ k # l
  BY <1>1, <1>4, <1>5, <1>7
<1> QED BY <1>6, <1>7, <1>8 DEF Before

-----------------------------------------------------------------------------
(* Semaphore: one search through the queue                                 *)

SEMCB == [semid : BOOLEAN, tpri : BOOLEAN, cntatr : BOOLEAN,
          semcnt : Nat, maxsem : Nat, wait_queue : Seq(Tasks)]

(* s with a queue that links each task once *)
SemQueued(s) == s \in SEMCB /\ Linked(Tasks, s.wait_queue, ToSet(s.wait_queue))

(* r is s after requests of some of its tasks were met. *)
SemServed(s, r) ==
    /\ SemQueued(r)
    /\ r.semid = s.semid /\ r.tpri = s.tpri
    /\ r.cntatr = s.cntatr /\ r.maxsem = s.maxsem
    /\ r.semcnt \in 0 .. s.semcnt
    /\ ToSet(r.wait_queue) \subseteq ToSet(s.wait_queue)
    /\ InOrderOf(s.wait_queue, r.wait_queue)

SemRound == {x \in [sem : SEMCB, full : BOOLEAN] : SemQueued(x.sem)}

(* After i rounds of the loop that begins with s: those not looked at yet  *)
(* are all in the queue; with TA_CNT the count does not suffice for those  *)
(* who still are; and without it the queue has lost its first tasks only.  *)
AfterRounds(s, i, x) ==
    LET q    == s.wait_queue
        left == ToSet(x.sem.wait_queue)
    IN  /\ x \in SemRound /\ SemServed(s, x.sem)
        /\ \A j \in 1 .. Len(q) : j > i => q[j] \in left
        /\ ~x.full => \A j \in 1 .. i :
                q[j] \in left => s.cntatr /\ x.sem.semcnt < need[q[j]]
        /\ x.full => /\ ~s.cntatr
                     /\ \E j \in 1 .. i : /\ x.sem.semcnt < need[q[j]]
                                         /\ \A l \in 1 .. Len(q) : q[l] \in left <=> l >= j

(* The task whose request is met leaves the queue. *)
LEMMA ServeOne ==
    ASSUME need \in [Tasks -> Nat], NEW x \in SemRound, NEW t \in Tasks,
           ~x.full, ~(x.sem.semcnt < need[t]),
           NEW y, y = ServeNext(x, t)
    PROVE  /\ y \in SemRound /\ ~y.full /\ SemServed(x.sem, y.sem)
           /\ y.sem.semcnt <= x.sem.semcnt
           /\ ToSet(y.sem.wait_queue) = ToSet(x.sem.wait_queue) \ {t}
<1> DEFINE r == RemoveFirst(x.sem.wait_queue, t)
           A == ToSet(x.sem.wait_queue)
           c == x.sem.semcnt - need[t]
<1>1. x \in [sem : SEMCB, full : BOOLEAN] /\ x.sem \in SEMCB /\ Linked(Tasks, x.sem.wait_queue, A)
  BY DEF SemRound, SemQueued
<1>2. c \in 0 .. x.sem.semcnt
  BY <1>1 DEF SEMCB
<1>3. Linked(Tasks, r, A \ {t}) /\ InOrderOf(x.sem.wait_queue, r)
  BY <1>1, LeaveQueue
<1>4. y = [x EXCEPT !.sem.semcnt = c, !.sem.wait_queue = r]
  BY DEF ServeNext
<1>5. r \in Seq(Tasks) /\ ToSet(r) = A \ {t}
  BY <1>3 DEF Linked
<1> HIDE DEF r, c, A
<1>6. /\ y \in [sem : SEMCB, full : BOOLEAN] /\ ~y.full
      /\ y.sem = [x.sem EXCEPT !.semcnt = c, !.wait_queue = r]
  <2> DEFINE z == [x.sem EXCEPT !.semcnt = c, !.wait_queue = r]
  <2>1. c \in Nat
    BY <1>1, <1>2 DEF SEMCB
  <2>2. z \in SEMCB
    BY <1>1, <1>5, <2>1 DEF SEMCB
  <2>3. y = [x EXCEPT !.sem = z]
    BY <1>1, <1>4
  <2> HIDE DEF z
  <2>4. y \in [sem : SEMCB, full : BOOLEAN] /\ ~y.full /\ y.sem = z
    BY <1>1, <2>2, <2>3
  <2> QED BY <2>4 DEF z
<1>7. /\ y.sem \in SEMCB /\ y.sem.semid = x.sem.semid /\ y.sem.tpri = x.sem.tpri
      /\ y.sem.cntatr = x.sem.cntatr /\ y.sem.maxsem = x.sem.maxsem
      /\ y.sem.semcnt = c /\ y.sem.wait_queue = r
  BY <1>1, <1>6 DEF SEMCB
<1>8. SemQueued(y.sem)
  BY <1>3, <1>5, <1>7 DEF SemQueued
<1>9. c <= x.sem.semcnt
  BY <1>1, <1>2 DEF SEMCB
<1>10. A \ {t} \subseteq A
  OBVIOUS
<1>11. SemServed(x.sem, y.sem)
  BY <1>2, <1>3, <1>5, <1>7, <1>8, <1>10 DEF SemServed, A
<1> QED BY <1>5, <1>6, <1>7, <1>8, <1>9, <1>11 DEF SemRound, A

LEMMA ServeNextType ==
    ASSUME need \in [Tasks -> Nat], NEW x \in SemRound, NEW t \in Tasks
    PROVE  ServeNext(x, t) \in SemRound
<1>1. CASE x.full
  BY <1>1 DEF ServeNext
<1>2. CASE ~x.full /\ x.sem.semcnt < need[t]
  <2>1. ServeNext(x, t) = [x EXCEPT !.full = ~x.sem.cntatr]
    BY <1>2 DEF ServeNext
  <2> QED BY <2>1 DEF SemRound, SEMCB
<1>3. CASE ~x.full /\ ~(x.sem.semcnt < need[t])
  BY <1>3, ServeOne
<1> QED BY <1>1, <1>2, <1>3

LEMMA ServedTwice ==
    ASSUME NEW s, NEW r, NEW v, SemQueued(s), SemServed(s, r), SemServed(r, v)
    PROVE  SemServed(s, v)
<1>1. s.semcnt \in Nat /\ r.semcnt \in 0 .. s.semcnt /\ v.semcnt \in 0 .. r.semcnt
  BY DEF SemServed, SemQueued, SEMCB
<1>2. v.semcnt \in 0 .. s.semcnt
  BY <1>1
<1>3. InOrderOf(s.wait_queue, v.wait_queue)
  BY DEF SemServed, InOrderOf
<1> QED BY <1>2, <1>3 DEF SemServed

(* One round of the loop *)
LEMMA ServeRound ==
    ASSUME need \in [Tasks -> Nat], NEW s, SemQueued(s), NEW i \in Nat,
           i < Len(s.wait_queue), NEW x, AfterRounds(s, i, x),
           NEW y, y = ServeNext(x, s.wait_queue[i + 1])
    PROVE  AfterRounds(s, i + 1, y)
<1> DEFINE q == s.wait_queue
           n == Len(q)
           t == q[i + 1]
           A == ToSet(x.sem.wait_queue)
           B == ToSet(y.sem.wait_queue)
<1>1. /\ n \in Nat /\ i + 1 \in 1 .. n /\ t \in Tasks
      /\ \A j \in 1 .. n : q[j] \in Tasks
      /\ \A j, k \in 1 .. n : q[j] = q[k] => j = k
  <2>1. q \in Seq(Tasks) /\ IsInjective(q)
    BY DEF SemQueued, Linked
  <2> HIDE DEF q
  <2>2. /\ n \in Nat /\ \A j \in 1 .. n : q[j] \in Tasks
        /\ \A j, k \in 1 .. n : q[j] = q[k] => j = k
    BY <2>1, PlacesOf
  <2>3. i + 1 \in 1 .. n
    BY <2>2 DEF q
  <2> QED BY <2>2, <2>3
<1>2. x \in SemRound /\ SemServed(s, x.sem) /\ t \in A
  <2>1. i + 1 > i
    OBVIOUS
  <2> QED BY <1>1, <2>1 DEF AfterRounds
<1>3. CASE x.full
  <2>1. y = x
    BY <1>3 DEF ServeNext
  <2>2. /\ ~s.cntatr
        /\ \E j \in 1 .. i : /\ x.sem.semcnt < need[q[j]]
                            /\ \A l \in 1 .. n : q[l] \in A <=> l >= j
    BY <1>3 DEF AfterRounds
  <2>3. \A j \in 1 .. n : j > i + 1 => q[j] \in A
    BY <1>1 DEF AfterRounds
  <2>4. \E j \in 1 .. i + 1 : /\ x.sem.semcnt < need[q[j]]
                            /\ \A l \in 1 .. n : q[l] \in A <=> l >= j
    BY <2>2
  <2> QED BY <1>2, <1>3, <2>1, <2>2, <2>3, <2>4 DEF AfterRounds
<1>4. CASE ~x.full /\ x.sem.semcnt < need[t]
  <2>1. y = [x EXCEPT !.full = ~x.sem.cntatr]
    BY <1>4 DEF ServeNext
  <2>2. /\ y \in SemRound /\ y.sem = x.sem /\ y.full = ~s.cntatr /\ s.cntatr \in BOOLEAN
    BY <1>2, <2>1 DEF SemRound, SemServed, SemQueued, SEMCB
  <2>3. \A j \in 1 .. i : q[j] \in A => s.cntatr /\ x.sem.semcnt < need[q[j]]
    BY <1>4 DEF AfterRounds
  <2>4. \A j \in 1 .. n : j > i => q[j] \in A
    BY DEF AfterRounds
  <2>5. ASSUME NEW j \in 1 .. n, j > i + 1 PROVE q[j] \in A
    <3>1. j > i
      BY <1>1, <2>5
    <3> QED BY <2>4, <3>1
  <2>6. CASE s.cntatr
    <3>1. ~y.full
      BY <2>2, <2>6
    <3>2. \A j \in 1 .. i + 1 : q[j] \in A => s.cntatr /\ x.sem.semcnt < need[q[j]]
      <4>1. \A j \in 1 .. i + 1 : j \in 1 .. i \/ j = i + 1
        OBVIOUS
      <4> QED BY <1>4, <2>3, <2>6, <4>1
    <3> QED BY <1>2, <2>2, <2>5, <3>1, <3>2 DEF AfterRounds
  <2>7. CASE ~s.cntatr
    <3>1. y.full
      BY <2>2, <2>7
    <3>2. \A l \in 1 .. n : q[l] \in A <=> l >= i + 1
      <4>1. \A l \in 1 .. n : l \in 1 .. i \/ (l > i /\ l >= i + 1)
        BY <1>1
      <4>2. \A l \in 1 .. i : ~(l >= i + 1)
        OBVIOUS
      <4> QED BY <2>3, <2>4, <2>7, <4>1, <4>2
    <3>3. \E j \in 1 .. i + 1 : /\ x.sem.semcnt < need[q[j]]
                              /\ \A l \in 1 .. n : q[l] \in A <=> l >= j
      <4>1. i + 1 \in 1 .. i + 1
        OBVIOUS
      <4> QED BY <1>4, <3>2, <4>1
    <3> QED BY <1>2, <2>2, <2>5, <2>7, <3>1, <3>3 DEF AfterRounds
  <2> QED BY <2>6, <2>7
<1>5. CASE ~x.full /\ ~(x.sem.semcnt < need[t])
  <2>1. /\ y \in SemRound /\ ~y.full /\ SemServed(x.sem, y.sem)
        /\ y.sem.semcnt <= x.sem.semcnt /\ B = A \ {t}
    BY <1>1, <1>2, <1>5, ServeOne
  <2>2. SemServed(s, y.sem)
    BY <1>2, <2>1, ServedTwice
  <2>3. \A j \in 1 .. n : j > i + 1 => q[j] \in B
    <3>1. ASSUME NEW j \in 1 .. n, j > i + 1 PROVE q[j] \in B
      <4>1. j > i /\ j # i + 1
        BY <1>1, <3>1
      <4>2. q[j] \in A
        BY <4>1 DEF AfterRounds
      <4> QED BY <1>1, <2>1, <4>1, <4>2
    <3> QED BY <3>1
  <2>4. ASSUME NEW j \in 1 .. i + 1, q[j] \in B
        PROVE  s.cntatr /\ y.sem.semcnt < need[q[j]]
    <3>1. j \in 1 .. i
      BY <2>1, <2>4
    <3>2. s.cntatr /\ x.sem.semcnt < need[q[j]]
      BY <1>5, <2>1, <2>4, <3>1 DEF AfterRounds
    <3>3. x.sem.semcnt \in Nat /\ y.sem.semcnt \in Nat /\ need[q[j]] \in Nat
      <4>1. x.sem \in SEMCB /\ y.sem \in SEMCB
        BY <1>2, <2>1 DEF SemRound, SemQueued
      <4>2. q[j] \in Tasks
        BY <1>1, <3>1
      <4> QED BY <4>1, <4>2 DEF SEMCB
    <3> QED BY <2>1, <3>2, <3>3
  <2> QED BY <2>1, <2>2, <2>3, <2>4 DEF AfterRounds
<1> QED BY <1>3, <1>4, <1>5

(* The search leaves no task whose request could be met, or none at the    *)
(* head of the queue without TA_CNT, and there takes the first tasks only. *)
SearchedThrough(s, r) ==
    LET q == s.wait_queue  v == r.wait_queue
    IN  /\ SemServed(s, r)
        /\ \A i \in 1 .. Len(v) : s.cntatr \/ i = 1 => r.semcnt < need[v[i]]
        /\ ~s.cntatr => \A t \in ToSet(q) \ ToSet(v), u \in ToSet(v) : Before(q, t, u)

LEMMA AfterAllRounds ==
    ASSUME need \in [Tasks -> Nat], NEW s, SemQueued(s), NEW x,
           AfterRounds(s, Len(s.wait_queue), x)
    PROVE  SearchedThrough(s, x.sem)
<1> DEFINE q == s.wait_queue
           n == Len(q)
           v == x.sem.wait_queue
           left == ToSet(v)
           places == 1 .. Len(v)
<1>1. /\ n \in Nat /\ \A u : u \in ToSet(q) <=> \E i \in 1 .. n : q[i] = u
      /\ \A i \in 1 .. n : i \in 1 .. n
  BY PlacesOf DEF SemQueued, Linked
<1>2. SemServed(s, x.sem) /\ Linked(Tasks, v, left) /\ s.cntatr \in BOOLEAN
  BY DEF AfterRounds, SemRound, SemQueued, SEMCB
<1>3. \A u : u \in left <=> \E i \in places : v[i] = u
  <2>1. v \in Seq(Tasks)
    BY <1>2 DEF Linked
  <2> HIDE DEF v
  <2> QED BY <2>1, PlacesOf
<1>4. left \subseteq ToSet(q)
  BY <1>2 DEF SemServed
<1>5. CASE ~x.full
  <2>1. \A j \in 1 .. n : q[j] \in left => s.cntatr /\ x.sem.semcnt < need[q[j]]
    BY <1>5 DEF AfterRounds
  <2>2. \A u \in left : s.cntatr /\ x.sem.semcnt < need[u]
    <3> HIDE DEF q, n, left
    <3> QED BY <1>1, <1>4, <2>1
  <2>3. \A i \in places : x.sem.semcnt < need[v[i]]
    <3> HIDE DEF left, v, places
    <3> QED BY <1>3, <2>2
  <2> QED BY <1>2, <2>2, <2>3 DEF SearchedThrough
<1>6. CASE x.full
  <2>1. PICK j \in 1 .. n : /\ x.sem.semcnt < need[q[j]]
                          /\ \A l \in 1 .. n : q[l] \in left <=> l >= j
    BY <1>6 DEF AfterRounds
  <2>2. ~s.cntatr
    BY <1>6 DEF AfterRounds
  <2>3. ASSUME NEW i \in places, i = 1 PROVE v[i] = q[j]
    <3>1. PICK f : SortedBy(q, f) /\ \A l \in 1 .. n : f[q[l]] = l
      BY OrderOfPlaces DEF SemQueued
    <3>2. SortedBy(v, f)
      BY <1>2, <3>1 DEF SemServed, InOrderOf
    <3>3. v # <<>> /\ Head(v) = v[1]
      <4>1. v \in Seq(Tasks)
        BY <1>2 DEF Linked
      <4> QED BY <2>3, <4>1
    <3>4. \A u \in left : u = v[1] \/ f[v[1]] <= f[u]
      BY <1>2, <3>2, <3>3, LowestFirst
    <3> HIDE DEF v, q, n, left, places
    <3>5. v[1] \in left /\ q[j] \in left
      <4>1. j >= j
        BY <1>1
      <4> QED BY <1>3, <2>1, <2>3, <4>1
    <3>6. PICK l \in 1 .. n : q[l] = v[1]
      BY <1>1, <1>4, <3>5
    <3>7. l >= j /\ (q[j] = v[1] \/ l <= j)
      BY <2>1, <3>1, <3>4, <3>5, <3>6
    <3>8. l = j \/ q[j] = v[1]
      BY <1>1, <3>7
    <3> QED BY <2>3, <3>6, <3>8
  <2>4. \A i \in places : s.cntatr \/ i = 1 => x.sem.semcnt < need[v[i]]
    BY <2>1, <2>2, <2>3
  <2>5. ASSUME NEW t \in ToSet(q) \ left, NEW u \in left PROVE Before(q, t, u)
    <3> HIDE DEF v, left
    <3>1. PICK k \in 1 .. n, l \in 1 .. n : q[k] = t /\ q[l] = u
      <4> HIDE DEF q, n
      <4> QED BY <1>1, <1>4
    <3>2. l >= j /\ ~(k >= j)
      BY <2>1, <3>1
    <3>3. k < l
      BY <1>1, <3>2
    <3> QED BY <3>1, <3>3 DEF Before
  <2> QED BY <1>2, <2>2, <2>4, <2>5 DEF SearchedThrough
<1>7. x.full \in BOOLEAN
  BY DEF AfterRounds, SemRound
<1> QED BY <1>5, <1>6, <1>7

(* The loop is its rounds, one after the other. *)
LEMMA ServeQueueRounds ==
    ASSUME need \in [Tasks -> Nat], NEW s, SemQueued(s)
    PROVE  \E g : /\ ServeQueue(s) = g[Len(s.wait_queue)].sem
                  /\ g = [i \in 0 .. Len(s.wait_queue) |->
                            IF i = 0 THEN [sem |-> s, full |-> FALSE]
                            ELSE ServeNext(g[i - 1], s.wait_queue[i])]
<1> DEFINE n == Len(s.wait_queue)
           c == [sem |-> s, full |-> FALSE]
           Loop(f) == f = [i \in 0 .. n |->
                            IF i = 0 THEN c ELSE ServeNext(f[i - 1], s.wait_queue[i])]
           step == [i \in 1 .. n |-> [x \in SemRound |-> ServeNext(x, s.wait_queue[i])]]
<1>1. n \in Nat /\ \A i \in 1 .. n : s.wait_queue[i] \in Tasks
  BY PlacesOf DEF SemQueued, Linked
<1>2. c \in SemRound
  BY DEF SemRound, SemQueued
<1>3. step \in [1 .. n -> [SemRound -> SemRound]]
  <2> HIDE DEF n
  <2> QED BY <1>1, ServeNextType
<1>4. PICK f \in [0 .. n -> SemRound] : IsLoop(f, n, c, step)
  <2> HIDE DEF n, c, step
  <2> QED BY <1>1, <1>2, <1>3, Rounds
<1>5. Loop(f)
  <2>1. ASSUME NEW i \in 0 .. n, i # 0
        PROVE  step[i][f[i - 1]] = ServeNext(f[i - 1], s.wait_queue[i])
    <3>1. i \in 1 .. n /\ i - 1 \in 0 .. n
      BY <1>1, <2>1
    <3> HIDE DEF n
    <3> QED BY <1>4, <3>1
  <2> HIDE DEF step, n, c
  <2> QED BY <1>4, <2>1 DEF IsLoop
<1>6. Loop(CHOOSE g : Loop(g))
  <2> HIDE DEF Loop
  <2> QED BY <1>5
<1> QED BY <1>6 DEF ServeQueue

LEMMA ServeQueueSearches ==
    ASSUME need \in [Tasks -> Nat], NEW s, SemQueued(s)
    PROVE  SearchedThrough(s, ServeQueue(s))
<1> DEFINE n == Len(s.wait_queue)
<1>1. PICK g : /\ ServeQueue(s) = g[n].sem
               /\ g = [i \in 0 .. n |-> IF i = 0 THEN [sem |-> s, full |-> FALSE]
                                       ELSE ServeNext(g[i - 1], s.wait_queue[i])]
  BY ServeQueueRounds
<1>2. n \in Nat /\ \A i \in 1 .. n : s.wait_queue[i] \in ToSet(s.wait_queue)
  BY PlacesOf DEF SemQueued, Linked
<1>3. AfterRounds(s, 0, g[0])
  <2>1. g[0] = [sem |-> s, full |-> FALSE]
    BY <1>1, <1>2
  <2>2. InOrderOf(s.wait_queue, s.wait_queue) /\ s.semcnt \in 0 .. s.semcnt
    BY DEF InOrderOf, SemQueued, SEMCB
  <2> QED BY <1>2, <2>1, <2>2 DEF AfterRounds, SemRound, SemServed, SemQueued
<1> DEFINE T == {i \in Nat : i <= n => AfterRounds(s, i, g[i])}
<1>4. ASSUME NEW i \in Nat, i \in T PROVE i + 1 \in T
  <2> SUFFICES ASSUME i + 1 <= n PROVE AfterRounds(s, i + 1, g[i + 1])
    OBVIOUS
  <2>1. i < n /\ AfterRounds(s, i, g[i])
    BY <1>2, <1>4
  <2>2. g[i + 1] = ServeNext(g[i], s.wait_queue[i + 1])
    <3>1. i + 1 \in 0 .. n /\ i + 1 # 0 /\ (i + 1) - 1 = i
      BY <1>2
    <3> HIDE DEF n
    <3> QED BY <1>1, <3>1
  <2> QED BY <2>1, <2>2, ServeRound
<1>5. n \in T
  <2>1. 0 \in T
    BY <1>3
  <2> HIDE DEF T, n
  <2> QED BY <1>2, <1>4, <2>1, Induction
<1> QED BY <1>1, <1>5, <1>2, AfterAllRounds

(* Allocate searches too, but for TA_CNT, when there is nothing to find.   *)
LEMMA AllocateSearches ==
    ASSUME need \in [Tasks -> Nat], NEW s, SemQueued(s),
           s.cntatr => \A i \in 1 .. Len(s.wait_queue) : s.semcnt < need[s.wait_queue[i]]
    PROVE  SearchedThrough(s, Allocate(s))
<1>1. CASE s.cntatr
  <2>1. Allocate(s) = s
    BY <1>1 DEF Allocate
  <2>2. SemServed(s, s)
    BY DEF SemServed, InOrderOf, SemQueued, SEMCB
  <2> QED BY <1>1, <2>1, <2>2 DEF SearchedThrough
<1>2. CASE ~s.cntatr
  BY <1>2, ServeQueueSearches DEF Allocate
<1> QED BY <1>1, <1>2

-----------------------------------------------------------------------------
(* Semaphore: the invariant                                                *)

(* Nobody in the queue asks for less than there is, where a queue by       *)
(* priority is one by the priorities that tasks have now.                  *)
SemInv ==
    /\ SemQueued(sem) /\ need \in [Tasks -> Nat] /\ priority \in [Tasks -> Pri]
    /\ sem.tpri => SortedBy(sem.wait_queue, priority)
    /\ NoneServable

(* The body of ServedInOrder *)
InTurn ==
    sem.semid /\ sem'.semid /\ ~sem.cntatr =>
        \A t \in served', u \in ToSet(sem'.wait_queue) : WaitsForSem(u) => ~Ahead(u, t)

(* A call changes the semaphore to s and meets the requests that it then can. *)
LEMMA MeetRequests ==
    ASSUME SemInv, NEW f \in [Tasks -> Pri], priority' = f,
           NEW s, SemQueued(s), s.tpri = sem.tpri, s.cntatr = sem.cntatr,
           s.semcnt <= s.maxsem,
           s.tpri => SortedBy(s.wait_queue, f),
           ~s.tpri => InOrderOf(sem.wait_queue, s.wait_queue),
           ToSet(s.wait_queue) \subseteq ToSet(sem.wait_queue),
           NEW r, SearchedThrough(s, r), NEW ng, SemBecomes(r, ng),
           ToSet(sem.wait_queue) \ ng \subseteq ToSet(s.wait_queue)
    PROVE  SemInv' /\ InTurn
<1> DEFINE q == s.wait_queue
           v == r.wait_queue
<1>1. /\ sem' = r /\ SemServed(s, r) /\ SemQueued(r)
      /\ need' = [t \in Tasks |-> IF t \in ToSet(v) THEN need[t] ELSE 0]
      /\ served' = {t \in Tasks : WaitsForSem(t) /\ t \notin ToSet(v) \cup ng}
  BY DEF SearchedThrough, SemBecomes, SemServed
<1>2. need' \in [Tasks -> Nat] /\ need \in [Tasks -> Nat]
  BY <1>1 DEF SemInv
<1>3. r.tpri = s.tpri /\ (r.tpri => SortedBy(v, f))
  BY <1>1 DEF SemServed, InOrderOf
<1>4. ASSUME NEW i \in 1 .. Len(v), r.cntatr \/ i = 1 PROVE r.semcnt < need'[v[i]]
  <2>1. r.semcnt < need[v[i]]
    BY <1>4 DEF SearchedThrough, SemServed
  <2>2. v[i] \in ToSet(v) /\ v[i] \in Tasks
    BY <1>1, PlacesOf DEF SemQueued, Linked
  <2> HIDE DEF v
  <2> QED BY <1>1, <2>1, <2>2 DEF v
<1>5. r.semcnt \in 0 .. r.maxsem /\ DOMAIN v = 1 .. Len(v)
  <2>1. s.semcnt \in Nat /\ s.maxsem \in Nat /\ r.maxsem = s.maxsem /\ r.semcnt \in 0 .. s.semcnt
    BY <1>1 DEF SemServed, SemQueued, SEMCB
  <2>2. r.semcnt \in 0 .. r.maxsem
    BY <2>1
  <2> QED BY <1>1, <2>2, PlacesOf DEF SemQueued, Linked
<1>6. NoneServable'
  BY <1>1, <1>4, <1>5 DEF NoneServable
<1>7. SemInv'
  BY <1>1, <1>2, <1>3, <1>6 DEF SemInv
<1>8. ASSUME ~sem.cntatr, NEW t \in served', NEW u \in ToSet(v), WaitsForSem(u)
      PROVE  ~Ahead(u, t)
  <2>1. t \in Tasks /\ WaitsForSem(t) /\ t \in ToSet(q) \ ToSet(v)
    BY <1>1 DEF WaitsForSem
  <2>2. Before(q, t, u)
    BY <1>8, <2>1 DEF SearchedThrough
  <2>3. CASE sem.tpri
    <3>1. f[t] <= f[u]
      BY <2>2, <2>3 DEF Before, SortedBy
    <3>2. u \in Tasks
      BY <1>1, <1>8, PlacesOf DEF SemQueued, Linked
    <3>3. f[t] \in Nat /\ f[u] \in Nat
      BY <2>1, <3>2, PriorityIsNat
    <3> QED BY <2>1, <2>3, <3>1, <3>3 DEF Ahead
  <2>4. CASE ~sem.tpri
    <3> DEFINE w == sem.wait_queue
    <3>1. Linked(Tasks, w, ToSet(w)) /\ Linked(Tasks, q, ToSet(q))
      BY DEF SemInv, SemQueued
    <3>2. Before(w, t, u)
      <4> DEFINE A == ToSet(w)
                 B == ToSet(q)
      <4>1. Linked(Tasks, w, A) /\ Linked(Tasks, q, B) /\ B \subseteq A /\ InOrderOf(w, q)
        BY <2>4, <3>1
      <4> HIDE DEF A, B, q, w
      <4> QED BY <2>2, <4>1, StaysBefore
    <3>3. PICK i \in 1 .. Len(w), j \in 1 .. Len(w) : i < j /\ w[i] = t /\ w[j] = u
      BY <3>2 DEF Before
    <3>4. Len(w) \in Nat /\ \A x, y \in 1 .. Len(w) : w[x] = w[y] => x = y
      BY <3>1, PlacesOf DEF Linked
    <3>5. ASSUME NEW x \in DOMAIN w, w[x] = u PROVE \E y \in 1 .. x : w[y] = t
      <4>1. x \in 1 .. Len(w)
        BY <3>1, PlacesOf DEF Linked
      <4>2. x = j
        BY <3>3, <3>4, <3>5, <4>1
      <4>3. i \in 1 .. x
        BY <3>3, <4>2
      <4> QED BY <3>3, <4>3
    <3> QED BY <2>4, <3>5 DEF Ahead
  <2>5. sem.tpri \in BOOLEAN
    BY DEF SemInv, SemQueued, SEMCB
  <2> QED BY <2>3, <2>4, <2>5
<1> QED BY <1>1, <1>7, <1>8 DEF InTurn

LEMMA tk_cre_sem_OK ==
    ASSUME SemInv, NEW tpri \in BOOLEAN, NEW cntatr \in BOOLEAN,
           NEW c \in 0 .. MaxSem, NEW m \in 1 .. MaxSem, tk_cre_sem(tpri, cntatr, c, m)
    PROVE  SemInv' /\ InTurn
<1> DEFINE r == [semid |-> TRUE, tpri |-> tpri, cntatr |-> cntatr,
                 semcnt |-> c, maxsem |-> m, wait_queue |-> <<>>]
<1>1. /\ sem' = r /\ need' = need /\ priority' = priority /\ served' = {} /\ c <= m
  BY DEF tk_cre_sem
<1>2. /\ r.wait_queue = <<>> /\ r.semcnt = c /\ r.maxsem = m /\ r.tpri = tpri
      /\ r \in SEMCB /\ c \in 0 .. m
  BY <1>1, SemaphoreAssumption DEF SEMCB
<1> HIDE DEF r
<1>3. Linked(Tasks, r.wait_queue, ToSet(r.wait_queue))
  BY <1>2, NothingLinked DEF Linked
<1>4. SortedBy(r.wait_queue, priority) /\ DOMAIN r.wait_queue = {}
  BY <1>2 DEF SortedBy
<1>5. SemInv'
  BY <1>1, <1>2, <1>3, <1>4 DEF SemInv, SemQueued, NoneServable
<1> QED BY <1>1, <1>5 DEF InTurn

LEMMA tk_del_sem_OK ==
    ASSUME SemInv, tk_del_sem
    PROVE  SemInv' /\ InTurn
<1>1. /\ sem' = NoSem /\ priority' = priority
      /\ need' = [t \in Tasks |-> IF t \in ToSet(NoSem.wait_queue) THEN need[t] ELSE 0]
  BY DEF tk_del_sem, SemBecomes
<1>2. /\ NoSem.wait_queue = <<>> /\ NoSem.semcnt = 0 /\ NoSem.maxsem = 1
      /\ NoSem.tpri = FALSE /\ NoSem.semid = FALSE /\ NoSem \in SEMCB
  BY DEF NoSem, SEMCB
<1>3. Linked(Tasks, NoSem.wait_queue, ToSet(NoSem.wait_queue))
  BY <1>2, NothingLinked DEF Linked
<1>4. need' \in [Tasks -> Nat] /\ DOMAIN NoSem.wait_queue = {}
  BY <1>1, <1>2 DEF SemInv
<1>5. SemInv'
  BY <1>1, <1>2, <1>3, <1>4 DEF SemInv, SemQueued, NoneServable
<1> QED BY <1>1, <1>2, <1>5 DEF InTurn

LEMMA tk_sig_sem_OK ==
    ASSUME SemInv, NEW cnt \in 1 .. MaxSem, tk_sig_sem(cnt)
    PROVE  SemInv' /\ InTurn
<1> DEFINE s == [sem EXCEPT !.semcnt = @ + cnt]
           f == priority
           none == {}
<1>1. sem \in SEMCB /\ cnt \in Nat /\ cnt <= sem.maxsem - sem.semcnt
  BY SemaphoreAssumption DEF SemInv, SemQueued, tk_sig_sem
<1>2. /\ s \in SEMCB /\ s.semid = sem.semid /\ s.tpri = sem.tpri /\ s.cntatr = sem.cntatr
      /\ s.maxsem = sem.maxsem /\ s.wait_queue = sem.wait_queue /\ s.semcnt <= s.maxsem
  BY <1>1 DEF SEMCB
<1>3. priority' = f /\ f \in [Tasks -> Pri] /\ SemBecomes(ServeQueue(s), none)
  BY DEF tk_sig_sem, SemInv
<1> HIDE DEF s
<1>4. SemQueued(s) /\ (s.tpri => SortedBy(s.wait_queue, f)) /\ InOrderOf(sem.wait_queue, s.wait_queue)
  BY <1>2 DEF SemInv, SemQueued, InOrderOf
<1> HIDE DEF f, none
<1>5. SearchedThrough(s, ServeQueue(s))
  BY <1>4, ServeQueueSearches DEF SemInv
<1> QED BY <1>2, <1>3, <1>4, <1>5, MeetRequests

LEMMA tk_wai_sem_OK ==
    ASSUME SemInv, NEW t \in Tasks, NEW cnt \in 1 .. MaxSem, tk_wai_sem(t, cnt)
    PROVE  SemInv' /\ InTurn
<1> DEFINE q == sem.wait_queue
           A == ToSet(q)
<1>1. /\ sem \in SEMCB /\ Linked(Tasks, q, A) /\ cnt \in Nat \ {0} /\ t \notin A
      /\ need \in [Tasks -> Nat] /\ priority \in [Tasks -> Pri] /\ priority' = priority
      /\ sem.tpri \in BOOLEAN /\ sem.semcnt \in 0 .. sem.maxsem
  BY SemaphoreAssumption DEF SemInv, SemQueued, SEMCB, NoneServable, tk_wai_sem, WaitsForSem
<1>2. /\ q \in Seq(Tasks) /\ Len(q) \in Nat /\ DOMAIN q = 1 .. Len(q)
      /\ \A i \in 1 .. Len(q) : q[i] \in A /\ q[i] \in Tasks
      /\ q # <<>> => Head(q) = q[1] /\ 1 \in 1 .. Len(q)
  <2>1. q \in Seq(Tasks)
    BY <1>1 DEF Linked
  <2> HIDE DEF q
  <2> QED BY <2>1, PlacesOf
<1>3. CASE /\ MayTake(t, cnt) /\ sem' = [sem EXCEPT !.semcnt = @ - cnt]
           /\ served' = {t} /\ need' = need
  <2>1. sem.semcnt >= cnt
    BY <1>3 DEF MayTake
  <2>2. /\ sem' \in SEMCB /\ sem'.wait_queue = q /\ sem'.semcnt = sem.semcnt - cnt
        /\ sem'.maxsem = sem.maxsem /\ sem'.tpri = sem.tpri /\ sem'.cntatr = sem.cntatr
    <3> DEFINE c == sem.semcnt - cnt
    <3>1. c \in Nat
      BY <1>1, <2>1 DEF SEMCB
    <3>2. sem' = [sem EXCEPT !.semcnt = c]
      BY <1>3
    <3> HIDE DEF c
    <3>3. /\ sem' \in SEMCB /\ sem'.wait_queue = q /\ sem'.semcnt = c
          /\ sem'.maxsem = sem.maxsem /\ sem'.tpri = sem.tpri /\ sem'.cntatr = sem.cntatr
      BY <1>1, <3>1, <3>2 DEF SEMCB
    <3> QED BY <3>3 DEF c
  <2>3. sem'.semcnt \in 0 .. sem'.maxsem
    BY <1>1, <2>1, <2>2 DEF SEMCB
  <2>4. ASSUME NEW i \in 1 .. Len(q), sem.cntatr \/ i = 1 PROVE sem'.semcnt < need[q[i]]
    <3>1. sem.semcnt < need[q[i]]
      BY <1>2, <2>4 DEF SemInv, NoneServable
    <3>2. need[q[i]] \in Nat /\ sem.semcnt \in Nat
      BY <1>1, <1>2 DEF SEMCB
    <3> QED BY <1>1, <2>2, <3>1, <3>2
  <2>5. SemInv'
    BY <1>1, <1>2, <1>3, <2>2, <2>3, <2>4 DEF SemInv, SemQueued, NoneServable
  <2>6. ASSUME ~sem.cntatr, NEW u \in A PROVE ~Ahead(u, t)
    <3>1. q # <<>>
      BY <1>1, <2>6, EmptyLinked
    <3>2. q[1] # t /\ gcb_top_of_wait_queue(q, t, priority, sem.tpri) = t
      BY <1>1, <1>2, <1>3, <2>6, <3>1 DEF MayTake
    <3>3. sem.tpri /\ priority[t] < priority[q[1]]
      BY <1>2, <3>1, <3>2 DEF gcb_top_of_wait_queue
    <3>4. u = q[1] \/ priority[q[1]] <= priority[u]
      <4>1. SortedBy(q, priority)
        BY <3>3 DEF SemInv
      <4> HIDE DEF q, A
      <4> QED BY <1>1, <1>2, <2>6, <3>1, <4>1, LowestFirst
    <3>5. u \in Tasks
      BY <1>1, <2>6 DEF ToSet, Linked
    <3>6. priority[t] \in Nat /\ priority[u] \in Nat /\ priority[q[1]] \in Nat
      BY <1>1, <1>2, <3>1, <3>5, PriorityIsNat
    <3> QED BY <1>1, <3>3, <3>4, <3>6 DEF Ahead
  <2> QED BY <1>3, <2>2, <2>5, <2>6 DEF InTurn
<1>4. CASE /\ ~MayTake(t, cnt) /\ need' = [need EXCEPT ![t] = cnt] /\ served' = {}
           /\ sem' = [sem EXCEPT !.wait_queue = gcb_make_wait(@, t, priority, sem.tpri)]
  <2> DEFINE r == gcb_make_wait(q, t, priority, sem.tpri)
  <2>1. /\ Linked(Tasks, r, A \cup {t}) /\ (sem.tpri => SortedBy(r, priority))
        /\ r[1] = gcb_top_of_wait_queue(q, t, priority, sem.tpri)
    <3>1. t \in Tasks \ A /\ (sem.tpri => SortedBy(q, priority))
      BY <1>1 DEF SemInv
    <3> HIDE DEF q, A
    <3> QED BY <1>1, <1>2, <3>1, MakeWait, TopOfWaitQueue
  <2>2. r \in Seq(Tasks) /\ ToSet(r) = A \cup {t}
    BY <2>1 DEF Linked
  <2> HIDE DEF r
  <2>3. sem' = [sem EXCEPT !.wait_queue = r]
    BY <1>4 DEF r
  <2>4. /\ sem' \in SEMCB /\ sem'.wait_queue = r /\ sem'.semcnt = sem.semcnt
        /\ sem'.maxsem = sem.maxsem /\ sem'.tpri = sem.tpri /\ sem'.cntatr = sem.cntatr
    BY <1>1, <2>2, <2>3 DEF SEMCB
  <2>5. /\ DOMAIN r = 1 .. Len(r) /\ \A i \in 1 .. Len(r) : r[i] \in A \cup {t}
    BY <2>2, PlacesOf
  <2>6. need' \in [Tasks -> Nat] /\ need'[t] = cnt /\ \A u \in A : need'[u] = need[u]
    BY <1>1, <1>4
  <2>7. ASSUME NEW i \in 1 .. Len(r), sem.cntatr \/ i = 1 PROVE sem.semcnt < need'[r[i]]
    <3>1. CASE r[i] = t
      <4>1. ~(sem.semcnt >= cnt)
        BY <1>4, <2>1, <2>7, <3>1 DEF MayTake
      <4>2. sem.semcnt \in Nat
        BY <1>1 DEF SEMCB
      <4> QED BY <1>1, <2>6, <3>1, <4>1, <4>2
    <3>2. CASE r[i] # t
      <4>1. r[i] \in A
        BY <2>5, <3>2
      <4>2. PICK j \in 1 .. Len(q) : q[j] = r[i] /\ (sem.cntatr \/ j = 1)
        <5>1. CASE sem.cntatr
          BY <1>2, <4>1, <5>1 DEF ToSet
        <5>2. CASE ~sem.cntatr
          <6>1. q # <<>>
            BY <1>1, <4>1, EmptyLinked
          <6>2. r[1] # t => r[1] = Head(q)
            BY <2>1, <6>1 DEF gcb_top_of_wait_queue
          <6> QED BY <1>2, <2>7, <3>2, <5>2, <6>1, <6>2
        <5> QED BY <5>1, <5>2
      <4>3. sem.semcnt < need[q[j]]
        BY <1>2, <4>2 DEF SemInv, NoneServable
      <4> QED BY <2>6, <4>1, <4>2, <4>3
    <3> QED BY <3>1, <3>2
  <2>8. SemInv'
    BY <1>1, <2>1, <2>2, <2>4, <2>5, <2>6, <2>7 DEF SemInv, SemQueued, NoneServable
  <2> QED BY <1>4, <2>8 DEF InTurn
<1> QED BY <1>3, <1>4 DEF tk_wai_sem

LEMMA EndSemWait_OK ==
    ASSUME SemInv, NEW t \in Tasks, EndSemWait(t)
    PROVE  SemInv' /\ InTurn
<1> DEFINE q == sem.wait_queue
           A == ToSet(q)
           r == RemoveFirst(q, t)
           s == [sem EXCEPT !.wait_queue = RemoveFirst(@, t)]
           f == priority
           ng == {t}
<1>1. sem \in SEMCB /\ Linked(Tasks, q, A) /\ sem.semcnt \in 0 .. sem.maxsem
  BY DEF SemInv, SemQueued, NoneServable
<1>2. Linked(Tasks, r, A \ {t}) /\ InOrderOf(q, r)
  <2> HIDE DEF q, A
  <2> QED BY <1>1, LeaveQueue
<1>3. r \in Seq(Tasks) /\ ToSet(r) = A \ {t}
  BY <1>2 DEF Linked
<1>4. s = [sem EXCEPT !.wait_queue = r]
  OBVIOUS
<1>5. priority' = f /\ f \in [Tasks -> Pri] /\ SemBecomes(Allocate(s), ng)
  BY DEF EndSemWait, SemInv
<1> HIDE DEF r, s
<1>6. /\ s \in SEMCB /\ s.tpri = sem.tpri /\ s.cntatr = sem.cntatr
      /\ s.maxsem = sem.maxsem /\ s.wait_queue = r /\ s.semcnt = sem.semcnt
      /\ s.semcnt <= s.maxsem
  BY <1>1, <1>3, <1>4 DEF SEMCB
<1>7. SemQueued(s)
  BY <1>2, <1>3, <1>6 DEF SemQueued
<1>8. s.tpri => SortedBy(s.wait_queue, f)
  BY <1>2, <1>6 DEF SemInv, InOrderOf
<1>9. s.cntatr => \A i \in 1 .. Len(s.wait_queue) : s.semcnt < need[s.wait_queue[i]]
  <2>1. ASSUME s.cntatr, NEW i \in 1 .. Len(r) PROVE s.semcnt < need[r[i]]
    <3>1. r[i] \in A
      BY <1>3, <2>1, PlacesOf
    <3>2. PICK j \in DOMAIN q : q[j] = r[i]
      BY <3>1 DEF ToSet
    <3> QED BY <1>6, <2>1, <3>2 DEF SemInv, NoneServable
  <2> QED BY <1>6, <2>1
<1>10. SearchedThrough(s, Allocate(s))
  BY <1>7, <1>9, AllocateSearches DEF SemInv
<1>11. /\ InOrderOf(sem.wait_queue, s.wait_queue)
       /\ ToSet(s.wait_queue) \subseteq ToSet(sem.wait_queue)
       /\ ToSet(sem.wait_queue) \ ng \subseteq ToSet(s.wait_queue)
  BY <1>2, <1>3, <1>6
<1> HIDE DEF f, ng
<1> QED BY <1>5, <1>6, <1>7, <1>8, <1>10, <1>11, MeetRequests

LEMMA sem_chg_pri_OK ==
    ASSUME SemInv, NEW t \in Tasks, NEW p \in Pri, sem_chg_pri(t, p)
    PROVE  SemInv' /\ InTurn
<1> DEFINE q == sem.wait_queue
           A == ToSet(q)
           f == [priority EXCEPT ![t] = p]
           r == gcb_change_priority(q, t, f)
           s == [sem EXCEPT !.wait_queue = gcb_change_priority(@, t, f)]
           none == {}
<1>1. /\ sem \in SEMCB /\ Linked(Tasks, q, A) /\ sem.semcnt \in 0 .. sem.maxsem
      /\ priority \in [Tasks -> Pri] /\ need \in [Tasks -> Nat]
  BY DEF SemInv, SemQueued, NoneServable
<1>2. /\ priority' = f /\ f \in [Tasks -> Pri]
      /\ \A u \in Tasks \ {t} : f[u] = priority[u]
  BY <1>1 DEF sem_chg_pri
<1>3. CASE WaitsForSem(t) /\ sem.tpri /\ SemBecomes(Allocate(s), none)
  <2>1. Linked(Tasks, r, A) /\ SortedBy(r, f)
    <3>1. t \in A /\ SortedBy(q, priority)
      BY <1>3 DEF WaitsForSem, SemInv
    <3> HIDE DEF q, A, f
    <3> QED BY <1>1, <1>2, <3>1, ChangePriority
  <2>2. r \in Seq(Tasks) /\ ToSet(r) = A
    BY <2>1 DEF Linked
  <2>3. s = [sem EXCEPT !.wait_queue = r]
    OBVIOUS
  <2>4. SemBecomes(Allocate(s), none) /\ sem.tpri
    BY <1>3
  <2> HIDE DEF r, s, f
  <2>5. /\ s \in SEMCB /\ s.tpri = sem.tpri /\ s.cntatr = sem.cntatr
        /\ s.maxsem = sem.maxsem /\ s.wait_queue = r /\ s.semcnt = sem.semcnt
        /\ s.semcnt <= s.maxsem
    <3>1. sem \in SEMCB /\ r \in Seq(Tasks) /\ sem.semcnt <= sem.maxsem
      BY <1>1, <2>2 DEF SEMCB
    <3> QED BY <2>3, <3>1 DEF SEMCB
  <2>6. SemQueued(s) /\ SortedBy(s.wait_queue, f)
    BY <2>1, <2>2, <2>5 DEF SemQueued
  <2>7. s.cntatr => \A i \in 1 .. Len(s.wait_queue) : s.semcnt < need[s.wait_queue[i]]
    <3>1. ASSUME s.cntatr, NEW i \in 1 .. Len(r) PROVE s.semcnt < need[r[i]]
      <4>1. r[i] \in A
        BY <2>2, <3>1, PlacesOf
      <4>2. PICK j \in DOMAIN q : q[j] = r[i]
        BY <4>1 DEF ToSet
      <4> QED BY <2>5, <3>1, <4>2 DEF SemInv, NoneServable
    <3> QED BY <2>5, <3>1
  <2>8. SearchedThrough(s, Allocate(s))
    BY <2>6, <2>7, AllocateSearches DEF SemInv
  <2>9. /\ ToSet(s.wait_queue) \subseteq ToSet(sem.wait_queue)
        /\ ToSet(sem.wait_queue) \ none \subseteq ToSet(s.wait_queue)
    BY <2>2, <2>5
  <2> HIDE DEF none
  <2> QED BY <1>2, <2>4, <2>5, <2>6, <2>8, <2>9, MeetRequests
<1>4. CASE ~(WaitsForSem(t) /\ sem.tpri) /\ served' = {} /\ need' = need /\ sem' = sem
  <2>1. sem.tpri => SortedBy(q, f)
    <3> SUFFICES ASSUME sem.tpri, NEW i \in 1 .. Len(q), NEW j \in 1 .. Len(q), i < j
                 PROVE  f[q[i]] <= f[q[j]]
      BY DEF SortedBy
    <3>1. q[i] \in A /\ q[j] \in A /\ A \subseteq Tasks
      <4>1. q \in Seq(Tasks)
        BY <1>1 DEF Linked
      <4> HIDE DEF q
      <4> QED BY <4>1, PlacesOf DEF ToSet
    <3>2. f[q[i]] = priority[q[i]] /\ f[q[j]] = priority[q[j]]
      BY <1>2, <1>4, <3>1 DEF WaitsForSem
    <3> QED BY <3>2 DEF SemInv, SortedBy
  <2> HIDE DEF f
  <2>2. SemInv'
    BY <1>2, <1>4, <2>1 DEF SemInv, NoneServable
  <2> QED BY <1>4, <2>2 DEF InTurn
<1> QED BY <1>2, <1>3, <1>4 DEF sem_chg_pri

LEMMA SemStep ==
    ASSUME SemInv, [SemNext]_semvars
    PROVE  SemInv' /\ [InTurn]_semvars
<1>1. CASE UNCHANGED semvars
  <2>1. SemInv'
    BY <1>1 DEF semvars, SemInv, NoneServable
  <2> QED BY <1>1, <2>1
<1>2. CASE SemNext
  BY <1>2, tk_cre_sem_OK, tk_del_sem_OK, tk_sig_sem_OK, tk_wai_sem_OK,
     EndSemWait_OK, sem_chg_pri_OK DEF SemNext
<1> QED BY <1>1, <1>2

LEMMA SemInitially ==
    ASSUME SemInit
    PROVE  SemInv
<1>1. /\ NoSem.wait_queue = <<>> /\ NoSem.semcnt = 0 /\ NoSem.maxsem = 1
      /\ NoSem.tpri = FALSE /\ NoSem \in SEMCB
  BY DEF NoSem, SEMCB
<1>2. Linked(Tasks, NoSem.wait_queue, ToSet(NoSem.wait_queue))
  BY <1>1, NothingLinked DEF Linked
<1>3. DOMAIN NoSem.wait_queue = {}
  BY <1>1
<1> QED BY <1>1, <1>2, <1>3 DEF SemInit, SemInv, SemQueued, NoneServable

(* The inductive invariant of semaphore.c: types, a wait queue that links  *)
(* each waiting task once and, with TA_TPRI, in the order of the           *)
(* priorities that tasks have by now, and nobody who waits for what is     *)
(* there.                                                                  *)
THEOREM SemInvariant == SemSpec => []SemInv
<1>1. SemInit => SemInv
  BY SemInitially
<1>2. SemInv /\ [SemNext]_semvars => SemInv'
  BY SemStep
<1> QED BY <1>1, <1>2, PTL DEF SemSpec

(* tk_sig_sem, sem_rel_wai and sem_chg_pri leave nobody waiting whose      *)
(* request could be met, whatever came last.                               *)
THEOREM SemServesAll == SemSpec => []NoneServable
<1>1. SemInv => NoneServable
  BY DEF SemInv
<1> QED BY <1>1, SemInvariant, PTL

(* Without TA_CNT no call passes a waiting task over.                      *)
THEOREM SemInTurn == SemSpec => ServedInOrder
<1>1. SemInv /\ [SemNext]_semvars => [InTurn]_semvars
  BY SemStep
<1>2. ServedInOrder <=> [][InTurn]_semvars
  BY DEF ServedInOrder, InTurn
<1> QED BY <1>1, <1>2, SemInvariant, PTL DEF SemSpec

-----------------------------------------------------------------------------
(* Event flag: one search through the queue                                *)

FLGCB == [flgid : BOOLEAN, tpri : BOOLEAN, wmul : BOOLEAN,
          flgptn : SUBSET Bits, wait_queue : Seq(Tasks)]

FlgQueued(s) == s \in FLGCB /\ Linked(Tasks, s.wait_queue, ToSet(s.wait_queue))

(* r is s after some of its tasks were released. *)
FlgReleased(s, r) ==
    /\ FlgQueued(r)
    /\ r.flgid = s.flgid /\ r.tpri = s.tpri /\ r.wmul = s.wmul
    /\ r.flgptn \subseteq s.flgptn
    /\ ToSet(r.wait_queue) \subseteq ToSet(s.wait_queue)
    /\ InOrderOf(s.wait_queue, r.wait_queue)

FlgRound == {x \in [flag : FLGCB, end : BOOLEAN] : FlgQueued(x.flag)}

(* After i rounds of the search that begins with s: those looked at who    *)
(* are still in the queue are not satisfied by the bits that are left, and *)
(* none are left when the search ends early.                               *)
FlgAfterRounds(s, i, x) ==
    LET q    == s.wait_queue
        left == ToSet(x.flag.wait_queue)
    IN  /\ x \in FlgRound /\ FlgReleased(s, x.flag)
        /\ x.end => x.flag.flgptn = {}
        /\ \A j \in 1 .. i : q[j] \in left => ~eventflag_cond(x.flag.flgptn, wait[q[j]])

(* With less bits set a wait is not satisfied any sooner, with none never. *)
LEMMA FewerBits ==
    ASSUME NEW w \in WaitModes, NEW P, NEW Q, P \subseteq Q, ~eventflag_cond(Q, w)
    PROVE  ~eventflag_cond(P, w)
  BY DEF eventflag_cond, WaitModes

LEMMA NoBits ==
    ASSUME NEW w \in WaitModes
    PROVE  ~eventflag_cond({}, w)
  BY DEF eventflag_cond, WaitModes

LEMMA ClearedBits ==
    ASSUME NEW w \in WaitModes, NEW P \in SUBSET Bits
    PROVE  Cleared(P, w) \subseteq P
  BY DEF Cleared, WaitModes

(* The task that is satisfied leaves the queue. *)
LEMMA ReleaseTask ==
    ASSUME NEW x \in FlgRound, NEW t \in Tasks, wait[t] \in WaitModes,
           ~x.end, eventflag_cond(x.flag.flgptn, wait[t]),
           NEW y, y = ReleaseNext(x, t)
    PROVE  /\ y \in FlgRound /\ FlgReleased(x.flag, y.flag)
           /\ y.end => y.flag.flgptn = {}
           /\ ToSet(y.flag.wait_queue) = ToSet(x.flag.wait_queue) \ {t}
<1> DEFINE A == ToSet(x.flag.wait_queue)
           r == RemoveFirst(x.flag.wait_queue, t)
           P == Cleared(x.flag.flgptn, wait[t])
           e == wait[t].clear # "none" /\ P = {}
           z == [x.flag EXCEPT !.flgptn = P, !.wait_queue = r]
<1>1. x.flag \in FLGCB /\ Linked(Tasks, x.flag.wait_queue, A)
  BY DEF FlgRound, FlgQueued
<1>2. Linked(Tasks, r, A \ {t}) /\ InOrderOf(x.flag.wait_queue, r)
  BY <1>1, LeaveQueue
<1>3. P \subseteq x.flag.flgptn /\ P \in SUBSET Bits
  <2>1. x.flag.flgptn \in SUBSET Bits
    BY <1>1 DEF FLGCB
  <2> QED BY <2>1, ClearedBits
<1>4. y = [flag |-> z, end |-> e]
  BY DEF ReleaseNext
<1>5. r \in Seq(Tasks) /\ ToSet(r) = A \ {t} /\ A \ {t} \subseteq A
  BY <1>2 DEF Linked
<1>6. e \in BOOLEAN /\ (e => P = {})
  OBVIOUS
<1> HIDE DEF r, P, A, e
<1>7. /\ z \in FLGCB /\ z.flgid = x.flag.flgid /\ z.tpri = x.flag.tpri
      /\ z.wmul = x.flag.wmul /\ z.flgptn = P /\ z.wait_queue = r
  BY <1>1, <1>3, <1>5 DEF FLGCB
<1> HIDE DEF z
<1>8. y.flag = z /\ y.end = e /\ y \in [flag : FLGCB, end : BOOLEAN]
  BY <1>4, <1>6, <1>7
<1>9. FlgQueued(z)
  BY <1>2, <1>5, <1>7 DEF FlgQueued
<1> QED BY <1>2, <1>3, <1>5, <1>6, <1>7, <1>8, <1>9 DEF FlgRound, FlgReleased, A

LEMMA ReleaseNextType ==
    ASSUME NEW x \in FlgRound, NEW t \in Tasks, wait[t] \in WaitModes
    PROVE  ReleaseNext(x, t) \in FlgRound
<1>1. CASE x.end \/ ~eventflag_cond(x.flag.flgptn, wait[t])
  BY <1>1 DEF ReleaseNext
<1>2. CASE ~(x.end \/ ~eventflag_cond(x.flag.flgptn, wait[t]))
  BY <1>2, ReleaseTask
<1> QED BY <1>1, <1>2

(* Everybody in the queue of s waits for some bits. *)
WaitsAsked(s) == \A t \in ToSet(s.wait_queue) : wait[t] \in WaitModes

(* One round of the search *)
LEMMA ReleaseRound ==
    ASSUME NEW s, FlgQueued(s), WaitsAsked(s), NEW i \in Nat,
           i < Len(s.wait_queue), NEW x, FlgAfterRounds(s, i, x),
           NEW y, y = ReleaseNext(x, s.wait_queue[i + 1])
    PROVE  FlgAfterRounds(s, i + 1, y)
<1> DEFINE q == s.wait_queue
           n == Len(q)
           t == q[i + 1]
           A == ToSet(x.flag.wait_queue)
           B == ToSet(y.flag.wait_queue)
           bits == x.flag.flgptn
<1>1. /\ n \in Nat /\ i + 1 \in 1 .. n
      /\ \A j \in 1 .. n : q[j] \in Tasks /\ wait[q[j]] \in WaitModes
  <2>1. q \in Seq(Tasks)
    BY DEF FlgQueued, Linked
  <2>2. \A u \in ToSet(q) : wait[u] \in WaitModes
    BY DEF WaitsAsked
  <2>3. n \in Nat /\ i < n
    BY <2>1
  <2> HIDE DEF q
  <2>4. \A j \in 1 .. n : q[j] \in Tasks /\ q[j] \in ToSet(q)
    BY <2>1, PlacesOf
  <2> QED BY <2>2, <2>3, <2>4
<1>2. /\ x \in FlgRound /\ FlgReleased(s, x.flag) /\ (x.end => bits = {})
      /\ \A j \in 1 .. i : q[j] \in A => ~eventflag_cond(bits, wait[q[j]])
  BY DEF FlgAfterRounds
<1>3. \A j \in 1 .. i + 1 : j \in 1 .. n /\ (j \in 1 .. i \/ j = i + 1)
  BY <1>1
<1>4. CASE x.end \/ ~eventflag_cond(bits, wait[t])
  <2>1. y = x
    BY <1>4 DEF ReleaseNext
  <2>2. ~eventflag_cond(bits, wait[t])
    BY <1>1, <1>2, <1>4, NoBits
  <2>3. \A j \in 1 .. i + 1 : q[j] \in A => ~eventflag_cond(bits, wait[q[j]])
    BY <1>2, <1>3, <2>2
  <2> QED BY <1>2, <2>1, <2>3 DEF FlgAfterRounds
<1>5. CASE ~(x.end \/ ~eventflag_cond(bits, wait[t]))
  <2>1. /\ y \in FlgRound /\ FlgReleased(x.flag, y.flag)
        /\ (y.end => y.flag.flgptn = {}) /\ B = A \ {t}
    BY <1>1, <1>2, <1>5, ReleaseTask
  <2>2. FlgReleased(s, y.flag)
    BY <1>2, <2>1 DEF FlgReleased, InOrderOf
  <2>3. ASSUME NEW j \in 1 .. i + 1, q[j] \in B
        PROVE  ~eventflag_cond(y.flag.flgptn, wait[q[j]])
    <3>1. j \in 1 .. i /\ q[j] \in A /\ wait[q[j]] \in WaitModes
      BY <1>1, <1>3, <2>1, <2>3
    <3>2. y.flag.flgptn \subseteq bits
      BY <2>1 DEF FlgReleased
    <3> QED BY <1>2, <3>1, <3>2, FewerBits
  <2> QED BY <2>1, <2>2, <2>3 DEF FlgAfterRounds
<1> QED BY <1>4, <1>5

(* The search is its rounds, one after the other. *)
LEMMA ReleaseQueueRounds ==
    ASSUME NEW s, FlgQueued(s), WaitsAsked(s)
    PROVE  \E g : /\ ReleaseQueue(s) = g[Len(s.wait_queue)].flag
                  /\ g = [i \in 0 .. Len(s.wait_queue) |->
                            IF i = 0 THEN [flag |-> s, end |-> FALSE]
                            ELSE ReleaseNext(g[i - 1], s.wait_queue[i])]
<1> DEFINE n == Len(s.wait_queue)
           c == [flag |-> s, end |-> FALSE]
           Loop(f) == f = [i \in 0 .. n |->
                            IF i = 0 THEN c ELSE ReleaseNext(f[i - 1], s.wait_queue[i])]
           step == [i \in 1 .. n |-> [x \in FlgRound |-> ReleaseNext(x, s.wait_queue[i])]]
<1>1. /\ n \in Nat
      /\ \A i \in 1 .. n : s.wait_queue[i] \in Tasks /\ wait[s.wait_queue[i]] \in WaitModes
  BY PlacesOf DEF FlgQueued, Linked, WaitsAsked
<1>2. c \in FlgRound
  BY DEF FlgRound, FlgQueued
<1>3. step \in [1 .. n -> [FlgRound -> FlgRound]]
  <2> HIDE DEF n
  <2> QED BY <1>1, ReleaseNextType
<1>4. PICK f \in [0 .. n -> FlgRound] : IsLoop(f, n, c, step)
  <2> HIDE DEF n, c, step
  <2> QED BY <1>1, <1>2, <1>3, Rounds
<1>5. Loop(f)
  <2>1. ASSUME NEW i \in 0 .. n, i # 0
        PROVE  step[i][f[i - 1]] = ReleaseNext(f[i - 1], s.wait_queue[i])
    <3>1. i \in 1 .. n /\ i - 1 \in 0 .. n
      BY <1>1, <2>1
    <3> HIDE DEF n
    <3> QED BY <1>4, <3>1
  <2> HIDE DEF step, n, c
  <2> QED BY <1>4, <2>1 DEF IsLoop
<1>6. Loop(CHOOSE g : Loop(g))
  <2> HIDE DEF Loop
  <2> QED BY <1>5
<1> QED BY <1>6 DEF ReleaseQueue

(* The search leaves nobody who is satisfied. *)
LEMMA ReleaseQueueSearches ==
    ASSUME NEW s, FlgQueued(s), WaitsAsked(s), NEW r, r = ReleaseQueue(s)
    PROVE  /\ FlgReleased(s, r)
           /\ \A t \in ToSet(r.wait_queue) : ~eventflag_cond(r.flgptn, wait[t])
<1> DEFINE q == s.wait_queue
           n == Len(q)
<1>1. PICK g : /\ ReleaseQueue(s) = g[n].flag
               /\ g = [i \in 0 .. n |-> IF i = 0 THEN [flag |-> s, end |-> FALSE]
                                       ELSE ReleaseNext(g[i - 1], q[i])]
  BY ReleaseQueueRounds
<1>2. n \in Nat /\ \A u : u \in ToSet(q) <=> \E i \in 1 .. n : q[i] = u
  BY PlacesOf DEF FlgQueued, Linked
<1>3. FlgAfterRounds(s, 0, g[0])
  <2>1. g[0] = [flag |-> s, end |-> FALSE]
    BY <1>1, <1>2
  <2>2. InOrderOf(q, q)
    BY DEF InOrderOf
  <2> QED BY <2>1, <2>2 DEF FlgAfterRounds, FlgRound, FlgReleased, FlgQueued
<1> DEFINE T == {i \in Nat : i <= n => FlgAfterRounds(s, i, g[i])}
<1>4. ASSUME NEW i \in Nat, i \in T PROVE i + 1 \in T
  <2> SUFFICES ASSUME i + 1 <= n PROVE FlgAfterRounds(s, i + 1, g[i + 1])
    OBVIOUS
  <2>1. i < n /\ FlgAfterRounds(s, i, g[i])
    BY <1>2, <1>4
  <2>2. g[i + 1] = ReleaseNext(g[i], q[i + 1])
    <3>1. i + 1 \in 0 .. n /\ i + 1 # 0 /\ (i + 1) - 1 = i
      BY <1>2
    <3> HIDE DEF n, q
    <3> QED BY <1>1, <3>1
  <2> QED BY <2>1, <2>2, ReleaseRound
<1>5. n \in T
  <2>1. 0 \in T
    BY <1>3
  <2> HIDE DEF T, n
  <2> QED BY <1>2, <1>4, <2>1, Induction
<1>6. FlgAfterRounds(s, n, g[n]) /\ r = g[n].flag
  BY <1>1, <1>2, <1>5
<1>7. /\ FlgReleased(s, r)
      /\ \A j \in 1 .. n : q[j] \in ToSet(r.wait_queue) => ~eventflag_cond(r.flgptn, wait[q[j]])
  BY <1>6 DEF FlgAfterRounds
<1>8. ToSet(r.wait_queue) \subseteq ToSet(q)
  BY <1>7 DEF FlgReleased
<1> HIDE DEF q, n
<1> QED BY <1>2, <1>7, <1>8 DEF q

-----------------------------------------------------------------------------
(* Event flag: the invariant                                               *)

(* A queue links one task at most when no two of its tasks differ.         *)
LEMMA AtMostOne ==
    ASSUME NEW q, NEW A, Linked(Tasks, q, A)
    PROVE  Len(q) <= 1 <=> \A u, v \in A : u = v
<1>1. /\ Len(q) \in Nat /\ \A i, j \in 1 .. Len(q) : q[i] = q[j] => i = j
      /\ \A u : u \in A <=> \E i \in 1 .. Len(q) : q[i] = u
  BY PlacesOf DEF Linked
<1>2. CASE Len(q) <= 1
  <2>1. \A i, j \in 1 .. Len(q) : i = j
    BY <1>1, <1>2
  <2> QED BY <1>1, <1>2, <2>1
<1>3. CASE ~(Len(q) <= 1)
  <2>1. 1 \in 1 .. Len(q) /\ 2 \in 1 .. Len(q) /\ 1 # 2
    BY <1>1, <1>3
  <2>2. q[1] \in A /\ q[2] \in A /\ q[1] # q[2]
    BY <1>1, <2>1
  <2> QED BY <1>3, <2>2
<1> QED BY <1>2, <1>3

(* What holds of the flag s in every state *)
FlgOK(s, f) ==
    /\ FlgQueued(s) /\ f \in [Tasks -> Pri]
    /\ s.tpri => SortedBy(s.wait_queue, f)
    /\ s.wmul \/ Len(s.wait_queue) <= 1

(* Everybody in the queue waits for some bits, and not all or none of them *)
(* are set; a queue by priority is one by the priorities that tasks have.  *)
FlgInv ==
    /\ FlgOK(flag, priority) /\ WaitsAsked(flag)
    /\ wait \in [Tasks -> WaitModes \cup {NoWait}]
    /\ NoneSatisfied

(* Some tasks are released and the others have waited in vain. *)
LEMMA FlgReleases ==
    ASSUME FlgInv, NEW f \in [Tasks -> Pri], priority' = f,
           NEW s, FlgOK(s, f), ToSet(s.wait_queue) \subseteq ToSet(flag.wait_queue),
           NEW r, FlgReleased(s, r), FlgBecomes(r),
           \A t \in ToSet(r.wait_queue) : ~eventflag_cond(r.flgptn, wait[t])
    PROVE  FlgInv'
<1> DEFINE v == r.wait_queue
           q == s.wait_queue
           V == ToSet(v)
           A == ToSet(q)
<1>1. /\ flag' = r /\ FlgQueued(r) /\ V \subseteq A /\ r.tpri = s.tpri /\ r.wmul = s.wmul
      /\ InOrderOf(q, v)
      /\ wait' = [t \in Tasks |-> IF t \in V THEN wait[t] ELSE NoWait]
  BY DEF FlgBecomes, FlgReleased
<1>2. Linked(Tasks, v, V) /\ Linked(Tasks, q, A)
  BY <1>1 DEF FlgQueued, FlgOK
<1>3. V \subseteq Tasks
  <2> HIDE DEF V, v
  <2> QED BY <1>2, PlacesOf DEF Linked
<1>4. r.tpri => SortedBy(v, f)
  BY <1>1 DEF FlgOK, InOrderOf
<1>5. Len(q) <= 1 => Len(v) <= 1
  <2> HIDE DEF V, A, v, q
  <2> QED BY <1>1, <1>2, AtMostOne
<1>6. FlgOK(r, f)
  BY <1>1, <1>4, <1>5 DEF FlgOK
<1>7. /\ wait \in [Tasks -> WaitModes \cup {NoWait}]
      /\ \A t \in V : wait[t] \in WaitModes
  BY <1>1 DEF FlgInv, WaitsAsked
<1>8. /\ wait' \in [Tasks -> WaitModes \cup {NoWait}]
      /\ \A t \in V : wait'[t] = wait[t]
  <2> HIDE DEF V
  <2> QED BY <1>1, <1>3, <1>7
<1>9. \A t \in V : ~eventflag_cond(r.flgptn, wait'[t]) /\ wait'[t] \in WaitModes
  BY <1>7, <1>8
<1>10. NoneSatisfied'
  BY <1>1, <1>6, <1>9 DEF NoneSatisfied, FlgOK
<1>11. WaitsAsked(flag)'
  BY <1>1, <1>9 DEF WaitsAsked
<1> QED BY <1>1, <1>6, <1>8, <1>10, <1>11 DEF FlgInv

(* A flag without tasks, as it is created and deleted *)
LEMMA FlgWithoutTasks ==
    ASSUME FlgInv, NEW f \in [Tasks -> Pri], priority' = f,
           NEW r \in FLGCB, r.wait_queue = <<>>, FlgBecomes(r)
    PROVE  FlgInv'
<1>1. FlgOK(r, f) /\ ToSet(r.wait_queue) = {}
  <2>1. Linked(Tasks, r.wait_queue, {})
    BY NothingLinked
  <2>2. ToSet(r.wait_queue) = {} /\ Len(r.wait_queue) = 0
    BY <2>1 DEF Linked
  <2>3. SortedBy(r.wait_queue, f)
    BY <2>2 DEF SortedBy
  <2>4. FlgQueued(r) /\ Len(r.wait_queue) <= 1
    <3>1. Linked(Tasks, r.wait_queue, ToSet(r.wait_queue))
      BY <2>1 DEF Linked
    <3> QED BY <2>2, <3>1 DEF FlgQueued
  <2> QED BY <2>2, <2>3, <2>4 DEF FlgOK
<1>2. FlgReleased(r, r)
  BY <1>1 DEF FlgReleased, FlgOK, InOrderOf
<1>3. ToSet(r.wait_queue) \subseteq ToSet(flag.wait_queue)
  BY <1>1
<1> QED BY <1>1, <1>2, <1>3, FlgReleases

LEMMA tk_cre_flg_OK ==
    ASSUME FlgInv, NEW tpri \in BOOLEAN, NEW wmul \in BOOLEAN, NEW ptn \in SUBSET Bits,
           tk_cre_flg(tpri, wmul, ptn)
    PROVE  FlgInv'
<1> DEFINE r == [flgid |-> TRUE, tpri |-> tpri, wmul |-> wmul,
                 flgptn |-> ptn, wait_queue |-> <<>>]
<1>1. r \in FLGCB /\ r.wait_queue = <<>>
  BY DEF FLGCB
<1>2. FlgBecomes(r) /\ priority' = priority /\ priority \in [Tasks -> Pri]
  BY DEF tk_cre_flg, FlgInv, FlgOK
<1> HIDE DEF r
<1> QED BY <1>1, <1>2, FlgWithoutTasks

LEMMA tk_del_flg_OK ==
    ASSUME FlgInv, tk_del_flg
    PROVE  FlgInv'
<1>1. NoFlag \in FLGCB /\ NoFlag.wait_queue = <<>>
  BY DEF NoFlag, FLGCB
<1>2. FlgBecomes(NoFlag) /\ priority' = priority /\ priority \in [Tasks -> Pri]
  BY DEF tk_del_flg, FlgInv, FlgOK
<1> QED BY <1>1, <1>2, FlgWithoutTasks

(* tk_set_flg, tk_clr_flg and a wait that need not wait change the bits.   *)
LEMMA OtherBits ==
    ASSUME FlgInv, NEW P \in SUBSET Bits,
           NEW s, s = [flag EXCEPT !.flgptn = P]
    PROVE  /\ FlgOK(s, priority) /\ WaitsAsked(s)
           /\ s.wait_queue = flag.wait_queue /\ s.flgptn = P
<1>1. flag \in FLGCB
  BY DEF FlgInv, FlgOK, FlgQueued
<1>2. /\ s \in FLGCB /\ s.wait_queue = flag.wait_queue /\ s.flgptn = P
      /\ s.tpri = flag.tpri /\ s.wmul = flag.wmul
  BY <1>1 DEF FLGCB
<1> QED BY <1>2 DEF FlgInv, FlgOK, FlgQueued, WaitsAsked

LEMMA tk_set_flg_OK ==
    ASSUME FlgInv, NEW ptn \in SUBSET Bits, tk_set_flg(ptn)
    PROVE  FlgInv'
<1> DEFINE P == flag.flgptn \cup ptn
           s == [flag EXCEPT !.flgptn = P]
           r == ReleaseQueue(s)
           f == priority
<1>1. P \in SUBSET Bits
  BY DEF FlgInv, FlgOK, FlgQueued, FLGCB
<1>2. FlgBecomes(r) /\ priority' = f /\ f \in [Tasks -> Pri]
  BY DEF tk_set_flg, FlgInv, FlgOK
<1>3. FlgOK(s, f) /\ WaitsAsked(s) /\ s.wait_queue = flag.wait_queue
  BY <1>1, OtherBits
<1> HIDE DEF s, f, r
<1>4. r = ReleaseQueue(s) /\ FlgQueued(s) /\ ToSet(s.wait_queue) \subseteq ToSet(flag.wait_queue)
  BY <1>3 DEF r, FlgOK
<1>5. /\ FlgReleased(s, r)
      /\ \A t \in ToSet(r.wait_queue) : ~eventflag_cond(r.flgptn, wait[t])
  BY <1>3, <1>4, ReleaseQueueSearches
<1> QED BY <1>2, <1>3, <1>4, <1>5, FlgReleases

(* Bits are cleared, which satisfies nobody. *)
LEMMA ClearBits ==
    ASSUME FlgInv, NEW P, P \subseteq flag.flgptn, priority' = priority,
           FlgBecomes([flag EXCEPT !.flgptn = P])
    PROVE  FlgInv'
<1> DEFINE r == [flag EXCEPT !.flgptn = P]
           f == priority
<1>1. P \in SUBSET Bits
  BY DEF FlgInv, FlgOK, FlgQueued, FLGCB
<1>2. FlgOK(r, f) /\ r.wait_queue = flag.wait_queue /\ r.flgptn = P
  BY <1>1, OtherBits
<1>3. FlgBecomes(r) /\ priority' = f /\ f \in [Tasks -> Pri]
  BY <1>2 DEF FlgOK
<1> HIDE DEF r, f
<1>4. \A t \in ToSet(r.wait_queue) : ~eventflag_cond(r.flgptn, wait[t])
  <2>1. \A t \in ToSet(flag.wait_queue) :
            wait[t] \in WaitModes /\ ~eventflag_cond(flag.flgptn, wait[t])
    BY DEF FlgInv, WaitsAsked, NoneSatisfied
  <2> QED BY <1>2, <2>1, FewerBits
<1>5. FlgReleased(r, r)
  BY <1>2 DEF FlgReleased, FlgOK, InOrderOf
<1> QED BY <1>2, <1>3, <1>4, <1>5, FlgReleases

LEMMA tk_clr_flg_OK ==
    ASSUME FlgInv, NEW ptn \in SUBSET Bits, tk_clr_flg(ptn)
    PROVE  FlgInv'
<1> DEFINE P == flag.flgptn \cap ptn
<1>1. P \subseteq flag.flgptn /\ priority' = priority /\ FlgBecomes([flag EXCEPT !.flgptn = P])
  BY DEF tk_clr_flg
<1> HIDE DEF P
<1> QED BY <1>1, ClearBits

LEMMA tk_wai_flg_OK ==
    ASSUME FlgInv, NEW t \in Tasks, NEW w \in Waits, tk_wai_flg(t, w)
    PROVE  FlgInv'
<1> DEFINE q == flag.wait_queue
           A == ToSet(q)
           r == gcb_make_wait(q, t, priority, flag.tpri)
<1>1. w \in WaitModes
  BY EventFlagAssumption
<1>2. CASE FlgBecomes([flag EXCEPT !.flgptn = Cleared(@, w)])
  <2> DEFINE P == Cleared(flag.flgptn, w)
  <2>1. P \subseteq flag.flgptn
    <3>1. flag.flgptn \in SUBSET Bits
      BY DEF FlgInv, FlgOK, FlgQueued, FLGCB
    <3> QED BY <1>1, <3>1, ClearedBits
  <2>2. FlgBecomes([flag EXCEPT !.flgptn = P]) /\ priority' = priority
    BY <1>2 DEF tk_wai_flg
  <2> HIDE DEF P
  <2> QED BY <2>1, <2>2, ClearBits
<1>3. CASE /\ ~eventflag_cond(flag.flgptn, w) /\ wait' = [wait EXCEPT ![t] = w]
           /\ flag' = [flag EXCEPT !.wait_queue = gcb_make_wait(@, t, priority, flag.tpri)]
  <2>1. /\ flag \in FLGCB /\ Linked(Tasks, q, A) /\ t \in Tasks \ A /\ flag.tpri \in BOOLEAN
        /\ priority \in [Tasks -> Pri] /\ priority' = priority
        /\ (flag.tpri => SortedBy(q, priority)) /\ (flag.wmul \/ q = <<>>)
    BY DEF FlgInv, FlgOK, FlgQueued, FLGCB, tk_wai_flg, WaitsForFlg, MayWait
  <2>2. Linked(Tasks, r, A \cup {t}) /\ (flag.tpri => SortedBy(r, priority))
    <3> HIDE DEF q, A
    <3> QED BY <2>1, MakeWait
  <2>3. r \in Seq(Tasks) /\ ToSet(r) = A \cup {t}
    BY <2>2 DEF Linked
  <2>4. flag.wmul \/ Len(r) <= 1
    <3>1. CASE q = <<>>
      <4>1. A = {}
        <5> HIDE DEF A, q
        <5> QED BY <2>1, <3>1, EmptyLinked
      <4>2. \A u, v \in A \cup {t} : u = v
        BY <4>1
      <4> HIDE DEF r, A
      <4> QED BY <2>2, <4>2, AtMostOne
    <3> QED BY <2>1, <3>1
  <2> HIDE DEF r
  <2>5. flag' = [flag EXCEPT !.wait_queue = r]
    BY <1>3 DEF r
  <2>6. /\ flag' \in FLGCB /\ flag'.wait_queue = r /\ flag'.flgptn = flag.flgptn
        /\ flag'.tpri = flag.tpri /\ flag'.wmul = flag.wmul
    BY <2>1, <2>3, <2>5 DEF FLGCB
  <2>7. /\ wait' \in [Tasks -> WaitModes \cup {NoWait}]
        /\ wait'[t] = w /\ \A u \in A : wait'[u] = wait[u]
    BY <1>1, <1>3, <2>1 DEF FlgInv
  <2>8. ASSUME NEW u \in ToSet(r)
        PROVE  wait'[u] \in WaitModes /\ ~eventflag_cond(flag.flgptn, wait'[u])
    <3>1. CASE u = t
      BY <1>1, <1>3, <2>7, <3>1
    <3>2. CASE u # t
      <4>1. u \in A
        BY <2>3, <2>8, <3>2
      <4>2. wait[u] \in WaitModes /\ ~eventflag_cond(flag.flgptn, wait[u])
        BY <4>1 DEF FlgInv, WaitsAsked, NoneSatisfied
      <4> QED BY <2>7, <4>1, <4>2
    <3> QED BY <3>1, <3>2
  <2>9. FlgOK(flag, priority)'
    BY <2>1, <2>2, <2>3, <2>4, <2>6 DEF FlgOK, FlgQueued
  <2>10. NoneSatisfied' /\ WaitsAsked(flag)'
    BY <2>4, <2>6, <2>8 DEF NoneSatisfied, WaitsAsked
  <2> QED BY <2>7, <2>9, <2>10 DEF FlgInv
<1> QED BY <1>2, <1>3 DEF tk_wai_flg

LEMMA EndFlgWait_OK ==
    ASSUME FlgInv, NEW t \in Tasks, EndFlgWait(t)
    PROVE  FlgInv'
<1> DEFINE q == flag.wait_queue
           A == ToSet(q)
           v == RemoveFirst(q, t)
           r == [flag EXCEPT !.wait_queue = RemoveFirst(@, t)]
           s == flag
           f == priority
<1>1. flag \in FLGCB /\ Linked(Tasks, q, A)
  BY DEF FlgInv, FlgOK, FlgQueued
<1>2. Linked(Tasks, v, A \ {t}) /\ InOrderOf(q, v)
  <2> HIDE DEF q, A
  <2> QED BY <1>1, LeaveQueue
<1>3. v \in Seq(Tasks) /\ ToSet(v) = A \ {t}
  BY <1>2 DEF Linked
<1>4. r = [flag EXCEPT !.wait_queue = v]
  OBVIOUS
<1>5. FlgBecomes(r) /\ priority' = f /\ FlgOK(s, f) /\ f \in [Tasks -> Pri]
  BY DEF EndFlgWait, FlgInv, FlgOK
<1> HIDE DEF v, r
<1>6. /\ r \in FLGCB /\ r.wait_queue = v /\ r.flgid = flag.flgid /\ r.tpri = flag.tpri
      /\ r.wmul = flag.wmul /\ r.flgptn = flag.flgptn
  BY <1>1, <1>3, <1>4 DEF FLGCB
<1>7. FlgReleased(s, r)
  BY <1>2, <1>3, <1>6 DEF FlgReleased, FlgQueued
<1>8. \A u \in ToSet(r.wait_queue) : ~eventflag_cond(r.flgptn, wait[u])
  BY <1>3, <1>6 DEF FlgInv, NoneSatisfied
<1>9. ToSet(s.wait_queue) \subseteq ToSet(flag.wait_queue)
  OBVIOUS
<1> HIDE DEF s, f
<1> QED BY <1>5, <1>7, <1>8, <1>9, FlgReleases

LEMMA flg_chg_pri_OK ==
    ASSUME FlgInv, NEW t \in Tasks, NEW p \in Pri, flg_chg_pri(t, p)
    PROVE  FlgInv'
<1> DEFINE q == flag.wait_queue
           A == ToSet(q)
           f == [priority EXCEPT ![t] = p]
           r == gcb_change_priority(q, t, f)
<1>1. /\ flag \in FLGCB /\ Linked(Tasks, q, A) /\ priority \in [Tasks -> Pri]
      /\ (flag.tpri => SortedBy(q, priority)) /\ (flag.wmul \/ Len(q) <= 1)
  BY DEF FlgInv, FlgOK, FlgQueued
<1>2. /\ priority' = f /\ f \in [Tasks -> Pri] /\ wait' = wait
      /\ \A u \in Tasks \ {t} : f[u] = priority[u]
  BY <1>1 DEF flg_chg_pri
<1>3. ASSUME NEW v, Linked(Tasks, v, A), flag.tpri => SortedBy(v, f),
             flag' = [flag EXCEPT !.wait_queue = v]
      PROVE  FlgInv'
  <2>1. v \in Seq(Tasks) /\ ToSet(v) = A
    BY <1>3 DEF Linked
  <2>2. /\ flag' \in FLGCB /\ flag'.wait_queue = v /\ flag'.flgptn = flag.flgptn
        /\ flag'.tpri = flag.tpri /\ flag'.wmul = flag.wmul
    BY <1>1, <1>3, <2>1 DEF FLGCB
  <2>3. flag.wmul \/ Len(v) <= 1
    <3> HIDE DEF q, A
    <3> QED BY <1>1, <1>3, AtMostOne
  <2> HIDE DEF f
  <2>4. FlgOK(flag, priority)'
    BY <1>2, <1>3, <2>1, <2>2, <2>3 DEF FlgOK, FlgQueued
  <2>5. NoneSatisfied' /\ WaitsAsked(flag)'
    BY <1>2, <2>1, <2>2, <2>3 DEF FlgInv, NoneSatisfied, WaitsAsked
  <2> QED BY <1>2, <2>4, <2>5 DEF FlgInv
<1>4. CASE WaitsForFlg(t) /\ flag.tpri
  <2>1. Linked(Tasks, r, A) /\ SortedBy(r, f)
    <3>1. t \in A /\ SortedBy(q, priority)
      BY <1>1, <1>4 DEF WaitsForFlg
    <3> HIDE DEF q, A, f
    <3> QED BY <1>1, <1>2, <3>1, ChangePriority
  <2>2. flag' = [flag EXCEPT !.wait_queue = r]
    BY <1>2, <1>4 DEF flg_chg_pri
  <2> HIDE DEF r, f, A
  <2> QED BY <1>3, <2>1, <2>2
<1>5. CASE ~(WaitsForFlg(t) /\ flag.tpri)
  <2>1. flag' = flag
    BY <1>5 DEF flg_chg_pri
  <2>2. flag.tpri => SortedBy(q, f)
    <3> SUFFICES ASSUME flag.tpri, NEW i \in 1 .. Len(q), NEW j \in 1 .. Len(q), i < j
                 PROVE  f[q[i]] <= f[q[j]]
      BY DEF SortedBy
    <3>1. q[i] \in A /\ q[j] \in A /\ A \subseteq Tasks
      <4>1. q \in Seq(Tasks)
        BY <1>1 DEF Linked
      <4> HIDE DEF q
      <4> QED BY <4>1, PlacesOf DEF ToSet
    <3>2. f[q[i]] = priority[q[i]] /\ f[q[j]] = priority[q[j]]
      BY <1>2, <1>5, <3>1 DEF WaitsForFlg
    <3> QED BY <1>1, <3>2 DEF SortedBy
  <2>3. flag' = [flag EXCEPT !.wait_queue = q]
    BY <1>1, <2>1 DEF FLGCB
  <2> HIDE DEF q, f, A
  <2> QED BY <1>1, <1>3, <2>2, <2>3
<1> QED BY <1>4, <1>5

LEMMA FlgStep ==
    ASSUME FlgInv, [FlgNext]_flagvars
    PROVE  FlgInv'
<1>1. CASE UNCHANGED flagvars
  BY <1>1 DEF flagvars, FlgInv, NoneSatisfied, WaitsAsked
<1>2. CASE FlgNext
  BY <1>2, tk_cre_flg_OK, tk_del_flg_OK, tk_set_flg_OK, tk_clr_flg_OK, tk_wai_flg_OK,
     EndFlgWait_OK, flg_chg_pri_OK DEF FlgNext
<1> QED BY <1>1, <1>2

LEMMA FlgInitially ==
    ASSUME FlgInit
    PROVE  FlgInv
<1>1. NoFlag.wait_queue = <<>> /\ NoFlag.tpri = FALSE /\ NoFlag \in FLGCB
  BY DEF NoFlag, FLGCB
<1>2. Linked(Tasks, NoFlag.wait_queue, {})
  BY <1>1, NothingLinked
<1>3. ToSet(NoFlag.wait_queue) = {} /\ Len(NoFlag.wait_queue) <= 1
  BY <1>1, <1>2 DEF Linked
<1> QED BY <1>1, <1>2, <1>3
        DEF FlgInit, FlgInv, FlgOK, FlgQueued, WaitsAsked, NoneSatisfied

(* The inductive invariant of eventflag.c: types, a wait queue that links  *)
(* each waiting task once and, with TA_TPRI, in the order of the           *)
(* priorities that tasks have by now, each with a pattern to wait for.     *)
THEOREM FlgInvariant == FlgSpec => []FlgInv
<1>1. FlgInit => FlgInv
  BY FlgInitially
<1>2. FlgInv /\ [FlgNext]_flagvars => FlgInv'
  BY FlgStep
<1> QED BY <1>1, <1>2, PTL DEF FlgSpec

(* One tk_set_flg releases every task it can, though released tasks clear  *)
(* bits on the way and may end its search early; and a flag without        *)
(* TA_WMUL has one waiting task at most.                                   *)
THEOREM FlgReleasesAll == FlgSpec => []NoneSatisfied
<1>1. FlgInv => NoneSatisfied
  BY DEF FlgInv
<1> QED BY <1>1, FlgInvariant, PTL

-----------------------------------------------------------------------------
(* Rendezvous: who waits in which queue                                    *)

PORCB == [porid : BOOLEAN, call_queue : Seq(Tasks), accept_queue : Seq(Tasks)]

RdvWaits ==
    {NoRdv} \cup [wspec : {"cal"}, wid : Ports, calptn : CallPtns]
            \cup [wspec : {"acp"}, wid : Ports, acpptn : CallPtns]
            \cup [wspec : {"rdv"}, rdvno : Nat, maxrmsz : Nat]

(* w is no wait in a queue of a port. *)
Unqueued(w) == w.wspec # "cal" /\ w.wspec # "acp"

CallersOf(R, p) == {t \in Tasks : R[t].wspec = "cal" /\ R[t].wid = p}
AcceptorsOf(R, p) == {t \in Tasks : R[t].wspec = "acp" /\ R[t].wid = p}

(* P[p] links the tasks that wait at port p, callers by priority if it has *)
(* the attribute, and no caller and acceptor fit.                          *)
AtPort(R, P, f, p) ==
    /\ Linked(Tasks, P[p].call_queue, CallersOf(R, p))
    /\ Linked(Tasks, P[p].accept_queue, AcceptorsOf(R, p))
    /\ p \in ByPri => SortedBy(P[p].call_queue, f)
    /\ \A c \in CallersOf(R, p), a \in AcceptorsOf(R, p) : R[c].calptn \cap R[a].acpptn = {}

AtPorts(R, P, f) ==
    /\ R \in [Tasks -> RdvWaits] /\ P \in [Ports -> PORCB]
    /\ \A p \in Ports : AtPort(R, P, f, p)

(* Nothing is different at port p.                                         *)
LEMMA SamePort ==
    ASSUME NEW R, NEW P, NEW f, NEW p, AtPort(R, P, f, p), NEW R2, NEW Q,
           Q[p].call_queue = P[p].call_queue, Q[p].accept_queue = P[p].accept_queue,
           CallersOf(R2, p) = CallersOf(R, p), AcceptorsOf(R2, p) = AcceptorsOf(R, p),
           \A x \in CallersOf(R, p) : R2[x] = R[x],
           \A y \in AcceptorsOf(R, p) : R2[y] = R[y]
    PROVE  AtPort(R2, Q, f, p)
<1>1. ASSUME NEW x \in CallersOf(R, p), NEW y \in AcceptorsOf(R, p)
      PROVE  R2[x].calptn \cap R2[y].acpptn = {}
  <2>1. R[x].calptn \cap R[y].acpptn = {}
    BY DEF AtPort
  <2>2. R2[x] = R[x] /\ R2[y] = R[y]
    OBVIOUS
  <2> QED BY <2>1, <2>2
<1>2. /\ Linked(Tasks, Q[p].call_queue, CallersOf(R2, p))
      /\ Linked(Tasks, Q[p].accept_queue, AcceptorsOf(R2, p))
      /\ p \in ByPri => SortedBy(Q[p].call_queue, f)
  BY DEF AtPort
<1> QED BY <1>1, <1>2 DEF AtPort

(* A task that is in no queue changes what it waits for without a queue.   *)
LEMMA WaitsElsewhere ==
    ASSUME NEW R, NEW P, NEW f, AtPorts(R, P, f), NEW t \in Tasks, Unqueued(R[t]),
           NEW w \in RdvWaits, Unqueued(w), NEW R2, R2 = [R EXCEPT ![t] = w]
    PROVE  AtPorts(R2, P, f)
<1>1. R2 \in [Tasks -> RdvWaits] /\ R2[t] = w /\ \A u \in Tasks \ {t} : R2[u] = R[u]
  BY DEF AtPorts
<1>2. ASSUME NEW p \in Ports PROVE AtPort(R2, P, f, p)
  <2>1. CallersOf(R2, p) = CallersOf(R, p) /\ AcceptorsOf(R2, p) = AcceptorsOf(R, p)
    BY <1>1 DEF CallersOf, AcceptorsOf, Unqueued
  <2>2. \A c \in CallersOf(R, p) : R2[c] = R[c]
    BY <1>1 DEF CallersOf, Unqueued
  <2>3. \A a \in AcceptorsOf(R, p) : R2[a] = R[a]
    BY <1>1 DEF AcceptorsOf, Unqueued
  <2>4. AtPort(R, P, f, p)
    BY DEF AtPorts
  <2> QED BY <2>1, <2>2, <2>3, <2>4, SamePort
<1> QED BY <1>1, <1>2 DEF AtPorts

(* A task leaves the queue it is in. *)
LEMMA LeavesPort ==
    ASSUME NEW R, NEW P, NEW f, AtPorts(R, P, f), NEW t \in Tasks,
           NEW w \in RdvWaits, Unqueued(w), NEW R2, R2 = [R EXCEPT ![t] = w]
    PROVE  AtPorts(R2, WithoutTask(P, t), f)
<1> DEFINE Q == WithoutTask(P, t)
<1>1. R2 \in [Tasks -> RdvWaits] /\ R2[t] = w /\ \A u \in Tasks \ {t} : R2[u] = R[u]
  BY DEF AtPorts
<1>2. ASSUME NEW p \in Ports PROVE Q[p] \in PORCB /\ AtPort(R2, Q, f, p)
  <2> DEFINE c == RemoveFirst(P[p].call_queue, t)
             a == RemoveFirst(P[p].accept_queue, t)
  <2>1. AtPort(R, P, f, p) /\ P[p] \in PORCB
    BY DEF AtPorts
  <2>2. Linked(Tasks, c, CallersOf(R, p) \ {t}) /\ InOrderOf(P[p].call_queue, c)
    BY <2>1, LeaveQueue DEF AtPort
  <2>3. Linked(Tasks, a, AcceptorsOf(R, p) \ {t})
    BY <2>1, LeaveQueue DEF AtPort
  <2>4. Q[p] = [P[p] EXCEPT !.call_queue = c, !.accept_queue = a]
    BY DEF WithoutTask
  <2>5. c \in Seq(Tasks) /\ a \in Seq(Tasks)
    BY <2>2, <2>3 DEF Linked
  <2> HIDE DEF c, a, Q
  <2>6. Q[p] \in PORCB /\ Q[p].call_queue = c /\ Q[p].accept_queue = a
    BY <2>1, <2>4, <2>5 DEF PORCB
  <2>7. /\ CallersOf(R2, p) = CallersOf(R, p) \ {t}
        /\ AcceptorsOf(R2, p) = AcceptorsOf(R, p) \ {t}
    BY <1>1 DEF CallersOf, AcceptorsOf, Unqueued
  <2>8. p \in ByPri => SortedBy(c, f)
    BY <2>1, <2>2 DEF AtPort, InOrderOf
  <2>9. \A x \in CallersOf(R2, p), y \in AcceptorsOf(R2, p) : R2[x].calptn \cap R2[y].acpptn = {}
    <3>1. \A x \in CallersOf(R2, p) : x \in CallersOf(R, p) /\ R2[x] = R[x]
      BY <1>1, <2>7 DEF CallersOf
    <3>2. \A y \in AcceptorsOf(R2, p) : y \in AcceptorsOf(R, p) /\ R2[y] = R[y]
      BY <1>1, <2>7 DEF AcceptorsOf
    <3> QED BY <2>1, <3>1, <3>2 DEF AtPort
  <2> QED BY <2>2, <2>3, <2>6, <2>7, <2>8, <2>9 DEF AtPort
<1>3. Q \in [Ports -> PORCB]
  <2>1. Q = [p \in Ports |-> Q[p]]
    BY DEF WithoutTask
  <2> HIDE DEF Q
  <2> QED BY <1>2, <2>1
<1> HIDE DEF Q
<1>4. AtPorts(R2, Q, f)
  BY <1>1, <1>2, <1>3 DEF AtPorts
<1> QED BY <1>4 DEF Q

(* A call waits at port p, where nobody accepts it. *)
LEMMA CallQueued ==
    ASSUME NEW R, NEW P, NEW f \in [Tasks -> Pri], AtPorts(R, P, f),
           NEW t \in Tasks, Unqueued(R[t]), NEW p \in Ports, NEW ptn \in CallPtns,
           \A a \in AcceptorsOf(R, p) : R[a].acpptn \cap ptn = {},
           NEW Q, Q = [P EXCEPT ![p].call_queue = gcb_make_wait(@, t, f, p \in ByPri)],
           NEW R2, R2 = [R EXCEPT ![t] = CallWait(p, ptn)]
    PROVE  AtPorts(R2, Q, f)
<1> DEFINE w == CallWait(p, ptn)
           A == CallersOf(R, p)
           c == gcb_make_wait(P[p].call_queue, t, f, p \in ByPri)
<1>1. w \in RdvWaits /\ w.wspec = "cal" /\ w.wid = p /\ w.calptn = ptn
  BY DEF CallWait, RdvWaits
<1>2. /\ R2 \in [Tasks -> RdvWaits] /\ R2[t] = w
      /\ \A u \in Tasks \ {t} : R2[u] = R[u]
  BY <1>1 DEF AtPorts
<1>3. AtPort(R, P, f, p) /\ P[p] \in PORCB /\ P \in [Ports -> PORCB]
  BY DEF AtPorts
<1>4. Linked(Tasks, c, A \cup {t}) /\ (p \in ByPri => SortedBy(c, f))
  <2> DEFINE q == P[p].call_queue
             tpri == p \in ByPri
  <2>1. t \in Tasks \ A /\ Linked(Tasks, q, A) /\ (tpri => SortedBy(q, f)) /\ tpri \in BOOLEAN
    BY <1>3 DEF AtPort, CallersOf, Unqueued
  <2>2. c = gcb_make_wait(q, t, f, tpri)
    OBVIOUS
  <2> HIDE DEF q, tpri, A, c
  <2>3. Linked(Tasks, c, A \cup {t}) /\ (tpri => SortedBy(c, f))
    BY <2>1, <2>2, MakeWait
  <2> QED BY <2>3 DEF tpri
<1>5. c \in Seq(Tasks)
  BY <1>4 DEF Linked
<1>6. Q = [P EXCEPT ![p] = [P[p] EXCEPT !.call_queue = c]]
  BY <1>3
<1> HIDE DEF c, w
<1>7. /\ Q \in [Ports -> PORCB] /\ Q[p].call_queue = c
      /\ Q[p].accept_queue = P[p].accept_queue
      /\ \A o \in Ports \ {p} : Q[o] = P[o]
  <2> DEFINE z == [P[p] EXCEPT !.call_queue = c]
  <2>1. z \in PORCB /\ z.call_queue = c /\ z.accept_queue = P[p].accept_queue
    BY <1>3, <1>5 DEF PORCB
  <2>2. Q = [P EXCEPT ![p] = z]
    BY <1>6
  <2> HIDE DEF z
  <2> QED BY <1>3, <2>1, <2>2
<1>8. /\ CallersOf(R2, p) = A \cup {t} /\ AcceptorsOf(R2, p) = AcceptorsOf(R, p)
      /\ \A o \in Ports \ {p} : CallersOf(R2, o) = CallersOf(R, o)
                                /\ AcceptorsOf(R2, o) = AcceptorsOf(R, o)
  BY <1>1, <1>2 DEF CallersOf, AcceptorsOf, Unqueued
<1>9. /\ \A o \in Ports : \A x \in CallersOf(R, o) : x # t /\ R2[x] = R[x]
      /\ \A o \in Ports : \A y \in AcceptorsOf(R, o) : y # t /\ R2[y] = R[y]
  BY <1>2 DEF CallersOf, AcceptorsOf, Unqueued
<1>10. AtPort(R2, Q, f, p)
  <2>1. ASSUME NEW x \in A \cup {t}, NEW y \in AcceptorsOf(R, p)
        PROVE  R2[x].calptn \cap R2[y].acpptn = {}
    <3>1. CASE x = t
      BY <1>1, <1>2, <1>9, <3>1
    <3>2. CASE x \in A
      BY <1>3, <1>9, <3>2 DEF AtPort
    <3> QED BY <3>1, <3>2
  <2> QED BY <1>3, <1>4, <1>7, <1>8, <2>1 DEF AtPort
<1>11. ASSUME NEW o \in Ports \ {p} PROVE AtPort(R2, Q, f, o)
  <2>1. AtPort(R, P, f, o)
    BY DEF AtPorts
  <2>2. /\ Q[o].call_queue = P[o].call_queue /\ Q[o].accept_queue = P[o].accept_queue
        /\ CallersOf(R2, o) = CallersOf(R, o) /\ AcceptorsOf(R2, o) = AcceptorsOf(R, o)
    BY <1>7, <1>8
  <2>3. /\ \A x \in CallersOf(R, o) : R2[x] = R[x]
        /\ \A y \in AcceptorsOf(R, o) : R2[y] = R[y]
    BY <1>9
  <2> QED BY <2>1, <2>2, <2>3, SamePort
<1> QED BY <1>2, <1>7, <1>10, <1>11 DEF AtPorts

(* An acceptance waits at port p, where no call fits. *)
LEMMA AcceptQueued ==
    ASSUME NEW R, NEW P, NEW f, AtPorts(R, P, f),
           NEW t \in Tasks, Unqueued(R[t]), NEW p \in Ports, NEW ptn \in CallPtns,
           \A c \in CallersOf(R, p) : R[c].calptn \cap ptn = {},
           NEW Q, Q = [P EXCEPT ![p].accept_queue = Append(@, t)],
           NEW R2, R2 = [R EXCEPT ![t] = AcceptWait(p, ptn)]
    PROVE  AtPorts(R2, Q, f)
<1> DEFINE w == AcceptWait(p, ptn)
           A == AcceptorsOf(R, p)
           a == Append(P[p].accept_queue, t)
<1>1. w \in RdvWaits /\ w.wspec = "acp" /\ w.wid = p /\ w.acpptn = ptn
  BY DEF AcceptWait, RdvWaits
<1>2. /\ R2 \in [Tasks -> RdvWaits] /\ R2[t] = w
      /\ \A u \in Tasks \ {t} : R2[u] = R[u]
  BY <1>1 DEF AtPorts
<1>3. AtPort(R, P, f, p) /\ P[p] \in PORCB /\ P \in [Ports -> PORCB]
  BY DEF AtPorts
<1>4. Linked(Tasks, a, A \cup {t})
  <2>1. t \in Tasks \ A /\ Linked(Tasks, P[p].accept_queue, A)
    BY <1>3 DEF AtPort, AcceptorsOf, Unqueued
  <2> QED BY <2>1, AppendLinked
<1>5. a \in Seq(Tasks)
  BY <1>4 DEF Linked
<1>6. Q = [P EXCEPT ![p] = [P[p] EXCEPT !.accept_queue = a]]
  BY <1>3
<1> HIDE DEF a, w
<1>7. /\ Q \in [Ports -> PORCB] /\ Q[p].accept_queue = a
      /\ Q[p].call_queue = P[p].call_queue
      /\ \A o \in Ports \ {p} : Q[o] = P[o]
  <2> DEFINE z == [P[p] EXCEPT !.accept_queue = a]
  <2>1. z \in PORCB /\ z.accept_queue = a /\ z.call_queue = P[p].call_queue
    BY <1>3, <1>5 DEF PORCB
  <2>2. Q = [P EXCEPT ![p] = z]
    BY <1>6
  <2> HIDE DEF z
  <2> QED BY <1>3, <2>1, <2>2
<1>8. /\ AcceptorsOf(R2, p) = A \cup {t} /\ CallersOf(R2, p) = CallersOf(R, p)
      /\ \A o \in Ports \ {p} : CallersOf(R2, o) = CallersOf(R, o)
                                /\ AcceptorsOf(R2, o) = AcceptorsOf(R, o)
  BY <1>1, <1>2 DEF CallersOf, AcceptorsOf, Unqueued
<1>9. /\ \A o \in Ports : \A x \in CallersOf(R, o) : x # t /\ R2[x] = R[x]
      /\ \A o \in Ports : \A y \in AcceptorsOf(R, o) : y # t /\ R2[y] = R[y]
  BY <1>2 DEF CallersOf, AcceptorsOf, Unqueued
<1>10. AtPort(R2, Q, f, p)
  <2>1. ASSUME NEW x \in CallersOf(R, p), NEW y \in A \cup {t}
        PROVE  R2[x].calptn \cap R2[y].acpptn = {}
    <3>1. CASE y = t
      BY <1>1, <1>2, <1>9, <3>1
    <3>2. CASE y \in A
      BY <1>3, <1>9, <3>2 DEF AtPort
    <3> QED BY <3>1, <3>2
  <2> QED BY <1>3, <1>4, <1>7, <1>8, <2>1 DEF AtPort
<1>11. ASSUME NEW o \in Ports \ {p} PROVE AtPort(R2, Q, f, o)
  <2>1. AtPort(R, P, f, o)
    BY DEF AtPorts
  <2>2. /\ Q[o].call_queue = P[o].call_queue /\ Q[o].accept_queue = P[o].accept_queue
        /\ CallersOf(R2, o) = CallersOf(R, o) /\ AcceptorsOf(R2, o) = AcceptorsOf(R, o)
    BY <1>7, <1>8
  <2>3. /\ \A x \in CallersOf(R, o) : R2[x] = R[x]
        /\ \A y \in AcceptorsOf(R, o) : R2[y] = R[y]
    BY <1>9
  <2> QED BY <2>1, <2>2, <2>3, SamePort
<1> QED BY <1>2, <1>7, <1>10, <1>11 DEF AtPorts

(* Who is found at a port waits there, and nobody there fits if nobody is. *)
LEMMA AcceptorFound ==
    ASSUME AtPorts(rdv, port, priority), NEW p \in Ports, NEW ptn,
           NEW found, found = Acceptors(p, ptn)
    PROVE  /\ found = {} => \A a \in AcceptorsOf(rdv, p) : rdv[a].acpptn \cap ptn = {}
           /\ found # {} => port[p].accept_queue[Min(found)] \in AcceptorsOf(rdv, p)
<1> DEFINE q == port[p].accept_queue
           A == AcceptorsOf(rdv, p)
<1>1. /\ Len(q) \in Nat /\ DOMAIN q = 1 .. Len(q)
      /\ \A u : u \in A <=> \E i \in 1 .. Len(q) : q[i] = u
  <2>1. Linked(Tasks, q, A)
    BY DEF AtPorts, AtPort
  <2> HIDE DEF q, A
  <2> QED BY <2>1, PlacesOf DEF Linked
<1>2. found = {i \in DOMAIN q : rdv[q[i]].acpptn \cap ptn # {}}
  BY DEF Acceptors
<1> HIDE DEF q, A
<1>3. found = {} => \A a \in A : rdv[a].acpptn \cap ptn = {}
  BY <1>1, <1>2
<1>4. found # {} => Min(found) \in found
  <2>1. found \in SUBSET Nat
    BY <1>1, <1>2
  <2> QED BY <2>1, MinIsLeast
<1>5. found # {} => q[Min(found)] \in A
  BY <1>1, <1>2, <1>4
<1> QED BY <1>3, <1>5 DEF q, A

LEMMA CallerFound ==
    ASSUME AtPorts(rdv, port, priority), NEW p \in Ports, NEW ptn,
           NEW found, found = Callers(p, ptn)
    PROVE  /\ found = {} => \A c \in CallersOf(rdv, p) : rdv[c].calptn \cap ptn = {}
           /\ found # {} => port[p].call_queue[Min(found)] \in CallersOf(rdv, p)
<1> DEFINE q == port[p].call_queue
           A == CallersOf(rdv, p)
<1>1. /\ Len(q) \in Nat /\ DOMAIN q = 1 .. Len(q)
      /\ \A u : u \in A <=> \E i \in 1 .. Len(q) : q[i] = u
  <2>1. Linked(Tasks, q, A)
    BY DEF AtPorts, AtPort
  <2> HIDE DEF q, A
  <2> QED BY <2>1, PlacesOf DEF Linked
<1>2. found = {i \in DOMAIN q : rdv[q[i]].calptn \cap ptn # {}}
  BY DEF Callers
<1> HIDE DEF q, A
<1>3. found = {} => \A a \in A : rdv[a].calptn \cap ptn = {}
  BY <1>1, <1>2
<1>4. found # {} => Min(found) \in found
  <2>1. found \in SUBSET Nat
    BY <1>1, <1>2
  <2> QED BY <2>1, MinIsLeast
<1>5. found # {} => q[Min(found)] \in A
  BY <1>1, <1>2, <1>4
<1> QED BY <1>3, <1>5 DEF q, A

(* An acceptor goes on, and t waits for the end of the rendezvous or goes  *)
(* on, too.                                                                *)
LEMMA AcceptorTaken ==
    ASSUME AtPorts(rdv, port, priority), NEW t \in Tasks, Unqueued(rdv[t]),
           NEW p, NEW a \in AcceptorsOf(rdv, p), NEW w \in RdvWaits, Unqueued(w),
           NEW R2, R2 = [rdv EXCEPT ![a] = NoRdv, ![t] = w]
    PROVE  /\ AtPorts(R2, WithoutTask(port, a), priority)
           /\ R2[t] = w /\ \A u \in Tasks \ {t} : R2[u] = rdv[u] \/ R2[u] = NoRdv
<1> DEFINE R1 == [rdv EXCEPT ![a] = NoRdv]
           Q == WithoutTask(port, a)
<1>1. NoRdv \in RdvWaits /\ Unqueued(NoRdv) /\ a \in Tasks
  BY DEF RdvWaits, NoRdv, Unqueued, AcceptorsOf
<1>2. AtPorts(R1, Q, priority)
  BY <1>1, LeavesPort
<1>3. rdv \in [Tasks -> RdvWaits]
  BY DEF AtPorts
<1>4. R1 \in [Tasks -> RdvWaits] /\ Unqueued(R1[t]) /\ R2 = [R1 EXCEPT ![t] = w]
  BY <1>1, <1>3
<1>5. R2[t] = w /\ \A u \in Tasks \ {t} : R2[u] = rdv[u] \/ R2[u] = NoRdv
  BY <1>3
<1> HIDE DEF R1, Q
<1>6. AtPorts(R2, Q, priority)
  BY <1>2, <1>4, WaitsElsewhere
<1> QED BY <1>5, <1>6 DEF Q

-----------------------------------------------------------------------------
(* Rendezvous: the invariant                                               *)

(* The wait w of a task whose next number is n belongs to the call b that  *)
(* it is in: a call that waits has not used a number up since, a           *)
(* rendezvous has the last one, and the answer fits into the caller's      *)
(* buffer.                                                                 *)
Agreed(w, n, b) ==
    /\ w.wspec = "cal" => b.begun <= n /\ MaxRmsz[w.wid] <= b.room
    /\ w.wspec = "rdv" => /\ w.rdvno = n - 1 /\ b.begun <= w.rdvno
                          /\ w.maxrmsz <= b.room

RdvInv ==
    /\ priority \in [Tasks -> Pri] /\ wrdvno \in [Tasks -> Nat]
    /\ brought \in [Tasks -> [begun : Nat, room : Nat]]
    /\ AtPorts(rdv, port, priority)
    /\ \A t \in Tasks : Agreed(rdv[t], wrdvno[t], brought[t])

(* The body of OwnAnswer *)
Answers ==
    \A t \in written'.to :
        /\ written'.rdvno \in brought[t].begun .. wrdvno[t] - 1
        /\ written'.rdvno = wrdvno[t] - 1
        /\ written'.size <= brought[t].room

(* After a step that ends some calls and keeps what others brought *)
LEMMA RdvBecomes ==
    ASSUME NEW f \in [Tasks -> Pri], priority' = f,
           NEW Q, port' = Q, NEW R2, rdv' = R2, AtPorts(R2, Q, f),
           NEW n \in [Tasks -> Nat], wrdvno' = n,
           NEW b \in [Tasks -> [begun : Nat, room : Nat]], Kept(b),
           \A u \in Tasks : Agreed(R2[u], n[u], b[u])
    PROVE  RdvInv'
<1>1. brought' = [t \in Tasks |-> IF R2[t].wspec \in {"cal", "rdv"} THEN b[t] ELSE NotBrought]
  BY DEF Kept
<1>2. NotBrought \in [begun : Nat, room : Nat]
  BY DEF NotBrought
<1>3. brought' \in [Tasks -> [begun : Nat, room : Nat]]
  BY <1>1, <1>2
<1>4. ASSUME NEW u \in Tasks PROVE Agreed(R2[u], n[u], brought'[u])
  <2>1. CASE R2[u].wspec \in {"cal", "rdv"}
    BY <1>1, <2>1
  <2>2. CASE R2[u].wspec \notin {"cal", "rdv"}
    BY <2>2 DEF Agreed
  <2> QED BY <2>1, <2>2
<1> QED BY <1>3, <1>4 DEF RdvInv

(* What a task that is in no call waits for agrees with any call. *)
LEMMA NoRdvAgrees ==
    ASSUME NEW n, NEW b
    PROVE  Agreed(NoRdv, n, b)
  BY DEF Agreed, NoRdv

(* The end of a rendezvous that t begins with its next number *)
LEMMA EndOfRdvAgrees ==
    ASSUME NEW n \in Nat, NEW m \in Nat, NEW b \in [begun : Nat, room : Nat],
           b.begun <= n, m <= b.room,
           NEW w, w = NoRdv \/ w = EndOfRdvWait(n, m)
    PROVE  w \in RdvWaits /\ Unqueued(w) /\ Agreed(w, n + 1, b)
<1>1. CASE w = NoRdv
  BY <1>1, NoRdvAgrees DEF NoRdv, RdvWaits, Unqueued
<1>2. CASE w = EndOfRdvWait(n, m)
  <2>1. w.wspec = "rdv" /\ w.rdvno = n /\ w.maxrmsz = m /\ w \in RdvWaits
    BY <1>2 DEF EndOfRdvWait, RdvWaits
  <2> QED BY <2>1 DEF Unqueued, Agreed
<1> QED BY <1>1, <1>2

(* gen_rdvno uses the next number of t up. *)
LEMMA NextNumber ==
    ASSUME RdvInv, NEW t \in Tasks, gen_rdvno(t)
    PROVE  /\ wrdvno' \in [Tasks -> Nat] /\ wrdvno'[t] = wrdvno[t] + 1
           /\ \A u \in Tasks \ {t} : wrdvno'[u] = wrdvno[u]
<1>1. wrdvno \in [Tasks -> Nat] /\ wrdvno' = [wrdvno EXCEPT ![t] = wrdvno[t] + 1]
  BY DEF RdvInv, gen_rdvno
<1> QED BY <1>1

(* The next state of a call that writes nothing *)
LEMMA tk_cre_por_OK ==
    ASSUME RdvInv, NEW p \in Ports, tk_cre_por(p)
    PROVE  RdvInv' /\ Answers
<1> DEFINE Q == [port EXCEPT ![p].porid = TRUE]
           f == priority
           n == wrdvno
           b == brought
           R == rdv
<1>1. /\ port' = Q /\ rdv' = R /\ wrdvno' = n /\ priority' = f /\ Kept(b) /\ written' = NoText
  BY DEF tk_cre_por, Unwritten
<1>2. /\ f \in [Tasks -> Pri] /\ n \in [Tasks -> Nat] /\ b \in [Tasks -> [begun : Nat, room : Nat]]
      /\ \A u \in Tasks : Agreed(R[u], n[u], b[u])
  BY DEF RdvInv
<1>3. AtPorts(R, Q, f)
  <2>1. R \in [Tasks -> RdvWaits] /\ port \in [Ports -> PORCB]
    BY DEF RdvInv, AtPorts
  <2>2. /\ Q \in [Ports -> PORCB]
        /\ \A o \in Ports : /\ Q[o].call_queue = port[o].call_queue
                           /\ Q[o].accept_queue = port[o].accept_queue
    <3> DEFINE z == [port[p] EXCEPT !.porid = TRUE]
    <3>1. /\ z \in PORCB /\ z.call_queue = port[p].call_queue
          /\ z.accept_queue = port[p].accept_queue
      BY <2>1 DEF PORCB
    <3>2. Q = [port EXCEPT ![p] = z]
      BY <2>1
    <3> HIDE DEF z
    <3> QED BY <2>1, <3>1, <3>2
  <2> HIDE DEF Q
  <2>3. ASSUME NEW o \in Ports PROVE AtPort(R, Q, f, o)
    <3>1. AtPort(R, port, f, o)
      BY DEF RdvInv, AtPorts
    <3> HIDE DEF R, f
    <3> QED BY <2>2, <3>1, SamePort
  <2> QED BY <2>1, <2>2, <2>3 DEF AtPorts
<1>4. Answers
  BY <1>1 DEF Answers, NoText
<1> HIDE DEF Q, f, n, b, R
<1>5. RdvInv'
  BY <1>1, <1>2, <1>3, RdvBecomes
<1> QED BY <1>4, <1>5

LEMMA tk_del_por_OK ==
    ASSUME RdvInv, NEW p \in Ports, tk_del_por(p)
    PROVE  RdvInv' /\ Answers
<1> DEFINE Q == [port EXCEPT ![p] = NoPort]
           f == priority
           n == wrdvno
           b == brought
           left == ToSet(port[p].call_queue) \cup ToSet(port[p].accept_queue)
           R == [t \in Tasks |-> IF t \in left THEN NoRdv ELSE rdv[t]]
<1>1. /\ port' = Q /\ rdv' = R /\ wrdvno' = n /\ priority' = f /\ Kept(b) /\ written' = NoText
  BY DEF tk_del_por, Unwritten
<1>2. /\ f \in [Tasks -> Pri] /\ n \in [Tasks -> Nat] /\ b \in [Tasks -> [begun : Nat, room : Nat]]
      /\ \A u \in Tasks : Agreed(rdv[u], n[u], b[u])
      /\ rdv \in [Tasks -> RdvWaits] /\ port \in [Ports -> PORCB]
      /\ \A o \in Ports : AtPort(rdv, port, f, o)
  BY DEF RdvInv, AtPorts
<1>3. \A u \in Tasks : Agreed(R[u], n[u], b[u])
  BY <1>2, NoRdvAgrees
<1>4. left = CallersOf(rdv, p) \cup AcceptorsOf(rdv, p)
  BY <1>2 DEF AtPort, Linked
<1> HIDE DEF left
<1>5. NoRdv \in RdvWaits /\ NoRdv.wspec = "none"
  BY DEF NoRdv, RdvWaits
<1>6. R \in [Tasks -> RdvWaits]
  BY <1>2, <1>5
<1>7. /\ NoPort \in PORCB /\ NoPort.call_queue = <<>> /\ NoPort.accept_queue = <<>>
      /\ Q \in [Ports -> PORCB] /\ Q[p] = NoPort
      /\ \A o \in Ports \ {p} : Q[o] = port[o]
  <2>1. NoPort \in PORCB /\ NoPort.call_queue = <<>> /\ NoPort.accept_queue = <<>>
    BY DEF NoPort, PORCB
  <2> QED BY <1>2, <2>1
<1>8. CallersOf(R, p) = {} /\ AcceptorsOf(R, p) = {}
  BY <1>4, <1>5 DEF CallersOf, AcceptorsOf
<1>9. AtPort(R, Q, f, p)
  <2>1. Linked(Tasks, Q[p].call_queue, {}) /\ Linked(Tasks, Q[p].accept_queue, {})
    BY <1>7, NothingLinked
  <2>2. Len(Q[p].call_queue) = 0
    BY <1>7
  <2>3. SortedBy(Q[p].call_queue, f)
    BY <2>2 DEF SortedBy
  <2> HIDE DEF R, Q, f
  <2> QED BY <1>8, <2>1, <2>3 DEF AtPort
<1>10. ASSUME NEW o \in Ports \ {p} PROVE AtPort(R, Q, f, o)
  <2>1. /\ \A x \in CallersOf(rdv, o) : x \in Tasks /\ x \notin left
        /\ \A y \in AcceptorsOf(rdv, o) : y \in Tasks /\ y \notin left
    BY <1>4 DEF CallersOf, AcceptorsOf
  <2>2. /\ \A x \in CallersOf(rdv, o) : R[x] = rdv[x]
        /\ \A y \in AcceptorsOf(rdv, o) : R[y] = rdv[y]
    BY <2>1
  <2>3. CallersOf(R, o) = CallersOf(rdv, o) /\ AcceptorsOf(R, o) = AcceptorsOf(rdv, o)
    <3>1. \A x \in Tasks : R[x] = rdv[x] \/ R[x].wspec = "none"
      BY <1>5
    <3> HIDE DEF R
    <3> QED BY <2>2, <3>1 DEF CallersOf, AcceptorsOf
  <2>4. AtPort(rdv, port, f, o) /\ Q[o] = port[o]
    BY <1>2, <1>7
  <2> HIDE DEF R, Q, f
  <2> QED BY <2>2, <2>3, <2>4, SamePort
<1>11. Answers
  BY <1>1 DEF Answers, NoText
<1> HIDE DEF R, Q, f, n, b
<1>12. AtPorts(R, Q, f)
  BY <1>6, <1>7, <1>9, <1>10 DEF AtPorts
<1>13. RdvInv'
  BY <1>1, <1>2, <1>3, <1>12, RdvBecomes
<1> QED BY <1>11, <1>13

LEMMA tk_cal_por_OK ==
    ASSUME RdvInv, NEW t \in Tasks, NEW p \in Ports, NEW ptn \in CallPtns,
           tk_cal_por(t, p, ptn)
    PROVE  RdvInv' /\ Answers
<1> DEFINE found == Acceptors(p, ptn)
           first == port[p].accept_queue[Min(found)]
           f == priority
           b == [brought EXCEPT ![t] = [begun |-> wrdvno[t], room |-> MaxRmsz[p]]]
<1>1. /\ Free(t) /\ Kept(b) /\ written' = NoText /\ priority' = f
  BY DEF tk_cal_por
<1>2. /\ f \in [Tasks -> Pri] /\ wrdvno \in [Tasks -> Nat] /\ MaxRmsz[p] \in Nat
      /\ \A u \in Tasks : Agreed(rdv[u], wrdvno[u], brought[u])
      /\ AtPorts(rdv, port, f) /\ rdv \in [Tasks -> RdvWaits]
  BY RendezvousAssumption DEF RdvInv, AtPorts
<1>3. /\ b \in [Tasks -> [begun : Nat, room : Nat]] /\ b[t].begun = wrdvno[t]
      /\ b[t].room = MaxRmsz[p] /\ \A u \in Tasks \ {t} : b[u] = brought[u]
  BY <1>2 DEF RdvInv
<1>4. Unqueued(rdv[t])
  BY <1>1 DEF Free, Unqueued
<1>5. Answers
  BY <1>1 DEF Answers, NoText
<1> HIDE DEF f, b
<1>6. CASE /\ found = {} /\ port' = Enqueued(p, t) /\ wrdvno' = wrdvno
           /\ rdv' = [rdv EXCEPT ![t] = CallWait(p, ptn)]
  <2> DEFINE Q == Enqueued(p, t)
             R2 == [rdv EXCEPT ![t] = CallWait(p, ptn)]
             n == wrdvno
  <2>1. \A a \in AcceptorsOf(rdv, p) : rdv[a].acpptn \cap ptn = {}
    BY <1>2, <1>6, AcceptorFound DEF f
  <2>2. Q = [port EXCEPT ![p].call_queue = gcb_make_wait(@, t, f, p \in ByPri)]
    BY DEF Enqueued, f
  <2>3. /\ R2[t].wspec = "cal" /\ R2[t].wid = p
        /\ \A u \in Tasks \ {t} : R2[u] = rdv[u]
    BY <1>2 DEF CallWait
  <2>4. port' = Q /\ rdv' = R2 /\ wrdvno' = n /\ n \in [Tasks -> Nat]
    BY <1>2, <1>6
  <2>5. R2 = [rdv EXCEPT ![t] = CallWait(p, ptn)]
    OBVIOUS
  <2> HIDE DEF Q, R2
  <2>6. AtPorts(R2, Q, f)
    BY <1>2, <1>4, <2>1, <2>2, <2>5, CallQueued
  <2>7. Agreed(R2[t], n[t], b[t])
    <3>1. wrdvno[t] \in Nat
      BY <1>2
    <3> QED BY <1>2, <1>3, <2>3, <3>1 DEF Agreed
  <2>8. ASSUME NEW u \in Tasks PROVE Agreed(R2[u], n[u], b[u])
    BY <1>2, <1>3, <2>3, <2>7
  <2> HIDE DEF n
  <2>9. RdvInv'
    BY <1>1, <1>2, <1>3, <2>4, <2>6, <2>8, RdvBecomes
  <2> QED BY <1>5, <2>9
<1>7. CASE /\ found # {} /\ gen_rdvno(t) /\ port' = WithoutTask(port, first)
           /\ \E disabled \in BOOLEAN :
                 rdv' = [rdv EXCEPT
                     ![first] = NoRdv,
                     ![t] = IF disabled THEN NoRdv ELSE EndOfRdvWait(wrdvno[t], MaxRmsz[p])]
  <2>1. PICK w \in {NoRdv, EndOfRdvWait(wrdvno[t], MaxRmsz[p])} :
                rdv' = [rdv EXCEPT ![first] = NoRdv, ![t] = w]
    BY <1>7
  <2>2. first \in AcceptorsOf(rdv, p)
    BY <1>2, <1>7, AcceptorFound DEF f
  <2> DEFINE a == first
             Q == WithoutTask(port, a)
             R2 == [rdv EXCEPT ![a] = NoRdv, ![t] = w]
  <2>3. PICK n : n = wrdvno'
    OBVIOUS
  <2>4. /\ n \in [Tasks -> Nat] /\ n[t] = wrdvno[t] + 1
        /\ \A u \in Tasks \ {t} : n[u] = wrdvno[u]
    BY <1>7, <2>3, NextNumber
  <2>5. w \in RdvWaits /\ Unqueued(w) /\ Agreed(w, n[t], b[t])
    <3> DEFINE c == b[t]
               m == MaxRmsz[p]
               k == wrdvno[t]
    <3>1. /\ k \in Nat /\ m \in Nat /\ c \in [begun : Nat, room : Nat] /\ c.begun <= k
          /\ m <= c.room /\ (w = NoRdv \/ w = EndOfRdvWait(k, m)) /\ n[t] = k + 1
      BY <1>2, <1>3, <2>1, <2>4
    <3> HIDE DEF c, m, k
    <3>2. w \in RdvWaits /\ Unqueued(w) /\ Agreed(w, k + 1, c)
      BY <3>1, EndOfRdvAgrees
    <3> QED BY <3>1, <3>2 DEF c
  <2>6. port' = Q /\ rdv' = R2 /\ a \in AcceptorsOf(rdv, p) /\ R2 = [rdv EXCEPT ![a] = NoRdv, ![t] = w]
    BY <1>7, <2>1, <2>2
  <2> HIDE DEF a, R2
  <2>7. /\ AtPorts(R2, Q, f) /\ R2[t] = w
        /\ \A u \in Tasks \ {t} : R2[u] = rdv[u] \/ R2[u] = NoRdv
    BY <1>2, <1>4, <2>5, <2>6, AcceptorTaken DEF f
  <2>8. ASSUME NEW u \in Tasks PROVE Agreed(R2[u], n[u], b[u])
    <3>1. CASE u = t
      BY <2>5, <2>7, <3>1
    <3>2. CASE u # t /\ R2[u] = NoRdv
      BY <3>2, NoRdvAgrees
    <3>3. CASE u # t /\ R2[u] = rdv[u]
      BY <1>2, <1>3, <2>4, <3>3
    <3> QED BY <2>7, <3>1, <3>2, <3>3
  <2> HIDE DEF Q
  <2>9. RdvInv'
    <3>1. f \in [Tasks -> Pri] /\ priority' = f /\ port' = Q /\ rdv' = R2 /\ AtPorts(R2, Q, f)
      BY <1>1, <1>2, <2>6, <2>7
    <3>2. n \in [Tasks -> Nat] /\ wrdvno' = n /\ Kept(b)
      BY <1>1, <2>3, <2>4
    <3>3. b \in [Tasks -> [begun : Nat, room : Nat]] /\ \A u \in Tasks : Agreed(R2[u], n[u], b[u])
      BY <1>3, <2>8
    <3> QED BY <3>1, <3>2, <3>3, RdvBecomes
  <2> QED BY <1>5, <2>9
<1> QED BY <1>6, <1>7 DEF tk_cal_por

LEMMA tk_acp_por_OK ==
    ASSUME RdvInv, NEW t \in Tasks, NEW p \in Ports, NEW ptn \in CallPtns,
           tk_acp_por(t, p, ptn)
    PROVE  RdvInv' /\ Answers
<1> DEFINE found == Acceptable(p, ptn)
           first == port[p].call_queue[Min(found)]
           f == priority
           b == brought
<1>1. /\ Free(t) /\ Kept(b) /\ written' = NoText /\ priority' = f
  BY DEF tk_acp_por, Unwritten
<1>2. /\ f \in [Tasks -> Pri] /\ wrdvno \in [Tasks -> Nat] /\ MaxRmsz[p] \in Nat
      /\ b \in [Tasks -> [begun : Nat, room : Nat]]
      /\ \A u \in Tasks : Agreed(rdv[u], wrdvno[u], b[u])
      /\ AtPorts(rdv, port, f) /\ rdv \in [Tasks -> RdvWaits]
  BY RendezvousAssumption DEF RdvInv, AtPorts
<1>3. Unqueued(rdv[t])
  BY <1>1 DEF Free, Unqueued
<1>4. Answers
  BY <1>1 DEF Answers, NoText
<1>5. found = Callers(p, ptn)
  BY DEF Acceptable
<1> HIDE DEF f, b, found
<1>6. CASE /\ found = {} /\ port' = [port EXCEPT ![p].accept_queue = Append(@, t)]
           /\ rdv' = [rdv EXCEPT ![t] = AcceptWait(p, ptn)] /\ wrdvno' = wrdvno
  <2> DEFINE Q == [port EXCEPT ![p].accept_queue = Append(@, t)]
             R2 == [rdv EXCEPT ![t] = AcceptWait(p, ptn)]
             n == wrdvno
  <2>1. \A c \in CallersOf(rdv, p) : rdv[c].calptn \cap ptn = {}
    BY <1>2, <1>5, <1>6, CallerFound DEF f
  <2>2. R2[t].wspec = "acp" /\ \A u \in Tasks \ {t} : R2[u] = rdv[u]
    BY <1>2 DEF AcceptWait
  <2>3. /\ port' = Q /\ rdv' = R2 /\ wrdvno' = n /\ n \in [Tasks -> Nat]
        /\ Q = [port EXCEPT ![p].accept_queue = Append(@, t)]
        /\ R2 = [rdv EXCEPT ![t] = AcceptWait(p, ptn)]
    BY <1>2, <1>6
  <2> HIDE DEF Q, R2
  <2>4. AtPorts(R2, Q, f)
    BY <1>2, <1>3, <2>1, <2>3, AcceptQueued
  <2>5. ASSUME NEW u \in Tasks PROVE Agreed(R2[u], n[u], b[u])
    <3>1. CASE u = t
      BY <2>2, <3>1 DEF Agreed
    <3>2. CASE u # t
      BY <1>2, <2>2, <3>2
    <3> QED BY <3>1, <3>2
  <2> HIDE DEF n
  <2>6. RdvInv'
    BY <1>1, <1>2, <2>3, <2>4, <2>5, RdvBecomes
  <2> QED BY <1>4, <2>6
<1>7. CASE /\ found # {} /\ gen_rdvno(first) /\ port' = WithoutTask(port, first)
           /\ \E disabled \in BOOLEAN :
                 rdv' = [rdv EXCEPT
                     ![first] = IF disabled THEN NoRdv
                                ELSE EndOfRdvWait(wrdvno[first], MaxRmsz[p])]
  <2>1. first \in CallersOf(rdv, p)
    BY <1>2, <1>5, <1>7, CallerFound DEF f
  <2>2. PICK a \in Tasks : a = first
    BY <2>1 DEF CallersOf
  <2>3. PICK w \in {NoRdv, EndOfRdvWait(wrdvno[a], MaxRmsz[p])} : rdv' = [rdv EXCEPT ![a] = w]
    BY <1>7, <2>2
  <2> DEFINE Q == WithoutTask(port, a)
             R2 == [rdv EXCEPT ![a] = w]
  <2>4. PICK n : n = wrdvno'
    OBVIOUS
  <2>5. /\ n \in [Tasks -> Nat] /\ n[a] = wrdvno[a] + 1
        /\ \A u \in Tasks \ {a} : n[u] = wrdvno[u]
    BY <1>7, <2>2, <2>4, NextNumber
  <2>6. w \in RdvWaits /\ Unqueued(w) /\ Agreed(w, n[a], b[a])
    <3> DEFINE c == b[a]
               m == MaxRmsz[p]
               k == wrdvno[a]
    <3>1. rdv[a].wspec = "cal" /\ rdv[a].wid = p
      BY <2>1, <2>2 DEF CallersOf
    <3>2. c.begun <= k /\ m <= c.room
      BY <1>2, <3>1 DEF Agreed
    <3>3. /\ k \in Nat /\ m \in Nat /\ c \in [begun : Nat, room : Nat]
          /\ (w = NoRdv \/ w = EndOfRdvWait(k, m)) /\ n[a] = k + 1
      BY <1>2, <2>3, <2>5
    <3> HIDE DEF c, m, k
    <3>4. w \in RdvWaits /\ Unqueued(w) /\ Agreed(w, k + 1, c)
      BY <3>2, <3>3, EndOfRdvAgrees
    <3> QED BY <3>3, <3>4 DEF c
  <2>7. /\ port' = Q /\ rdv' = R2 /\ R2 = [rdv EXCEPT ![a] = w]
        /\ R2[a] = w /\ \A u \in Tasks \ {a} : R2[u] = rdv[u]
    BY <1>2, <1>7, <2>2, <2>3
  <2> HIDE DEF R2
  <2>8. AtPorts(R2, Q, f)
    BY <1>2, <2>6, <2>7, LeavesPort
  <2>9. ASSUME NEW u \in Tasks PROVE Agreed(R2[u], n[u], b[u])
    <3>1. CASE u = a
      BY <2>6, <2>7, <3>1
    <3>2. CASE u # a
      BY <1>2, <2>5, <2>7, <3>2
    <3> QED BY <3>1, <3>2
  <2> HIDE DEF Q
  <2>10. RdvInv'
    <3>1. f \in [Tasks -> Pri] /\ priority' = f /\ port' = Q /\ rdv' = R2 /\ AtPorts(R2, Q, f)
      BY <1>1, <1>2, <2>7, <2>8
    <3>2. n \in [Tasks -> Nat] /\ wrdvno' = n /\ Kept(b)
      BY <1>1, <2>4, <2>5
    <3>3. b \in [Tasks -> [begun : Nat, room : Nat]] /\ \A u \in Tasks : Agreed(R2[u], n[u], b[u])
      BY <1>2, <2>9
    <3> QED BY <3>1, <3>2, <3>3, RdvBecomes
  <2> QED BY <1>4, <2>10
<1>8. found = Acceptable(p, ptn)
  BY DEF found
<1> QED BY <1>6, <1>7, <1>8 DEF tk_acp_por, Unwritten

(* A task that waits in no queue goes on, whatever else it waited for. *)
LEMMA RdvEnds ==
    ASSUME RdvInv, NEW t \in Tasks, Unqueued(rdv[t]), rdv' = [rdv EXCEPT ![t] = NoRdv],
           port' = port, wrdvno' = wrdvno, priority' = priority, Kept(brought)
    PROVE  RdvInv'
<1> DEFINE Q == port
           R2 == [rdv EXCEPT ![t] = NoRdv]
           f == priority
           n == wrdvno
           b == brought
<1>1. /\ port' = Q /\ rdv' = R2 /\ wrdvno' = n /\ priority' = f /\ Kept(b)
      /\ R2 = [rdv EXCEPT ![t] = NoRdv]
  OBVIOUS
<1>2. /\ f \in [Tasks -> Pri] /\ n \in [Tasks -> Nat] /\ b \in [Tasks -> [begun : Nat, room : Nat]]
      /\ \A u \in Tasks : Agreed(rdv[u], n[u], b[u])
      /\ AtPorts(rdv, Q, f) /\ rdv \in [Tasks -> RdvWaits]
  BY DEF RdvInv, AtPorts
<1>3. NoRdv \in RdvWaits /\ Unqueued(NoRdv)
  BY DEF NoRdv, RdvWaits, Unqueued
<1>4. \A u \in Tasks : R2[u] = rdv[u] \/ R2[u] = NoRdv
  BY <1>2
<1> HIDE DEF R2, Q, f, n, b
<1>5. AtPorts(R2, Q, f)
  BY <1>1, <1>2, <1>3, WaitsElsewhere
<1>6. \A u \in Tasks : Agreed(R2[u], n[u], b[u])
  BY <1>2, <1>4, NoRdvAgrees
<1>7. f \in [Tasks -> Pri] /\ priority' = f /\ port' = Q /\ rdv' = R2 /\ AtPorts(R2, Q, f)
  BY <1>1, <1>2, <1>5
<1>8. n \in [Tasks -> Nat] /\ wrdvno' = n /\ b \in [Tasks -> [begun : Nat, room : Nat]] /\ Kept(b)
  BY <1>1, <1>2
<1> QED BY <1>6, <1>7, <1>8, RdvBecomes

(* What is known of a rendezvous that t waits to end, when an answer comes *)
(* that is valid for it.                                                   *)
LEMMA ValidAnswer ==
    ASSUME RdvInv, NEW t \in Tasks, NEW no \in Nat, Valid(t, no)
    PROVE  /\ Unqueued(rdv[t]) /\ no = wrdvno[t] - 1 /\ rdv[t].maxrmsz \in Nat
           /\ wrdvno[t] \in Nat /\ brought[t] \in [begun : Nat, room : Nat]
           /\ brought[t].begun <= no /\ rdv[t].maxrmsz <= brought[t].room
<1> DEFINE w == rdv[t]
<1>1. /\ w \in RdvWaits /\ Agreed(w, wrdvno[t], brought[t])
      /\ wrdvno[t] \in Nat /\ brought[t] \in [begun : Nat, room : Nat]
  BY DEF RdvInv, AtPorts
<1>2. w.wspec = "rdv" /\ w.rdvno = no
  BY DEF Valid
<1> HIDE DEF w
<1>3. w.maxrmsz \in Nat
  BY <1>1, <1>2 DEF RdvWaits, NoRdv
<1>4. w.rdvno = wrdvno[t] - 1 /\ brought[t].begun <= w.rdvno /\ w.maxrmsz <= brought[t].room
  BY <1>1, <1>2 DEF Agreed
<1>5. Unqueued(w)
  BY <1>2 DEF Unqueued
<1> QED BY <1>1, <1>2, <1>3, <1>4, <1>5 DEF w

(* An answer that belongs to the rendezvous of t is one of its own. *)
LEMMA AnswersIts ==
    ASSUME RdvInv, NEW t \in Tasks, NEW no \in Nat, Valid(t, no),
           NEW size \in Nat, size <= rdv[t].maxrmsz,
           written' = [to |-> {t}, size |-> size, rdvno |-> no]
    PROVE  Answers
<1>1. /\ no = wrdvno[t] - 1 /\ rdv[t].maxrmsz \in Nat
      /\ wrdvno[t] \in Nat /\ brought[t] \in [begun : Nat, room : Nat]
      /\ brought[t].begun <= no /\ rdv[t].maxrmsz <= brought[t].room
  BY ValidAnswer
<1>2. /\ no \in brought[t].begun .. wrdvno[t] - 1
      /\ size <= brought[t].room
  BY <1>1
<1> QED BY <1>1, <1>2 DEF Answers

LEMMA tk_fwd_por_OK ==
    ASSUME RdvInv, NEW t \in Tasks, NEW p \in Ports, NEW ptn \in CallPtns,
           NEW no \in Nat, NEW size \in Nat, tk_fwd_por(p, ptn, t, no, size)
    PROVE  RdvInv' /\ Answers
<1> DEFINE found == Acceptors(p, ptn)
           first == port[p].accept_queue[Min(found)]
           f == priority
           b == brought
<1>1. /\ Valid(t, no) /\ NoLonger(p, t) /\ size <= rdv[t].maxrmsz
      /\ Kept(b) /\ priority' = f
  BY DEF tk_fwd_por
<1>2. /\ f \in [Tasks -> Pri] /\ wrdvno \in [Tasks -> Nat] /\ MaxRmsz[p] \in Nat
      /\ b \in [Tasks -> [begun : Nat, room : Nat]]
      /\ \A u \in Tasks : Agreed(rdv[u], wrdvno[u], b[u])
      /\ AtPorts(rdv, port, f) /\ rdv \in [Tasks -> RdvWaits]
  BY RendezvousAssumption DEF RdvInv, AtPorts
<1>3. /\ Unqueued(rdv[t]) /\ b[t].begun <= wrdvno[t] /\ MaxRmsz[p] <= b[t].room
      /\ b[t].begun <= no
  <2>1. MaxRmsz[p] <= rdv[t].maxrmsz
    BY <1>1 DEF NoLonger
  <2>2. /\ Unqueued(rdv[t]) /\ no = wrdvno[t] - 1 /\ rdv[t].maxrmsz \in Nat
        /\ wrdvno[t] \in Nat /\ b[t] \in [begun : Nat, room : Nat]
        /\ b[t].begun <= no /\ rdv[t].maxrmsz <= b[t].room
    BY <1>1, ValidAnswer
  <2>3. b[t].begun \in Nat /\ b[t].room \in Nat
    BY <2>2
  <2> HIDE DEF b
  <2> QED BY <1>2, <2>1, <2>2, <2>3
<1>4. written' = NoText => Answers
  BY DEF Answers, NoText
<1> HIDE DEF f, b
<1>5. CASE /\ found # {} /\ gen_rdvno(t) /\ port' = WithoutTask(port, first)
           /\ \E disabled \in BOOLEAN :
                 rdv' = [rdv EXCEPT
                     ![first] = NoRdv,
                     ![t] = IF disabled THEN NoRdv ELSE EndOfRdvWait(wrdvno[t], MaxRmsz[p])]
           /\ written' = NoText
  <2>1. PICK w \in {NoRdv, EndOfRdvWait(wrdvno[t], MaxRmsz[p])} :
                rdv' = [rdv EXCEPT ![first] = NoRdv, ![t] = w]
    BY <1>5
  <2>2. first \in AcceptorsOf(rdv, p)
    BY <1>2, <1>5, AcceptorFound DEF f
  <2> DEFINE a == first
             Q == WithoutTask(port, a)
             R2 == [rdv EXCEPT ![a] = NoRdv, ![t] = w]
  <2>3. PICK n : n = wrdvno'
    OBVIOUS
  <2>4. /\ n \in [Tasks -> Nat] /\ n[t] = wrdvno[t] + 1
        /\ \A u \in Tasks \ {t} : n[u] = wrdvno[u]
    BY <1>5, <2>3, NextNumber
  <2>5. w \in RdvWaits /\ Unqueued(w) /\ Agreed(w, n[t], b[t])
    <3> DEFINE c == b[t]
               m == MaxRmsz[p]
               k == wrdvno[t]
    <3>1. /\ k \in Nat /\ m \in Nat /\ c \in [begun : Nat, room : Nat] /\ c.begun <= k
          /\ m <= c.room /\ (w = NoRdv \/ w = EndOfRdvWait(k, m)) /\ n[t] = k + 1
      BY <1>2, <1>3, <2>1, <2>4
    <3> HIDE DEF c, m, k
    <3>2. w \in RdvWaits /\ Unqueued(w) /\ Agreed(w, k + 1, c)
      BY <3>1, EndOfRdvAgrees
    <3> QED BY <3>1, <3>2 DEF c
  <2>6. port' = Q /\ rdv' = R2 /\ a \in AcceptorsOf(rdv, p) /\ R2 = [rdv EXCEPT ![a] = NoRdv, ![t] = w]
    BY <1>5, <2>1, <2>2
  <2> HIDE DEF a, R2
  <2>7. /\ AtPorts(R2, Q, f) /\ R2[t] = w
        /\ \A u \in Tasks \ {t} : R2[u] = rdv[u] \/ R2[u] = NoRdv
    BY <1>2, <1>3, <2>5, <2>6, AcceptorTaken DEF f
  <2>8. ASSUME NEW u \in Tasks PROVE Agreed(R2[u], n[u], b[u])
    <3>1. CASE u = t
      BY <2>5, <2>7, <3>1
    <3>2. CASE u # t /\ R2[u] = NoRdv
      BY <3>2, NoRdvAgrees
    <3>3. CASE u # t /\ R2[u] = rdv[u]
      BY <1>2, <2>4, <3>3
    <3> QED BY <2>7, <3>1, <3>2, <3>3
  <2> HIDE DEF Q
  <2>9. RdvInv'
    <3>1. f \in [Tasks -> Pri] /\ priority' = f /\ port' = Q /\ rdv' = R2 /\ AtPorts(R2, Q, f)
      BY <1>1, <1>2, <2>6, <2>7
    <3>2. n \in [Tasks -> Nat] /\ wrdvno' = n /\ Kept(b)
      BY <1>1, <2>3, <2>4
    <3>3. b \in [Tasks -> [begun : Nat, room : Nat]] /\ \A u \in Tasks : Agreed(R2[u], n[u], b[u])
      BY <1>2, <2>8
    <3> QED BY <3>1, <3>2, <3>3, RdvBecomes
  <2> QED BY <1>4, <1>5, <2>9
<1>6. CASE /\ found = {} /\ port' = Enqueued(p, t) /\ wrdvno' = wrdvno
           /\ rdv' = [rdv EXCEPT ![t] = CallWait(p, ptn)]
           /\ written' = [to |-> {t}, size |-> size, rdvno |-> no]
  <2> DEFINE Q == Enqueued(p, t)
             R2 == [rdv EXCEPT ![t] = CallWait(p, ptn)]
             n == wrdvno
  <2>1. \A a \in AcceptorsOf(rdv, p) : rdv[a].acpptn \cap ptn = {}
    BY <1>2, <1>6, AcceptorFound DEF f
  <2>2. Q = [port EXCEPT ![p].call_queue = gcb_make_wait(@, t, f, p \in ByPri)]
    BY DEF Enqueued, f
  <2>3. /\ R2[t].wspec = "cal" /\ R2[t].wid = p
        /\ \A u \in Tasks \ {t} : R2[u] = rdv[u]
    BY <1>2 DEF CallWait
  <2>4. /\ port' = Q /\ rdv' = R2 /\ wrdvno' = n /\ n \in [Tasks -> Nat]
        /\ R2 = [rdv EXCEPT ![t] = CallWait(p, ptn)]
    BY <1>2, <1>6
  <2> HIDE DEF Q, R2
  <2>5. AtPorts(R2, Q, f)
    BY <1>2, <1>3, <2>1, <2>2, <2>4, CallQueued
  <2>6. Agreed(R2[t], n[t], b[t])
    BY <1>3, <2>3 DEF Agreed
  <2>7. ASSUME NEW u \in Tasks PROVE Agreed(R2[u], n[u], b[u])
    BY <1>2, <2>3, <2>6
  <2> HIDE DEF n
  <2>8. RdvInv'
    BY <1>1, <1>2, <2>4, <2>5, <2>7, RdvBecomes
  <2>9. Answers
    BY <1>1, <1>6, AnswersIts
  <2> QED BY <2>8, <2>9
<1>7. CASE /\ rdv' = [rdv EXCEPT ![t] = NoRdv] /\ port' = port /\ wrdvno' = wrdvno
           /\ written' = NoText
  <2>1. RdvInv'
    BY <1>1, <1>2, <1>3, <1>7, RdvEnds DEF f, b
  <2> QED BY <1>4, <1>7, <2>1
<1> QED BY <1>5, <1>6, <1>7 DEF tk_fwd_por

LEMMA tk_rpl_rdv_OK ==
    ASSUME RdvInv, NEW t \in Tasks, NEW no \in Nat, NEW size \in Nat, tk_rpl_rdv(t, no, size)
    PROVE  RdvInv' /\ Answers
<1>1. /\ Valid(t, no) /\ size <= rdv[t].maxrmsz /\ Kept(brought) /\ priority' = priority
      /\ rdv' = [rdv EXCEPT ![t] = NoRdv] /\ port' = port /\ wrdvno' = wrdvno
      /\ written' = [to |-> {t}, size |-> size, rdvno |-> no]
  BY DEF tk_rpl_rdv
<1>2. Unqueued(rdv[t])
  BY <1>1, ValidAnswer
<1>3. RdvInv'
  BY <1>1, <1>2, RdvEnds
<1> QED BY <1>1, <1>3, AnswersIts

LEMMA EndPortWait_OK ==
    ASSUME RdvInv, NEW t \in Tasks, EndPortWait(t)
    PROVE  RdvInv' /\ Answers
<1> DEFINE Q == WithoutTask(port, t)
           R2 == [rdv EXCEPT ![t] = NoRdv]
           f == priority
           n == wrdvno
           b == brought
<1>1. /\ port' = Q /\ rdv' = R2 /\ wrdvno' = n /\ priority' = f /\ Kept(b) /\ written' = NoText
      /\ R2 = [rdv EXCEPT ![t] = NoRdv]
  BY DEF EndPortWait, Unwritten
<1>2. /\ f \in [Tasks -> Pri] /\ n \in [Tasks -> Nat] /\ b \in [Tasks -> [begun : Nat, room : Nat]]
      /\ \A u \in Tasks : Agreed(rdv[u], n[u], b[u])
      /\ AtPorts(rdv, port, f) /\ rdv \in [Tasks -> RdvWaits]
  BY DEF RdvInv, AtPorts
<1>3. NoRdv \in RdvWaits /\ Unqueued(NoRdv)
  BY DEF NoRdv, RdvWaits, Unqueued
<1>4. Answers
  BY <1>1 DEF Answers, NoText
<1>5. \A u \in Tasks : R2[u] = rdv[u] \/ R2[u] = NoRdv
  BY <1>2
<1> HIDE DEF R2, f, n, b
<1>6. AtPorts(R2, Q, f)
  BY <1>1, <1>2, <1>3, LeavesPort
<1>7. \A u \in Tasks : Agreed(R2[u], n[u], b[u])
  BY <1>2, <1>5, NoRdvAgrees
<1> HIDE DEF Q
<1>8. RdvInv'
  BY <1>1, <1>2, <1>6, <1>7, RdvBecomes
<1> QED BY <1>4, <1>8

(* The priority of t becomes p: its place in the queue q of a port changes *)
(* if it is there and the port has TA_TPRI.                                *)
LEMMA PortQueueMoves ==
    ASSUME NEW q, NEW A, Linked(Tasks, q, A), NEW t \in Tasks,
           NEW f, NEW g \in [Tasks -> Pri], \A u \in Tasks \ {t} : g[u] = f[u],
           NEW tpri \in BOOLEAN, tpri => SortedBy(q, f),
           NEW r, r = IF tpri /\ t \in A THEN gcb_change_priority(q, t, g) ELSE q
    PROVE  Linked(Tasks, r, A) /\ (tpri => SortedBy(r, g))
<1>1. CASE tpri /\ t \in A
  BY <1>1, ChangePriority
<1>2. CASE ~(tpri /\ t \in A)
  <2>1. SUFFICES ASSUME tpri, NEW i \in 1 .. Len(q), NEW j \in 1 .. Len(q), i < j
                 PROVE  g[q[i]] <= g[q[j]]
    BY <1>2 DEF SortedBy
  <2>2. q[i] \in A /\ q[j] \in A /\ A \subseteq Tasks
    BY PlacesOf DEF Linked
  <2>3. g[q[i]] = f[q[i]] /\ g[q[j]] = f[q[j]]
    BY <1>2, <2>1, <2>2
  <2> QED BY <2>1, <2>3 DEF SortedBy
<1> QED BY <1>1, <1>2

LEMMA cal_chg_pri_OK ==
    ASSUME RdvInv, NEW t \in Tasks, NEW pri \in Pri, cal_chg_pri(t, pri)
    PROVE  RdvInv' /\ Answers
<1> DEFINE f == [priority EXCEPT ![t] = pri]
           c(p) == IF p \in ByPri /\ t \in ToSet(port[p].call_queue)
                   THEN gcb_change_priority(port[p].call_queue, t, f) ELSE port[p].call_queue
           Q == [p \in Ports |->
                    IF p \in ByPri /\ t \in ToSet(port[p].call_queue)
                    THEN [port[p] EXCEPT !.call_queue = gcb_change_priority(@, t, f)]
                    ELSE port[p]]
           n == wrdvno
           b == brought
           R == rdv
<1>1. /\ priority' = f /\ port' = Q /\ wrdvno' = n /\ rdv' = R /\ brought' = b
      /\ written' = NoText
  BY DEF cal_chg_pri
<1>2. /\ priority \in [Tasks -> Pri] /\ port \in [Ports -> PORCB]
      /\ R \in [Tasks -> RdvWaits] /\ \A p \in Ports : AtPort(R, port, priority, p)
      /\ n \in [Tasks -> Nat] /\ b \in [Tasks -> [begun : Nat, room : Nat]]
      /\ \A u \in Tasks : Agreed(R[u], n[u], b[u])
  BY DEF RdvInv, AtPorts
<1>3. f \in [Tasks -> Pri] /\ \A u \in Tasks \ {t} : f[u] = priority[u]
  BY <1>2
<1>4. Answers
  BY <1>1 DEF Answers, NoText
<1> HIDE DEF f, n, b, R
<1>5. ASSUME NEW p \in Ports PROVE Q[p] \in PORCB /\ AtPort(R, Q, f, p)
  <2> DEFINE q == port[p].call_queue
             A == CallersOf(R, p)
             tpri == p \in ByPri
             r == c(p)
  <2>1. AtPort(R, port, priority, p) /\ port[p] \in PORCB
    BY <1>2
  <2>2. /\ Linked(Tasks, q, A) /\ (tpri => SortedBy(q, priority)) /\ tpri \in BOOLEAN
        /\ r = IF tpri /\ t \in A THEN gcb_change_priority(q, t, f) ELSE q
    BY <2>1 DEF AtPort, Linked
  <2>3. Q[p] = [port[p] EXCEPT !.call_queue = r]
    BY <2>1 DEF PORCB
  <2> HIDE DEF q, A, tpri, r, Q, c
  <2>4. Linked(Tasks, r, A) /\ (tpri => SortedBy(r, f))
    BY <1>3, <2>2, PortQueueMoves
  <2>5. r \in Seq(Tasks)
    BY <2>4 DEF Linked
  <2>6. Q[p] \in PORCB /\ Q[p].call_queue = r /\ Q[p].accept_queue = port[p].accept_queue
    BY <2>1, <2>3, <2>5 DEF PORCB
  <2> QED BY <2>1, <2>4, <2>6 DEF AtPort, A, tpri
<1>6. Q \in [Ports -> PORCB]
  BY <1>5
<1> HIDE DEF Q
<1>7. AtPorts(R, Q, f)
  BY <1>2, <1>5, <1>6 DEF AtPorts
<1>8. RdvInv'
  BY <1>1, <1>2, <1>3, <1>7 DEF RdvInv
<1> QED BY <1>4, <1>8

LEMMA RdvStep ==
    ASSUME RdvInv, [RdvNext]_rdvvars
    PROVE  RdvInv' /\ [Answers]_rdvvars
<1>1. CASE UNCHANGED rdvvars
  BY <1>1 DEF rdvvars, RdvInv
<1>2. CASE RdvNext
  <2>1. \A t \in Tasks : wrdvno[t] \in Nat
    BY DEF RdvInv
  <2>2. ASSUME NEW p \in Ports, tk_cre_por(p) \/ tk_del_por(p)
        PROVE  RdvInv' /\ Answers
    BY <2>2, tk_cre_por_OK, tk_del_por_OK
  <2>3. ASSUME NEW t \in Tasks, NEW p \in Ports, NEW ptn \in CallPtns,
               tk_cal_por(t, p, ptn) \/ tk_acp_por(t, p, ptn)
        PROVE  RdvInv' /\ Answers
    BY <2>3, tk_cal_por_OK, tk_acp_por_OK
  <2>4. ASSUME NEW t \in Tasks, NEW p \in Ports, NEW ptn \in CallPtns,
               NEW no \in 0 .. wrdvno[t] - 1, NEW size \in 0 .. MaxMsgSz,
               tk_fwd_por(p, ptn, t, no, size)
        PROVE  RdvInv' /\ Answers
    <3>1. no \in Nat /\ size \in Nat
      BY <2>1
    <3> QED BY <2>4, <3>1, tk_fwd_por_OK
  <2>5. ASSUME NEW t \in Tasks, NEW no \in 0 .. wrdvno[t] - 1, NEW size \in 0 .. MaxMsgSz,
               tk_rpl_rdv(t, no, size)
        PROVE  RdvInv' /\ Answers
    <3>1. no \in Nat /\ size \in Nat
      BY <2>1
    <3> QED BY <2>5, <3>1, tk_rpl_rdv_OK
  <2>6. ASSUME NEW t \in Tasks, EndPortWait(t)
        PROVE  RdvInv' /\ Answers
    BY <2>6, EndPortWait_OK
  <2>7. ASSUME NEW t \in Tasks, NEW pri \in CallPris, cal_chg_pri(t, pri)
        PROVE  RdvInv' /\ Answers
    <3>1. pri \in Pri
      BY RendezvousAssumption
    <3> QED BY <2>7, <3>1, cal_chg_pri_OK
  <2> QED BY <1>2, <2>2, <2>3, <2>4, <2>5, <2>6, <2>7 DEF RdvNext
<1> QED BY <1>1, <1>2

LEMMA RdvInitially ==
    ASSUME RdvInit
    PROVE  RdvInv
<1>1. /\ NoPort \in PORCB /\ NoPort.call_queue = <<>> /\ NoPort.accept_queue = <<>>
      /\ NoRdv \in RdvWaits /\ NoRdv.wspec = "none" /\ NotBrought \in [begun : Nat, room : Nat]
  BY DEF NoPort, PORCB, NoRdv, RdvWaits, NotBrought
<1>2. Linked(Tasks, NoPort.call_queue, {}) /\ Linked(Tasks, NoPort.accept_queue, {})
  BY <1>1, NothingLinked
<1>3. SortedBy(NoPort.call_queue, priority)
  BY <1>1 DEF SortedBy
<1>4. /\ priority \in [Tasks -> Pri] /\ wrdvno = [t \in Tasks |-> 0]
      /\ rdv = [t \in Tasks |-> NoRdv] /\ port = [p \in Ports |-> NoPort]
      /\ brought = [t \in Tasks |-> NotBrought]
  BY DEF RdvInit
<1>5. rdv \in [Tasks -> RdvWaits] /\ port \in [Ports -> PORCB]
  BY <1>1, <1>4
<1>6. ASSUME NEW p \in Ports PROVE AtPort(rdv, port, priority, p)
  <2>1. CallersOf(rdv, p) = {} /\ AcceptorsOf(rdv, p) = {} /\ port[p] = NoPort
    BY <1>1, <1>4 DEF CallersOf, AcceptorsOf
  <2> QED BY <1>2, <1>3, <2>1 DEF AtPort
<1>7. AtPorts(rdv, port, priority)
  BY <1>5, <1>6 DEF AtPorts
<1>8. \A t \in Tasks : Agreed(rdv[t], wrdvno[t], brought[t])
  BY <1>4, NoRdvAgrees
<1> QED BY <1>1, <1>4, <1>7, <1>8 DEF RdvInv

(* The inductive invariant of rendezvous.c: each waiting task is linked    *)
(* once, at the port it waits at, and in the queue for what it does there; *)
(* what it waits for belongs to the call that it is in.                    *)
THEOREM RdvInvariant == RdvSpec => []RdvInv
<1>1. RdvInit => RdvInv
  BY RdvInitially
<1>2. RdvInv /\ [RdvNext]_rdvvars => RdvInv'
  BY RdvStep
<1> QED BY <1>1, <1>2, PTL DEF RdvSpec

(* A call and an acceptance that fit never wait at the same port, by       *)
(* whichever way they came there: tk_cal_por, tk_acp_por and tk_fwd_por    *)
(* look at all who wait.                                                   *)
THEOREM RdvMatches == RdvSpec => []NoMatchWaits
<1>1. RdvInv => NoMatchWaits
  <2>1. SUFFICES ASSUME RdvInv, NEW p \in Ports,
                        NEW c \in ToSet(port[p].call_queue),
                        NEW a \in ToSet(port[p].accept_queue)
                 PROVE  rdv[c].calptn \cap rdv[a].acpptn = {}
    BY DEF NoMatchWaits
  <2>2. AtPort(rdv, port, priority, p)
    BY <2>1 DEF RdvInv, AtPorts
  <2>3. c \in CallersOf(rdv, p) /\ a \in AcceptorsOf(rdv, p)
    BY <2>2 DEF AtPort, Linked
  <2> QED BY <2>2, <2>3 DEF AtPort
<1> QED BY <1>1, RdvInvariant, PTL

(* What tk_rpl_rdv and tk_fwd_por write to a caller's buffer belongs to    *)
(* the call that the caller is in, and fits into the buffer it brought,    *)
(* through any chain of ports.                                             *)
THEOREM RdvAnswers == RdvSpec => OwnAnswer
<1>1. RdvInit => RdvInv
  BY RdvInitially
<1>2. RdvInv /\ [RdvNext]_rdvvars => RdvInv' /\ [Answers]_rdvvars
  BY RdvStep
<1> QED BY <1>1, <1>2, PTL DEF RdvSpec, OwnAnswer, Answers

-----------------------------------------------------------------------------
(* Message buffer: places in the ring                                      *)

LEMMA RoundUp ==
    ASSUME NEW sz \in Nat
    PROVE  /\ ROUNDSZ(sz) \in Nat /\ ROUNDSZ(sz) % 4 = 0
           /\ sz <= ROUNDSZ(sz) /\ ROUNDSZ(sz) < sz + 4
  BY DEF ROUNDSZ

LEMMA RoundedFits ==
    ASSUME NEW sz \in Nat, NEW n \in Nat, n % 4 = 0, sz <= n
    PROVE  ROUNDSZ(sz) <= n
  BY DEF ROUNDSZ

LEMMA RoundedRest ==
    ASSUME NEW sz \in Nat, NEW n \in Nat, n % 4 = 0, n <= sz
    PROVE  ROUNDSZ(sz - n) = ROUNDSZ(sz) - n
  BY DEF ROUNDSZ

(* The place at the distance x from the start of the ring, or from its     *)
(* start again behind its end                                              *)
Place(B, x) == IF x >= B THEN x - B ELSE x

LEMMA PlaceIsWord ==
    ASSUME NEW B \in Nat, B % 4 = 0, NEW x \in Nat, x % 4 = 0, x < 2 * B
    PROVE  Place(B, x) \in Words(B)
  BY DEF Place, Words

(* What lies n behind the place of x is the place of x + n. *)
LEMMA PlaceBehind ==
    ASSUME NEW B \in Nat, NEW x \in Nat, NEW n \in Nat, x < 2 * B, x + n < 2 * B
    PROVE  Place(B, Place(B, x) + n) = Place(B, x + n)
  BY DEF Place

LEMMA PlacesDiffer ==
    ASSUME NEW B \in Nat, NEW h \in Nat, h < B, NEW x \in 0 .. B - 1, NEW y \in 0 .. B - 1,
           Place(B, h + x) = Place(B, h + y)
    PROVE  x = y
  BY DEF Place

(* msg_to_mbf and mbf_to_msg copy to and from the places that follow. *)
LEMMA CopiesFollow ==
    ASSUME NEW b, NEW B \in Nat, b.bufsz = B, B % 4 = 0,
           NEW x \in Nat, x % 4 = 0, NEW sz \in Nat \ {0},
           x + HEADERSZ + ROUNDSZ(sz) < 2 * B,
           NEW text, text = Wrapped(b, Place(B, x) + HEADERSZ)
    PROVE  /\ text = Place(B, x + HEADERSZ)
           /\ AfterCopy(b, text, sz) = Place(B, x + HEADERSZ + ROUNDSZ(sz))
           /\ \A k \in Words(sz) : PlaceOf(b, text, sz, k) = Place(B, x + HEADERSZ + k)
<1>1. /\ ROUNDSZ(sz) \in Nat /\ ROUNDSZ(sz) % 4 = 0 /\ sz <= ROUNDSZ(sz)
      /\ HEADERSZ = 4
  BY RoundUp DEF HEADERSZ
<1>2. text = Place(B, x + HEADERSZ)
  BY <1>1 DEF Place, Wrapped
<1>3. text \in Nat /\ text % 4 = 0 /\ text < B
  BY <1>1, <1>2 DEF Place
<1> DEFINE rem == B - text
<1>4. rem \in Nat /\ rem % 4 = 0 /\ rem > 0
  BY <1>3
<1>5. Place(B, x + HEADERSZ + ROUNDSZ(sz)) = Place(B, text + ROUNDSZ(sz))
      /\ text + ROUNDSZ(sz) < 2 * B
  BY <1>1, <1>2 DEF Place
<1>6. AfterCopy(b, text, sz) = Place(B, text + ROUNDSZ(sz))
  <2>1. CASE rem < sz
    <3>1. AfterCopy(b, text, sz) = Wrapped(b, ROUNDSZ(sz - rem))
      BY <2>1 DEF AfterCopy
    <3>2. ROUNDSZ(sz - rem) = ROUNDSZ(sz) - rem
      BY <1>4, <2>1, RoundedRest
    <3>3. text + ROUNDSZ(sz) - B < B /\ text + ROUNDSZ(sz) >= B
          /\ ROUNDSZ(sz) - rem = text + ROUNDSZ(sz) - B
      BY <1>1, <1>3, <1>5, <2>1
    <3>4. ~(text + ROUNDSZ(sz) - B >= B)
      BY <1>1, <1>3, <3>3
    <3>5. AfterCopy(b, text, sz) = Wrapped(b, text + ROUNDSZ(sz) - B)
      BY <3>1, <3>2, <3>3
    <3>6. AfterCopy(b, text, sz) = text + ROUNDSZ(sz) - B
      BY <3>4, <3>5 DEF Wrapped
    <3>7. Place(B, text + ROUNDSZ(sz)) = text + ROUNDSZ(sz) - B
      BY <1>1, <1>3, <3>3 DEF Place
    <3> QED BY <3>6, <3>7
  <2>2. CASE ~(rem < sz)
    <3>1. AfterCopy(b, text, sz) = Wrapped(b, text + ROUNDSZ(sz))
      BY <2>2 DEF AfterCopy
    <3>2. ROUNDSZ(sz) <= rem
      BY <1>4, <2>2, RoundedFits
    <3>3. text + ROUNDSZ(sz) = B \/ ~(text + ROUNDSZ(sz) >= B)
      BY <1>1, <1>3, <3>2
    <3>4. B >= B /\ B - B = 0
      OBVIOUS
    <3> QED BY <3>1, <3>3, <3>4 DEF Wrapped, Place
  <2> QED BY <2>1, <2>2
<1>7. ASSUME NEW k \in Words(sz)
      PROVE  PlaceOf(b, text, sz, k) = Place(B, x + HEADERSZ + k)
  <2>1. k \in Nat /\ k < sz
    BY DEF Words
  <2>2. Place(B, x + HEADERSZ + k) = Place(B, text + k)
    BY <1>1, <1>2, <2>1 DEF Place
  <2>3. PlaceOf(b, text, sz, k) = IF rem < sz /\ k >= rem THEN k - rem ELSE text + k
    BY DEF PlaceOf
  <2>4. sz \in Nat /\ text \in Nat /\ rem = B - text
    BY <1>3
  <2> HIDE DEF rem
  <2>5. (rem < sz /\ k >= rem) <=> text + k >= B
    BY <1>4, <2>1, <2>4
  <2>6. k - rem = text + k - B
    BY <1>4, <2>1, <2>4
  <2>7. PlaceOf(b, text, sz, k) = IF text + k >= B THEN text + k - B ELSE text + k
    BY <2>3, <2>5, <2>6
  <2>8. Place(B, text + k) = IF text + k >= B THEN text + k - B ELSE text + k
    BY <2>1, <2>4 DEF Place
  <2> QED BY <2>2, <2>7, <2>8
<1> QED BY <1>2, <1>5, <1>6, <1>7

-----------------------------------------------------------------------------
(* Message buffer: the messages in the ring                                *)

Content == {<<>>} \cup {<<n>> : n \in Nat} \cup (Msgs \X Nat)

MBFCB == [mbfid : BOOLEAN, tpri : BOOLEAN, bufsz : Nat, frbufsz : Nat,
          head : Nat, tail : Nat, buffer : UNION {[Words(n) -> Content] : n \in Nat},
          send_queue : Seq(Tasks), recv_queue : Seq(Tasks)]

Length(m) == HEADERSZ + ROUNDSZ(MsgSize[m])

Ring(b) ==
    /\ b \in MBFCB /\ b.buffer \in [Words(b.bufsz) -> Content]
    /\ b.bufsz % 4 = 0 /\ b.frbufsz % 4 = 0 /\ b.frbufsz <= b.bufsz
    /\ b.head % 4 = 0 /\ (b.head < b.bufsz \/ b.head = 0)

(* m lies at the distance o from the head of the ring. *)
LiesAt(b, o, m) ==
    LET At(d) == b.buffer[Place(b.bufsz, b.head + d)]
    IN  At(o) = <<MsgSize[m]>> /\ \A k \in Words(MsgSize[m]) : At(o + HEADERSZ + k) = <<m, k>>

(* The messages of s lie one behind the other, each at its distance from   *)
(* the head, and make up what is used of the ring.                         *)
HoldsAt(b, s, off) ==
    LET n == Len(s)
    IN  /\ off \in [1 .. n + 1 -> Nat]
        /\ off[1] = 0 /\ off[n + 1] = b.bufsz - b.frbufsz
        /\ b.tail = Place(b.bufsz, b.head + off[n + 1])
        /\ \A i \in 1 .. n : /\ off[i] % 4 = 0 /\ off[i + 1] = off[i] + Length(s[i])
                             /\ LiesAt(b, off[i], s[i])
        /\ \A i, j \in 1 .. n + 1 : i <= j => off[i] <= off[j]

Holds(b, s) == Ring(b) /\ s \in Seq(Msgs) /\ \E off : HoldsAt(b, s, off)

LEMMA LengthIs ==
    ASSUME NEW m \in Msgs
    PROVE  /\ MsgSize[m] \in Nat \ {0} /\ MsgSize[m] \in Nat /\ MsgSize[m] >= 1
           /\ ROUNDSZ(MsgSize[m]) \in Nat
           /\ Length(m) = HEADERSZ + ROUNDSZ(MsgSize[m]) /\ HEADERSZ = 4
           /\ Length(m) \in Nat /\ Length(m) % 4 = 0
           /\ Length(m) >= HEADERSZ + MsgSize[m] /\ Length(m) >= 4
           /\ \A k \in Words(MsgSize[m]) : k \in Nat /\ k % 4 = 0 /\ HEADERSZ + k < Length(m)
           /\ 0 \in Words(MsgSize[m])
<1>1. MsgSize[m] \in Nat \ {0} /\ MsgSize[m] \in Nat /\ MsgSize[m] >= 1
  BY MessageBufferAssumption
<1>2. /\ ROUNDSZ(MsgSize[m]) \in Nat /\ ROUNDSZ(MsgSize[m]) % 4 = 0
      /\ MsgSize[m] <= ROUNDSZ(MsgSize[m])
  BY <1>1, RoundUp
<1>3. HEADERSZ = 4 /\ Length(m) = HEADERSZ + ROUNDSZ(MsgSize[m])
  BY DEF HEADERSZ, Length
<1>4. /\ Length(m) \in Nat /\ Length(m) % 4 = 0
      /\ Length(m) >= HEADERSZ + MsgSize[m] /\ Length(m) >= 4
  BY <1>1, <1>2, <1>3
<1>5. \A k \in Words(MsgSize[m]) : k \in Nat /\ k % 4 = 0 /\ HEADERSZ + k < Length(m)
  BY <1>1, <1>2, <1>3 DEF Words
<1>6. 0 \in Words(MsgSize[m])
  BY <1>1 DEF Words
<1> QED BY <1>1, <1>2, <1>3, <1>4, <1>5, <1>6

(* A message is found where it lies. *)
LEMMA MessageFound ==
    ASSUME NEW b, Ring(b), b.head < b.bufsz, NEW o \in Nat, o % 4 = 0, NEW m \in Msgs,
           o + Length(m) <= b.bufsz, LiesAt(b, o, m),
           NEW at, at = Place(b.bufsz, b.head + o)
    PROVE  /\ MessageAt(b, at) = m
           /\ AfterCopy(b, Wrapped(b, at + HEADERSZ), MsgSize[m])
                = Place(b.bufsz, b.head + o + Length(m))
<1> DEFINE B == b.bufsz
           x == b.head + o
           sz == MsgSize[m]
           text == Wrapped(b, at + HEADERSZ)
<1>1. /\ sz \in Nat \ {0} /\ Length(m) = HEADERSZ + ROUNDSZ(sz) /\ HEADERSZ = 4
      /\ Length(m) \in Nat /\ ROUNDSZ(sz) \in Nat /\ 0 \in Words(sz)
  BY LengthIs
<1>2. B \in Nat /\ B % 4 = 0 /\ b.head \in Nat /\ b.head % 4 = 0
  BY DEF Ring, MBFCB
<1>3. x \in Nat /\ x % 4 = 0 /\ x + HEADERSZ + ROUNDSZ(sz) < 2 * B
  BY <1>1, <1>2
<1> HIDE DEF B, x, sz, text
<1>4. b.bufsz = B /\ at = Place(B, x) /\ text = Wrapped(b, Place(B, x) + HEADERSZ)
  BY DEF B, x, text
<1>5. /\ AfterCopy(b, text, sz) = Place(B, x + HEADERSZ + ROUNDSZ(sz))
      /\ \A k \in Words(sz) : PlaceOf(b, text, sz, k) = Place(B, x + HEADERSZ + k)
  BY <1>1, <1>2, <1>3, <1>4, CopiesFollow
<1>6. AfterCopy(b, text, sz) = Place(B, x + Length(m))
  <2>1. x + HEADERSZ + ROUNDSZ(sz) = x + Length(m)
    BY <1>1, <1>3
  <2> QED BY <1>5, <2>1
<1>7. /\ b.buffer[at] = <<sz>>
      /\ \A k \in Words(sz) : b.buffer[PlaceOf(b, text, sz, k)] = <<m, k>>
  <2>1. \A k \in Words(sz) : b.head + (o + HEADERSZ + k) = x + HEADERSZ + k
    <3>1. \A k \in Words(sz) : k \in Nat
      BY DEF Words
    <3> QED BY <1>1, <1>2, <3>1 DEF x
  <2> QED BY <1>4, <1>5, <2>1 DEF LiesAt, B, x, sz
<1> DEFINE M == {c \in Msgs : /\ b.buffer[at] = <<MsgSize[c]>>
                              /\ \A k \in Words(MsgSize[c]) :
                                    b.buffer[PlaceOf(b, text, MsgSize[c], k)] = <<c, k>>}
<1>8. m \in M
  BY <1>7 DEF sz
<1>9. ASSUME NEW c \in M PROVE c = m
  <2>1. <<MsgSize[c]>> = <<sz>>
    BY <1>7
  <2>2. MsgSize[c] = sz
    BY <2>1
  <2>3. <<c, 0>> = <<m, 0>>
    BY <1>1, <1>7, <2>2
  <2> QED BY <2>3
<1>10. MessageAt(b, at) = IF M = {} THEN Nothing ELSE CHOOSE c \in M : TRUE
  BY DEF MessageAt, text
<1> HIDE DEF M
<1>11. MessageAt(b, at) = m
  BY <1>8, <1>9, <1>10
<1> QED BY <1>6, <1>11 DEF text, sz, x, B

(* A message that fits also fits with its last word filled up. *)
LEMMA FitsWhole ==
    ASSUME NEW b, Ring(b), NEW m \in Msgs, mbf_free(b, MsgSize[m])
    PROVE  Length(m) <= b.frbufsz /\ b.head < b.bufsz
<1>1. /\ MsgSize[m] \in Nat /\ MsgSize[m] >= 1 /\ ROUNDSZ(MsgSize[m]) \in Nat
      /\ Length(m) = HEADERSZ + ROUNDSZ(MsgSize[m]) /\ HEADERSZ = 4
  BY LengthIs
<1>2. /\ b.frbufsz \in Nat /\ b.frbufsz % 4 = 0 /\ b.bufsz \in Nat /\ b.frbufsz <= b.bufsz
      /\ b.head < b.bufsz \/ b.head = 0
  BY DEF Ring, MBFCB
<1> DEFINE n == b.frbufsz - 4
<1>3. HEADERSZ + MsgSize[m] <= b.frbufsz
  BY DEF mbf_free
<1>4. n \in Nat /\ n % 4 = 0 /\ MsgSize[m] <= n
  BY <1>1, <1>2, <1>3
<1> HIDE DEF n
<1>5. ROUNDSZ(MsgSize[m]) <= n
  BY <1>1, <1>4, RoundedFits
<1>6. Length(m) <= b.frbufsz
  BY <1>1, <1>2, <1>5 DEF n
<1> QED BY <1>1, <1>2, <1>4, <1>6 DEF n

LEMMA MaxOfOne ==
    ASSUME NEW k \in Nat
    PROVE  Max({k}) = k
<1>1. Max({k}) = CHOOSE x \in {k} : \A y \in {k} : x >= y
  BY DEF Max
<1>2. k >= k
  OBVIOUS
<1> QED BY <1>1, <1>2

WordsAt(b, m, text, i) ==
    {k \in Words(MsgSize[m]) : PlaceOf(b, text, MsgSize[m], k) = i}

Written(b, m, text) ==
    [i \in Words(b.bufsz) |->
        IF i = b.tail THEN <<MsgSize[m]>>
        ELSE IF WordsAt(b, m, text, i) # {} THEN <<m, Max(WordsAt(b, m, text, i))>>
        ELSE b.buffer[i]]

(* The words of the ring after msg_to_mbf: those of the message m at the   *)
(* distance u are new, those before it are not.                            *)
StoredAt(b, u, m, text, w) ==
    /\ w \in [Words(b.bufsz) -> Content]
    /\ w[Place(b.bufsz, b.head + u)] = <<MsgSize[m]>>
    /\ \A k \in Words(MsgSize[m]) :
         w[Place(b.bufsz, b.head + (u + HEADERSZ + k))] = <<m, k>>
    /\ \A o \in Nat : o % 4 = 0 /\ o < u =>
         w[Place(b.bufsz, b.head + o)] = b.buffer[Place(b.bufsz, b.head + o)]
    /\ AfterCopy(b, text, MsgSize[m]) = Place(b.bufsz, b.head + (u + Length(m)))

LEMMA WordsWritten ==
    ASSUME NEW b, Ring(b), b.head < b.bufsz, NEW u \in Nat, u % 4 = 0,
           b.tail = Place(b.bufsz, b.head + u),
           NEW m \in Msgs, u + Length(m) <= b.bufsz,
           NEW text, text = Wrapped(b, b.tail + HEADERSZ),
           NEW w, w = Written(b, m, text)
    PROVE  StoredAt(b, u, m, text, w)
<1> DEFINE B == b.bufsz
           h == b.head
           sz == MsgSize[m]
           x == h + u
           Here(i) == WordsAt(b, m, text, i)
<1>1. /\ sz \in Nat \ {0} /\ Length(m) = HEADERSZ + ROUNDSZ(sz) /\ HEADERSZ = 4
      /\ Length(m) \in Nat /\ ROUNDSZ(sz) \in Nat
      /\ \A k \in Words(sz) : k \in Nat /\ k % 4 = 0 /\ HEADERSZ + k < Length(m)
  BY LengthIs
<1>2. /\ B \in Nat /\ B % 4 = 0 /\ h \in Nat /\ h % 4 = 0 /\ h < B
      /\ b.buffer \in [Words(B) -> Content]
  BY DEF Ring, MBFCB
<1>3. x \in Nat /\ x % 4 = 0 /\ x + HEADERSZ + ROUNDSZ(sz) < 2 * B /\ x < 2 * B
  BY <1>1, <1>2
<1> HIDE DEF B, h, sz
<1>4. /\ b.bufsz = B /\ b.tail = Place(B, x) /\ text = Wrapped(b, Place(B, x) + HEADERSZ)
      /\ u + Length(m) <= B
  BY DEF B, h
<1>5. /\ AfterCopy(b, text, sz) = Place(B, x + HEADERSZ + ROUNDSZ(sz))
      /\ \A k \in Words(sz) : PlaceOf(b, text, sz, k) = Place(B, x + HEADERSZ + k)
  <2> HIDE DEF x
  <2> QED BY <1>1, <1>2, <1>3, <1>4, CopiesFollow
<1>6. AfterCopy(b, text, sz) = Place(B, h + (u + Length(m)))
  <2>1. x + HEADERSZ + ROUNDSZ(sz) = h + (u + Length(m))
    BY <1>1, <1>2
  <2> QED BY <1>5, <2>1
<1>7. \A k \in Words(sz) : PlaceOf(b, text, sz, k) = Place(B, h + (u + HEADERSZ + k))
  <2>1. \A k \in Words(sz) : x + HEADERSZ + k = h + (u + HEADERSZ + k)
    BY <1>1, <1>2
  <2> QED BY <1>5, <2>1
<1>8. \A i : Here(i) = {k \in Words(sz) : Place(B, h + (u + HEADERSZ + k)) = i}
  BY <1>7 DEF sz, WordsAt
<1>9. w = [i \in Words(B) |->
              IF i = Place(B, h + u) THEN <<sz>>
              ELSE IF Here(i) # {} THEN <<m, Max(Here(i))>>
              ELSE b.buffer[i]]
  BY <1>4 DEF sz, B, Written
<1> HIDE DEF x, Here
(* Distances in the ring are different places. *)
<1>10. ASSUME NEW o \in Nat, o % 4 = 0, o < B
       PROVE  Place(B, h + o) \in Words(B)
  <2>1. h + o \in Nat /\ (h + o) % 4 = 0 /\ h + o < 2 * B
    BY <1>2, <1>10
  <2> QED BY <1>2, <2>1, PlaceIsWord
<1>11. ASSUME NEW o \in Nat, NEW p \in Nat, o < B, p < B, Place(B, h + o) = Place(B, h + p)
       PROVE  o = p
  <2>1. o \in 0 .. B - 1 /\ p \in 0 .. B - 1
    BY <1>2, <1>11
  <2> QED BY <1>2, <1>11, <2>1, PlacesDiffer
<1>12. u < B /\ \A k \in Words(sz) : /\ u + HEADERSZ + k \in Nat /\ u + HEADERSZ + k < B
                                     /\ (u + HEADERSZ + k) % 4 = 0 /\ u + HEADERSZ + k > u
  <2>1. u < B
    BY <1>1, <1>2, <1>4
  <2>2. ASSUME NEW k \in Words(sz)
        PROVE  /\ u + HEADERSZ + k \in Nat /\ u + HEADERSZ + k < B
               /\ (u + HEADERSZ + k) % 4 = 0 /\ u + HEADERSZ + k > u
    <3>1. k \in Nat /\ k % 4 = 0 /\ HEADERSZ + k < Length(m)
      BY <1>1
    <3> QED BY <1>1, <1>2, <1>4, <3>1
  <2> QED BY <2>1, <2>2
<1>13. w[Place(B, h + u)] = <<sz>>
  BY <1>9, <1>10, <1>12
<1>14. ASSUME NEW k \in Words(sz)
       PROVE  w[Place(B, h + (u + HEADERSZ + k))] = <<m, k>>
  <2> DEFINE p == Place(B, h + (u + HEADERSZ + k))
  <2>1. p \in Words(B) /\ p # Place(B, h + u)
    <3>1. u + HEADERSZ + k # u
      BY <1>12
    <3> QED BY <1>10, <1>11, <1>12, <3>1
  <2>2. \A l \in Words(sz) : Place(B, h + (u + HEADERSZ + l)) = p => l = k
    <3> TAKE l \in Words(sz)
    <3> HAVE Place(B, h + (u + HEADERSZ + l)) = p
    <3>1. u + HEADERSZ + l = u + HEADERSZ + k
      BY <1>11, <1>12
    <3>2. l \in Nat /\ k \in Nat
      BY <1>1
    <3> QED BY <1>1, <3>1, <3>2
  <2>3. Here(p) = {k}
    BY <1>8, <2>2
  <2>4. Max({k}) = k
    BY <1>1, MaxOfOne
  <2> HIDE DEF p
  <2>5. w[p] = IF Here(p) # {} THEN <<m, Max(Here(p))>> ELSE b.buffer[p]
    BY <1>9, <2>1
  <2>6. Here(p) # {}
    BY <2>3
  <2>7. w[p] = <<m, k>>
    BY <2>3, <2>4, <2>5, <2>6
  <2> QED BY <2>7 DEF p
<1>15. ASSUME NEW o \in Nat, o % 4 = 0, o < u
       PROVE  w[Place(B, h + o)] = b.buffer[Place(B, h + o)]
  <2> DEFINE p == Place(B, h + o)
  <2>1. o < B /\ o # u
    BY <1>2, <1>12, <1>15
  <2>2. p \in Words(B) /\ p # Place(B, h + u)
    BY <1>10, <1>11, <1>12, <1>15, <2>1
  <2>3. \A k \in Words(sz) : Place(B, h + (u + HEADERSZ + k)) # p
    <3> TAKE k \in Words(sz)
    <3>1. u + HEADERSZ + k # o
      BY <1>12, <1>15
    <3> QED BY <1>11, <1>12, <2>1, <3>1
  <2>4. Here(p) = {}
    BY <1>8, <2>3
  <2> HIDE DEF p
  <2>5. w[p] = b.buffer[p]
    BY <1>9, <2>2, <2>4
  <2> QED BY <2>5 DEF p
<1>16. w \in [Words(B) -> Content]
  <2>1. ASSUME NEW i \in Words(B)
        PROVE  (IF i = Place(B, h + u) THEN <<sz>>
                ELSE IF Here(i) # {} THEN <<m, Max(Here(i))>> ELSE b.buffer[i]) \in Content
    <3>1. <<sz>> \in Content
      BY <1>1 DEF Content
    <3>2. ASSUME Here(i) # {} PROVE <<m, Max(Here(i))>> \in Content
      <4>1. PICK k \in Words(sz) : Place(B, h + (u + HEADERSZ + k)) = i
        BY <1>8, <3>2
      <4>2. \A l \in Here(i) : l = k
        <5> TAKE l \in Here(i)
        <5>1. l \in Words(sz) /\ Place(B, h + (u + HEADERSZ + l)) = i
          BY <1>8
        <5>2. u + HEADERSZ + l = u + HEADERSZ + k
          BY <1>11, <1>12, <4>1, <5>1
        <5>3. l \in Nat /\ k \in Nat
          BY <1>1, <5>1
        <5> QED BY <1>1, <5>2, <5>3
      <4>3. Here(i) = {k} /\ k \in Nat
        BY <1>1, <3>2, <4>2
      <4>4. Max(Here(i)) = k
        BY <4>3, MaxOfOne
      <4> QED BY <4>3, <4>4 DEF Content
    <3>3. b.buffer[i] \in Content
      BY <1>2
    <3> QED BY <3>1, <3>2, <3>3
  <2> QED BY <1>9, <2>1
<1> QED BY <1>6, <1>13, <1>14, <1>15, <1>16 DEF StoredAt, B, h, sz

LEMMA msg_to_mbf_Is ==
    ASSUME NEW b, Ring(b), NEW m \in Msgs, NEW text, text = Wrapped(b, b.tail + HEADERSZ),
           b.frbufsz - Length(m) \in Nat,
           Written(b, m, text) \in [Words(b.bufsz) -> Content],
           AfterCopy(b, text, MsgSize[m]) \in Nat,
           NEW y, y = msg_to_mbf(b, m)
    PROVE  /\ y \in MBFCB
           /\ y.mbfid = b.mbfid /\ y.tpri = b.tpri /\ y.bufsz = b.bufsz /\ y.head = b.head
           /\ y.send_queue = b.send_queue /\ y.recv_queue = b.recv_queue
           /\ y.frbufsz = b.frbufsz - Length(m) /\ y.tail = AfterCopy(b, text, MsgSize[m])
           /\ y.buffer = Written(b, m, text)
<1> DEFINE fr == b.frbufsz - Length(m)
           w == Written(b, m, text)
           to == AfterCopy(b, text, MsgSize[m])
<1>1. y = [b EXCEPT !.frbufsz = fr, !.buffer = w, !.tail = to]
  BY DEF msg_to_mbf, Written, WordsAt, Length
<1>2. b \in MBFCB /\ b.bufsz \in Nat
  BY DEF Ring, MBFCB
<1>3. fr \in Nat /\ w \in UNION {[Words(n) -> Content] : n \in Nat} /\ to \in Nat
  <2> HIDE DEF w
  <2>1. w \in [Words(b.bufsz) -> Content]
    BY DEF w
  <2> QED BY <1>2, <2>1
<1> HIDE DEF fr, w, to
<1>4. /\ y \in MBFCB
      /\ y.mbfid = b.mbfid /\ y.tpri = b.tpri /\ y.bufsz = b.bufsz /\ y.head = b.head
      /\ y.send_queue = b.send_queue /\ y.recv_queue = b.recv_queue
      /\ y.frbufsz = fr /\ y.tail = to /\ y.buffer = w
  BY <1>1, <1>2, <1>3 DEF MBFCB
<1> QED BY <1>4 DEF fr, w, to

(* msg_to_mbf: the message becomes the last one in the ring. *)
LEMMA MessageStored ==
    ASSUME NEW b, NEW s, Holds(b, s), NEW m \in Msgs, mbf_free(b, MsgSize[m]),
           NEW y, y = msg_to_mbf(b, m)
    PROVE  /\ Holds(y, Append(s, m))
           /\ y.mbfid = b.mbfid /\ y.tpri = b.tpri /\ y.bufsz = b.bufsz
           /\ y.send_queue = b.send_queue /\ y.recv_queue = b.recv_queue
           /\ y.frbufsz < b.frbufsz
<1> DEFINE B == b.bufsz
           h == b.head
           n == Len(s)
           L == Length(m)
           sz == MsgSize[m]
           text == Wrapped(b, b.tail + HEADERSZ)
           w == Written(b, m, text)
           fr == b.frbufsz
<1>1. PICK off : HoldsAt(b, s, off)
  BY DEF Holds
<1> DEFINE u == off[n + 1]
<1>2. /\ Ring(b) /\ b \in MBFCB /\ B \in Nat /\ h \in Nat /\ b.frbufsz \in Nat
      /\ b.frbufsz % 4 = 0 /\ b.frbufsz <= B /\ B % 4 = 0 /\ h % 4 = 0
  BY DEF Holds, Ring, MBFCB
<1>3. /\ L \in Nat /\ L % 4 = 0 /\ L >= 4 /\ sz \in Nat /\ HEADERSZ = 4
      /\ L <= b.frbufsz /\ h < B
  BY <1>2, LengthIs, FitsWhole
<1>4. /\ n \in Nat /\ s \in Seq(Msgs) /\ off \in [1 .. n + 1 -> Nat] /\ off[1] = 0
      /\ u = B - b.frbufsz /\ b.tail = Place(B, h + u)
      /\ \A i \in 1 .. n : off[i] % 4 = 0 /\ off[i + 1] = off[i] + Length(s[i])
      /\ \A i \in 1 .. n : LiesAt(b, off[i], s[i])
      /\ \A i, j \in 1 .. n + 1 : i <= j => off[i] <= off[j]
  BY <1>1, PlacesOf DEF HoldsAt, Holds
<1> HIDE DEF L, u, w, text, B, fr
<1>5. fr \in Nat /\ fr % 4 = 0 /\ fr <= B /\ L <= fr /\ u = B - fr /\ B \in Nat /\ B % 4 = 0
       /\ L \in Nat
  BY <1>2, <1>3, <1>4 DEF B, fr
<1>6. u \in Nat /\ u % 4 = 0 /\ u + L <= B
  BY <1>5
<1> USE DEF B
<1>7. u + Length(m) <= b.bufsz /\ b.head < b.bufsz /\ b.tail = Place(b.bufsz, b.head + u)
  BY <1>3, <1>4, <1>6 DEF L
<1>8. /\ w \in [Words(B) -> Content]
      /\ w[Place(B, h + u)] = <<sz>>
      /\ \A k \in Words(sz) : w[Place(B, h + (u + HEADERSZ + k))] = <<m, k>>
      /\ \A o \in Nat : o % 4 = 0 /\ o < u => w[Place(B, h + o)] = b.buffer[Place(B, h + o)]
      /\ AfterCopy(b, text, sz) = Place(B, h + (u + L))
  <2>1. /\ text = Wrapped(b, b.tail + HEADERSZ) /\ w = Written(b, m, text)
        /\ Ring(b) /\ b.head < b.bufsz /\ u \in Nat /\ u % 4 = 0
        /\ b.tail = Place(b.bufsz, b.head + u) /\ u + Length(m) <= b.bufsz
    BY <1>2, <1>6, <1>7 DEF text, w
  <2>2. StoredAt(b, u, m, text, w)
    BY <2>1, WordsWritten
  <2> QED BY <2>2 DEF StoredAt, L
<1>9. Place(B, h + (u + L)) \in Nat
  BY <1>2, <1>3, <1>6 DEF Place
<1>10. /\ y \in MBFCB
      /\ y.mbfid = b.mbfid /\ y.tpri = b.tpri /\ y.bufsz = B /\ y.head = h
      /\ y.send_queue = b.send_queue /\ y.recv_queue = b.recv_queue
      /\ y.frbufsz = b.frbufsz - L /\ y.tail = Place(B, h + (u + L)) /\ y.buffer = w
  <2>1. b.frbufsz - Length(m) \in Nat
    BY <1>2, <1>3 DEF L
  <2> QED BY <1>2, <1>8, <1>9, <2>1, msg_to_mbf_Is DEF text, w, L
<1>11. Ring(y)
  <2>1. (b.frbufsz - L) % 4 = 0 /\ b.frbufsz - L <= B
    BY <1>2, <1>3
  <2> QED BY <1>2, <1>3, <1>8, <1>10, <2>1 DEF Ring
<1> DEFINE v == Append(s, m)
           new == [i \in 1 .. n + 2 |-> IF i = n + 2 THEN u + L ELSE off[i]]
<1>12. /\ v \in Seq(Msgs) /\ Len(v) = n + 1
       /\ \A i \in 1 .. n : v[i] = s[i]
       /\ v[n + 1] = m
  BY <1>4, AppendProperties
<1> HIDE DEF v
<1>13. /\ new \in [1 .. n + 2 -> Nat] /\ new[n + 2] = u + L
       /\ \A i \in 1 .. n + 1 : new[i] = off[i]
       /\ new[1] = 0 /\ new[n + 1] = u
  BY <1>3, <1>4, <1>6 DEF u
<1> HIDE DEF new, B, h, n, sz
<1>14. ASSUME NEW i \in 1 .. n
       PROVE  LiesAt(y, new[i], v[i])
  <2> DEFINE o == off[i]
             c == s[i]
  <2>1. /\ c \in Msgs /\ o \in Nat /\ o % 4 = 0 /\ LiesAt(b, o, c) /\ o + Length(c) = off[i + 1]
        /\ off[i + 1] <= u
    <3>1. i \in 1 .. n + 1 /\ i + 1 \in 1 .. n + 1 /\ n + 1 \in 1 .. n + 1 /\ i + 1 <= n + 1
      BY <1>4
    <3>2. s[i] \in Msgs
      BY <1>4 DEF n
    <3> QED BY <1>4, <3>1, <3>2 DEF u
  <2> HIDE DEF o, c
  <2>2. /\ Length(c) \in Nat /\ Length(c) >= 4 /\ HEADERSZ = 4
        /\ \A k \in Words(MsgSize[c]) : k \in Nat /\ k % 4 = 0 /\ HEADERSZ + k < Length(c)
    BY <2>1, LengthIs
  <2>3. o + Length(c) <= u
    BY <2>1
  <2>4. w[Place(B, h + o)] = <<MsgSize[c]>>
    <3>1. o < u
      BY <1>6, <2>1, <2>2, <2>3
    <3>2. b.buffer[Place(B, h + o)] = <<MsgSize[c]>>
      BY <2>1 DEF LiesAt, B, h
    <3> QED BY <1>8, <2>1, <3>1, <3>2
  <2>5. ASSUME NEW k \in Words(MsgSize[c])
        PROVE  w[Place(B, h + (o + HEADERSZ + k))] = <<c, k>>
    <3> DEFINE p == o + HEADERSZ + k
    <3>1. k \in Nat /\ k % 4 = 0 /\ HEADERSZ + k < Length(c)
      BY <2>2
    <3>2. p \in Nat /\ p % 4 = 0 /\ p < u
      BY <1>6, <2>1, <2>2, <2>3, <3>1
    <3>3. b.buffer[Place(B, h + p)] = <<c, k>>
      BY <2>1 DEF LiesAt, B, h
    <3> HIDE DEF p
    <3>4. w[Place(B, h + p)] = <<c, k>>
      BY <1>8, <3>2, <3>3
    <3> QED BY <3>4 DEF p
  <2>6. LiesAt(y, o, c)
    BY <1>10, <2>4, <2>5 DEF LiesAt
  <2>7. new[i] = o /\ v[i] = c
    <3>1. i \in 1 .. n + 1
      BY <1>4
    <3> QED BY <1>12, <1>13, <3>1 DEF o, c
  <2> QED BY <2>6, <2>7
<1>15. LiesAt(y, new[n + 1], v[n + 1])
  <2>1. LiesAt(y, u, m)
    BY <1>8, <1>10 DEF LiesAt, sz
  <2> QED BY <1>12, <1>13, <2>1
<1>16. ASSUME NEW i \in 1 .. n + 1
       PROVE  /\ new[i] % 4 = 0 /\ new[i + 1] = new[i] + Length(v[i])
              /\ LiesAt(y, new[i], v[i])
  <2>1. CASE i = n + 1
    <3>1. i + 1 = n + 2 /\ new[i] = u /\ v[i] = m
      BY <1>4, <1>12, <1>13, <2>1
    <3> QED BY <1>6, <1>13, <1>15, <2>1, <3>1 DEF L
  <2>2. CASE i # n + 1
    <3>1. i \in 1 .. n /\ i + 1 \in 1 .. n + 1
      BY <1>4, <2>2
    <3> QED BY <1>4, <1>12, <1>13, <1>14, <3>1
  <2> QED BY <2>1, <2>2
<1>17. ASSUME NEW i \in 1 .. n + 2, NEW j \in 1 .. n + 2, i <= j
       PROVE  new[i] <= new[j]
  <2>1. CASE j \in 1 .. n + 1
    <3>1. i \in 1 .. n + 1
      BY <1>4, <1>17, <2>1
    <3> QED BY <1>4, <1>13, <1>17, <2>1, <3>1
  <2>2. CASE i \in 1 .. n + 1 /\ j = n + 2
    <3>1. off[i] <= u /\ off[i] \in Nat
      BY <1>4, <2>2 DEF u
    <3> QED BY <1>3, <1>6, <1>13, <2>2, <3>1
  <2>3. CASE i = n + 2 /\ j = n + 2
    BY <1>3, <1>6, <1>13, <2>3
  <2> QED BY <1>4, <1>17, <2>1, <2>2, <2>3
<1>18. u + L = B - (b.frbufsz - L)
  <2>1. u + L = B - (fr - L)
    BY <1>5
  <2> QED BY <2>1 DEF fr
<1>19. Len(v) + 1 = n + 2
  BY <1>4, <1>12
<1>20. HoldsAt(y, v, new)
  BY <1>10, <1>12, <1>13, <1>16, <1>17, <1>18, <1>19 DEF HoldsAt
<1>21. b.frbufsz - L < b.frbufsz
  BY <1>2, <1>3
<1> QED BY <1>10, <1>11, <1>12, <1>20, <1>21 DEF Holds, v, B

(* mbf_to_msg: the words of the first message are forgotten; the others    *)
(* are nearer to the head than before.                                     *)
LEMMA FirstTaken ==
    ASSUME NEW b, Ring(b), b.head < b.bufsz, NEW m \in Msgs, LiesAt(b, 0, m),
           Length(m) <= b.bufsz - b.frbufsz, NEW y, y = mbf_to_msg(b)
    PROVE  /\ Ring(y)
           /\ y.mbfid = b.mbfid /\ y.tpri = b.tpri /\ y.bufsz = b.bufsz /\ y.tail = b.tail
           /\ y.send_queue = b.send_queue /\ y.recv_queue = b.recv_queue
           /\ y.frbufsz = b.frbufsz + Length(m)
           /\ y.head = Place(b.bufsz, b.head + Length(m))
           /\ \A o \in Nat : o % 4 = 0 /\ o + Length(m) < b.bufsz =>
                y.buffer[Place(b.bufsz, y.head + o)]
                    = b.buffer[Place(b.bufsz, b.head + (o + Length(m)))]
<1> DEFINE B == b.bufsz
           h == b.head
           fr == b.frbufsz
           L == Length(m)
           sz == MsgSize[m]
           text == Wrapped(b, h + HEADERSZ)
           read == {h} \cup {PlaceOf(b, text, sz, k) : k \in Words(sz)}
           w == [i \in Words(B) |-> IF i \in read THEN <<>> ELSE b.buffer[i]]
           to == AfterCopy(b, text, sz)
<1>1. /\ sz \in Nat \ {0} /\ L = HEADERSZ + ROUNDSZ(sz) /\ HEADERSZ = 4
      /\ L \in Nat /\ L % 4 = 0 /\ ROUNDSZ(sz) \in Nat
      /\ \A k \in Words(sz) : k \in Nat /\ k % 4 = 0 /\ HEADERSZ + k < L
  BY LengthIs
<1>2. /\ B \in Nat /\ B % 4 = 0 /\ h \in Nat /\ h % 4 = 0 /\ h < B /\ b \in MBFCB
      /\ b.buffer \in [Words(B) -> Content] /\ fr \in Nat /\ fr % 4 = 0 /\ fr <= B
      /\ L <= B - fr
  BY DEF Ring, MBFCB
<1> HIDE DEF B, h, fr, L, sz, text, read, w, to
<1>3. /\ h + HEADERSZ + ROUNDSZ(sz) < 2 * B /\ h < 2 * B /\ h + L < 2 * B /\ L <= B
      /\ fr + L \in Nat /\ (fr + L) % 4 = 0 /\ fr + L <= B
      /\ h + L \in Nat /\ (h + L) % 4 = 0
  BY <1>1, <1>2
<1>4. Place(B, h) = h /\ Place(B, h + 0) = h
  BY <1>2 DEF Place
<1>5. b.bufsz = B /\ text = Wrapped(b, Place(B, h) + HEADERSZ)
  BY <1>4 DEF B, text
<1>6. /\ AfterCopy(b, text, sz) = Place(B, h + HEADERSZ + ROUNDSZ(sz))
      /\ \A k \in Words(sz) : PlaceOf(b, text, sz, k) = Place(B, h + HEADERSZ + k)
  <2>1. /\ h \in Nat /\ h % 4 = 0 /\ h + HEADERSZ + ROUNDSZ(sz) < 2 * B
        /\ B \in Nat /\ b.bufsz = B /\ B % 4 = 0 /\ sz \in Nat \ {0}
        /\ text = Wrapped(b, Place(B, h) + HEADERSZ)
    BY <1>1, <1>2, <1>3, <1>5
  <2> QED BY <2>1, CopiesFollow
<1>7. to = Place(B, h + L)
  <2>1. h + HEADERSZ + ROUNDSZ(sz) = h + L
    BY <1>1, <1>2
  <2> QED BY <1>6, <2>1 DEF to
<1>8. to \in Words(B)
  BY <1>2, <1>3, <1>7, PlaceIsWord
<1>9. \A i : i \in read <=> i = h \/ \E k \in Words(sz) : i = Place(B, h + HEADERSZ + k)
  BY <1>6 DEF read
<1>10. w \in [Words(B) -> Content]
  <2>1. <<>> \in Content
    BY DEF Content
  <2> QED BY <1>2, <2>1 DEF w
<1>11. y = [b EXCEPT !.frbufsz = fr + L, !.buffer = w, !.head = to]
  <2>1. b.buffer[b.head] = <<sz>>
    BY <1>4 DEF LiesAt, B, h, sz
  <2>2. b.buffer[b.head][1] = sz
    BY <2>1
  <2>3. y = [b EXCEPT !.frbufsz = @ + HEADERSZ + ROUNDSZ(sz), !.buffer = w, !.head = to]
    BY <2>2 DEF mbf_to_msg, w, read, to, text, h, B
  <2>4. b.frbufsz + HEADERSZ + ROUNDSZ(sz) = fr + L
    BY <1>1, <1>2 DEF fr
  <2> QED BY <2>3, <2>4
<1>12. /\ y \in MBFCB
       /\ y.mbfid = b.mbfid /\ y.tpri = b.tpri /\ y.bufsz = b.bufsz /\ y.tail = b.tail
       /\ y.send_queue = b.send_queue /\ y.recv_queue = b.recv_queue
       /\ y.frbufsz = fr + L /\ y.head = to /\ y.buffer = w
  <2>1. w \in UNION {[Words(n) -> Content] : n \in Nat} /\ to \in Nat
    BY <1>2, <1>8, <1>10 DEF Words
  <2> QED BY <1>2, <1>3, <1>11, <2>1 DEF MBFCB
<1>13. Ring(y)
  <2>1. to % 4 = 0 /\ to < B
    BY <1>2, <1>8 DEF Words
  <2> QED BY <1>2, <1>3, <1>10, <1>12, <2>1 DEF Ring, B
<1>14. ASSUME NEW o \in Nat, o % 4 = 0, o + L < B
       PROVE  w[Place(B, to + o)] = b.buffer[Place(B, h + (o + L))]
  <2> DEFINE p == Place(B, h + (o + L))
  <2>1. /\ o + L \in 0 .. B - 1 /\ h + L + o = h + (o + L) /\ h + L + o < 2 * B
        /\ (h + (o + L)) % 4 = 0 /\ h + (o + L) \in Nat /\ h + (o + L) < 2 * B
    BY <1>1, <1>2, <1>14
  <2>2. Place(B, to + o) = p
    BY <1>2, <1>3, <1>7, <2>1, PlaceBehind
  <2>3. p \in Words(B)
    BY <1>2, <2>1, PlaceIsWord
  <2>4. p # h
    <3>1. 0 \in 0 .. B - 1 /\ 0 # o + L
      BY <1>1, <1>2, <1>14
    <3> QED BY <1>2, <1>4, <2>1, <3>1, PlacesDiffer
  <2>5. ASSUME NEW k \in Words(sz), p = Place(B, h + HEADERSZ + k)
        PROVE  FALSE
    <3>1. k \in Nat /\ HEADERSZ + k < L
      BY <1>1
    <3>2. HEADERSZ + k \in 0 .. B - 1 /\ HEADERSZ + k # o + L
          /\ h + HEADERSZ + k = h + (HEADERSZ + k)
      BY <1>1, <1>2, <1>3, <3>1
    <3> QED BY <1>2, <2>1, <2>5, <3>2, PlacesDiffer
  <2>6. p \notin read
    BY <1>9, <2>4, <2>5
  <2> HIDE DEF p
  <2>7. w[p] = b.buffer[p]
    BY <2>3, <2>6 DEF w
  <2> QED BY <2>2, <2>7 DEF p
<1> QED BY <1>7, <1>12, <1>13, <1>14 DEF B, h, fr, L

(* mbf_to_msg: what was read is the first message in the ring, and the     *)
(* others stay.                                                            *)
LEMMA MessageTaken ==
    ASSUME NEW b, NEW s, Holds(b, s), s # <<>>, NEW y, y = mbf_to_msg(b)
    PROVE  /\ MessageAt(b, b.head) = Head(s) /\ Holds(y, Tail(s))
           /\ y.mbfid = b.mbfid /\ y.tpri = b.tpri /\ y.bufsz = b.bufsz
           /\ y.send_queue = b.send_queue /\ y.recv_queue = b.recv_queue
<1> DEFINE B == b.bufsz
           h == b.head
           n == Len(s)
           m == Head(s)
           L == Length(m)
           fr == b.frbufsz
<1>1. PICK off : HoldsAt(b, s, off)
  BY DEF Holds
<1>2. /\ Ring(b) /\ B \in Nat /\ h \in Nat /\ fr \in Nat /\ fr <= B /\ B % 4 = 0 /\ h % 4 = 0
      /\ (h < B \/ h = 0)
  BY DEF Holds, Ring, MBFCB
<1>3. /\ n \in Nat /\ s \in Seq(Msgs) /\ off \in [1 .. n + 1 -> Nat] /\ off[1] = 0
      /\ off[n + 1] = B - fr /\ b.tail = Place(B, h + off[n + 1])
      /\ \A i \in 1 .. n : off[i] % 4 = 0 /\ off[i + 1] = off[i] + Length(s[i])
      /\ \A i \in 1 .. n : LiesAt(b, off[i], s[i])
      /\ \A i, j \in 1 .. n + 1 : i <= j => off[i] <= off[j]
  BY <1>1, PlacesOf DEF HoldsAt, Holds
<1>4. n >= 1 /\ m = s[1] /\ m \in Msgs
  BY <1>3
<1>5. L \in Nat /\ L % 4 = 0 /\ L >= 4 /\ HEADERSZ = 4
  BY <1>4, LengthIs
<1> HIDE DEF B, h, n, m, L, fr
<1>6. /\ 1 \in 1 .. n /\ 1 \in 1 .. n + 1 /\ 2 \in 1 .. n + 1 /\ n + 1 \in 1 .. n + 1
      /\ 2 <= n + 1 /\ 1 + 1 = 2
  BY <1>3, <1>4
<1>7. off[2] = L /\ LiesAt(b, 0, m)
  <2>1. off[2] = off[1] + Length(s[1]) /\ LiesAt(b, off[1], s[1])
    BY <1>3, <1>6
  <2> QED BY <1>3, <1>4, <1>5, <2>1 DEF L
<1>8. L <= off[n + 1] /\ off[n + 1] \in Nat
  BY <1>3, <1>6, <1>7
<1>9. L <= B - fr /\ h < B /\ L <= B
  BY <1>2, <1>3, <1>5, <1>8
<1>10. /\ Ring(y)
       /\ y.mbfid = b.mbfid /\ y.tpri = b.tpri /\ y.bufsz = B /\ y.tail = b.tail
       /\ y.send_queue = b.send_queue /\ y.recv_queue = b.recv_queue
       /\ y.frbufsz = fr + L
       /\ y.head = Place(B, h + L)
       /\ \A o \in Nat : o % 4 = 0 /\ o + L < B =>
            y.buffer[Place(B, y.head + o)] = b.buffer[Place(B, h + (o + L))]
  <2>1. Ring(b) /\ b.head < b.bufsz /\ m \in Msgs /\ LiesAt(b, 0, m)
        /\ Length(m) <= b.bufsz - b.frbufsz
    BY <1>2, <1>4, <1>7, <1>9 DEF B, h, L, fr
  <2> QED BY <2>1, FirstTaken DEF B, h, L, fr
<1>11. MessageAt(b, b.head) = m
  <2>1. h = Place(B, h + 0) /\ 0 + L <= B /\ 0 % 4 = 0
    BY <1>2, <1>5, <1>9 DEF Place
  <2>2. /\ b.head < b.bufsz /\ 0 \in Nat /\ 0 % 4 = 0 /\ 0 + Length(m) <= b.bufsz
        /\ b.head = Place(b.bufsz, b.head + 0)
    BY <1>9, <2>1 DEF B, h, L
  <2> QED BY <1>2, <1>4, <1>7, <2>2, MessageFound
<1> DEFINE v == Tail(s)
           new == [i \in 1 .. n |-> off[i + 1] - L]
<1>12. /\ v \in Seq(Msgs) /\ Len(v) = n - 1 /\ Len(v) + 1 = n
       /\ \A i \in 1 .. n - 1 : v[i] = s[i + 1]
  BY <1>3, <1>4 DEF n
<1> HIDE DEF v
<1>13. \A i \in 1 .. n : off[i + 1] \in Nat /\ off[i + 1] - L \in Nat
  <2> TAKE i \in 1 .. n
  <2>1. i + 1 \in 1 .. n + 1 /\ 2 <= i + 1
    BY <1>3
  <2>2. off[2] <= off[i + 1] /\ off[i + 1] \in Nat
    BY <1>3, <1>6, <2>1
  <2> QED BY <1>5, <1>7, <2>2
<1>14. /\ new \in [1 .. n -> Nat]
       /\ \A i \in 1 .. n : new[i] = off[i + 1] - L /\ off[i + 1] = new[i] + L
  BY <1>5, <1>13
<1> HIDE DEF new
<1>15. new[1] = 0 /\ new[n] = B - (fr + L)
  <2>1. n \in 1 .. n
    BY <1>3, <1>4
  <2>2. new[1] = off[2] - L /\ new[n] = off[n + 1] - L
    BY <1>6, <1>14, <2>1
  <2> QED BY <1>2, <1>3, <1>5, <1>7, <2>2
<1>16. b.tail = Place(B, y.head + new[n])
  <2>1. n \in 1 .. n
    BY <1>3, <1>4
  <2> DEFINE q == new[n]
             e == off[n + 1]
  <2>2. e = q + L /\ q \in Nat /\ e = B - fr
    BY <1>3, <1>14, <2>1
  <2> HIDE DEF q, e
  <2>3. h + L \in Nat /\ h + L < 2 * B /\ h + L + q < 2 * B /\ h + L + q = h + e
    BY <1>2, <1>5, <1>9, <2>2
  <2>4. Place(B, Place(B, h + L) + q) = Place(B, h + L + q)
    BY <1>2, <2>2, <2>3, PlaceBehind
  <2> QED BY <1>3, <1>10, <2>3, <2>4 DEF q, e
<1>17. ASSUME NEW i \in 1 .. n - 1
       PROVE  /\ new[i] % 4 = 0 /\ new[i + 1] = new[i] + Length(v[i])
              /\ LiesAt(y, new[i], v[i])
  <2> DEFINE c == s[i + 1]
             o == new[i]
  <2>1. i \in 1 .. n /\ i + 1 \in 1 .. n /\ i + 2 \in 1 .. n + 1 /\ i + 1 \in 1 .. n + 1
        /\ i + 2 <= n + 1 /\ i + 1 + 1 = i + 2
    BY <1>3
  <2>2. /\ c \in Msgs /\ o \in Nat /\ off[i + 1] = o + L /\ new[i + 1] = off[i + 2] - L
        /\ new[i + 1] \in Nat
    <3>1. i + 1 \in 1 .. Len(s)
      BY <2>1 DEF n
    <3>2. c \in Msgs
      BY <1>3, <3>1
    <3>3. o \in Nat /\ off[i + 1] = o + L
      BY <1>14, <2>1
    <3>4. new[i + 1] \in Nat /\ new[i + 1] = off[i + 1 + 1] - L
      BY <1>14, <2>1
    <3> QED BY <2>1, <3>2, <3>3, <3>4
  <2>3. /\ off[i + 1] % 4 = 0 /\ off[i + 2] = off[i + 1] + Length(c) /\ LiesAt(b, off[i + 1], c)
        /\ off[i + 2] <= off[n + 1]
    <3>1. off[i + 1] % 4 = 0 /\ off[i + 1 + 1] = off[i + 1] + Length(c)
          /\ LiesAt(b, off[i + 1], c)
      BY <1>3, <2>1
    <3>2. off[i + 2] <= off[n + 1]
      BY <1>3, <1>6, <2>1
    <3> QED BY <2>1, <3>1, <3>2
  <2>4. v[i] = c
    BY <1>12
  <2> HIDE DEF c, o
  <2>5. /\ Length(c) \in Nat /\ Length(c) >= 4 /\ HEADERSZ = 4
        /\ \A k \in Words(MsgSize[c]) : k \in Nat /\ k % 4 = 0 /\ HEADERSZ + k < Length(c)
    BY <2>2, LengthIs
  <2> DEFINE lc == Length(c)
             e == off[i + 1]
             f == off[i + 2]
             z == off[n + 1]
  <2>6. /\ lc \in Nat /\ lc >= 4 /\ o \in Nat /\ L \in Nat /\ e = o + L /\ e % 4 = 0
         /\ f = e + lc /\ f <= z /\ z = B - fr /\ L % 4 = 0 /\ new[i + 1] = f - L
    BY <1>3, <1>5, <2>2, <2>3, <2>5
  <2> HIDE DEF lc, e, f, z
  <2>7. o + L + lc <= B /\ o + L < B
    BY <1>2, <2>6
  <2>8. o % 4 = 0 /\ new[i + 1] = o + lc
    BY <2>6
  <2>9. o % 4 = 0 /\ new[i + 1] = o + Length(c)
    BY <2>8 DEF lc
  <2>10. y.buffer[Place(B, y.head + o)] = <<MsgSize[c]>>
    <3>1. b.buffer[Place(B, h + (o + L))] = <<MsgSize[c]>>
      BY <2>2, <2>3 DEF LiesAt, B, h
    <3> QED BY <1>10, <2>2, <2>9, <2>7, <3>1
  <2>11. ASSUME NEW k \in Words(MsgSize[c])
        PROVE  y.buffer[Place(B, y.head + (o + HEADERSZ + k))] = <<c, k>>
    <3> DEFINE p == o + HEADERSZ + k
    <3>1. k \in Nat /\ k % 4 = 0 /\ HEADERSZ + k < lc /\ HEADERSZ = 4
      BY <2>5 DEF lc
    <3>2. p \in Nat /\ p + L < B /\ p + L = o + L + HEADERSZ + k
      BY <1>2, <2>6, <2>7, <3>1
    <3>3. p % 4 = 0
      BY <2>6, <2>8, <3>1
    <3>4. p \in Nat /\ p % 4 = 0 /\ p + L < B /\ p + L = o + L + HEADERSZ + k
      BY <3>2, <3>3
    <3>5. b.buffer[Place(B, h + (o + L + HEADERSZ + k))] = <<c, k>>
      BY <2>2, <2>3 DEF LiesAt, B, h
    <3> HIDE DEF p
    <3>6. y.buffer[Place(B, y.head + p)] = <<c, k>>
      BY <1>10, <3>4, <3>5
    <3> QED BY <3>6 DEF p
  <2>12. LiesAt(y, o, c)
    BY <1>10, <2>10, <2>11 DEF LiesAt
  <2> QED BY <2>4, <2>9, <2>12 DEF o
<1>18. ASSUME NEW i \in 1 .. n, NEW j \in 1 .. n, i <= j
       PROVE  new[i] <= new[j]
  <2>1. i + 1 \in 1 .. n + 1 /\ j + 1 \in 1 .. n + 1 /\ i + 1 <= j + 1
    BY <1>3, <1>18
  <2>2. off[i + 1] <= off[j + 1] /\ off[i + 1] \in Nat /\ off[j + 1] \in Nat
    BY <1>3, <2>1
  <2> QED BY <1>5, <1>14, <2>2
<1>19. HoldsAt(y, v, new)
  BY <1>10, <1>12, <1>14, <1>15, <1>16, <1>17, <1>18 DEF HoldsAt
<1> QED BY <1>10, <1>11, <1>12, <1>19 DEF Holds, v, m, B

(* What the ring holds does not depend on the queues and attributes.       *)
LEMMA HoldsSame ==
    ASSUME NEW b, NEW s, Holds(b, s), NEW y \in MBFCB,
           y.bufsz = b.bufsz, y.frbufsz = b.frbufsz, y.head = b.head, y.tail = b.tail,
           y.buffer = b.buffer
    PROVE  Holds(y, s)
<1>1. Ring(y)
  BY DEF Holds, Ring
<1>2. PICK off : HoldsAt(b, s, off)
  BY DEF Holds
<1>3. \A o, m : LiesAt(b, o, m) => LiesAt(y, o, m)
  BY DEF LiesAt
<1>4. HoldsAt(y, s, off)
  BY <1>2, <1>3 DEF HoldsAt
<1> QED BY <1>1, <1>4 DEF Holds

LEMMA HoldsType ==
    ASSUME NEW b, NEW s, Holds(b, s)
    PROVE  /\ b \in MBFCB /\ b.mbfid \in BOOLEAN /\ b.tpri \in BOOLEAN
           /\ b.bufsz \in Nat /\ b.frbufsz \in Nat
           /\ b.send_queue \in Seq(Tasks) /\ b.recv_queue \in Seq(Tasks)
           /\ s \in Seq(Msgs)
  BY DEF Holds, Ring, MBFCB

LEMMA EmptyHolds ==
    ASSUME NEW b \in MBFCB, b.bufsz % 4 = 0, b.frbufsz = b.bufsz, b.head = 0, b.tail = 0,
           b.buffer \in [Words(b.bufsz) -> Content]
    PROVE  Holds(b, <<>>)
<1>1. b.bufsz \in Nat
  BY DEF MBFCB
<1>2. Ring(b)
  BY <1>1 DEF Ring
<1> DEFINE off == [i \in 1 .. 1 |-> 0]
           s == <<>>
<1>3. s \in Seq(Msgs) /\ Len(s) = 0
  OBVIOUS
<1>4. Place(b.bufsz, 0) = 0 /\ 0 + 0 = 0 /\ b.bufsz - b.bufsz = 0 /\ 0 + 1 = 1 /\ 0 \in Nat
  BY <1>1 DEF Place
<1>5. /\ off \in [1 .. 1 -> Nat] /\ off[1] = 0 /\ 1 .. 0 = {}
      /\ \A i, j \in 1 .. 1 : off[i] <= off[j]
  OBVIOUS
<1> HIDE DEF off, s
<1>6. HoldsAt(b, s, off)
  BY <1>3, <1>4, <1>5 DEF HoldsAt
<1> QED BY <1>2, <1>3, <1>6 DEF Holds, s

(* The buffer is empty when it holds no message. *)
LEMMA EmptyIs ==
    ASSUME NEW b, NEW s, Holds(b, s)
    PROVE  mbf_empty(b) <=> s = <<>>
<1>1. PICK off : HoldsAt(b, s, off)
  BY DEF Holds
<1> DEFINE n == Len(s)
           u == off[n + 1]
<1>2. /\ n \in Nat /\ s \in Seq(Msgs) /\ off \in [1 .. n + 1 -> Nat] /\ off[1] = 0
      /\ u = b.bufsz - b.frbufsz
      /\ \A i \in 1 .. n : off[i + 1] = off[i] + Length(s[i])
      /\ \A i, j \in 1 .. n + 1 : i <= j => off[i] <= off[j]
  BY <1>1, PlacesOf DEF HoldsAt, Holds
<1>3. b.bufsz \in Nat /\ b.frbufsz \in Nat
  BY HoldsType
<1>4. mbf_empty(b) <=> u = 0
  BY <1>2, <1>3 DEF mbf_empty
<1>5. s = <<>> => u = 0
  BY <1>2
<1>6. ASSUME s # <<>> PROVE u # 0
  <2>1. n >= 1 /\ s[1] \in Msgs
    BY <1>2, <1>6
  <2> HIDE DEF n
  <2>2. 1 \in 1 .. n /\ 2 \in 1 .. n + 1 /\ n + 1 \in 1 .. n + 1 /\ 2 <= n + 1 /\ 1 + 1 = 2
    BY <1>2, <2>1
  <2>3. Length(s[1]) \in Nat /\ Length(s[1]) >= 4
    BY <2>1, LengthIs
  <2>4. off[2] >= 4 /\ off[2] \in Nat
    BY <1>2, <2>2, <2>3
  <2>5. off[2] <= u /\ u \in Nat
    BY <1>2, <2>2
  <2> HIDE DEF u
  <2> QED BY <2>4, <2>5
<1> QED BY <1>4, <1>5, <1>6

-----------------------------------------------------------------------------
(* Message buffer: mbf_wakeup                                              *)

(* b holds s, and those who wait in its queue offer messages.              *)
MbfReady(b, s) ==
    /\ Holds(b, s)
    /\ \A i \in 1 .. Len(b.send_queue) : msg[b.send_queue[i]] \in Msgs

(* x is b after the first j senders left, and v is s followed by their     *)
(* messages.                                                               *)
WokenUp(b, s, x, v, j) ==
    LET q == b.send_queue
        r == x.send_queue
    IN  /\ j \in 0 .. Len(q)
        /\ x.mbfid = b.mbfid /\ x.tpri = b.tpri /\ x.bufsz = b.bufsz
        /\ x.recv_queue = b.recv_queue
        /\ Holds(x, v) /\ Len(v) = Len(s) + j
        /\ \A i \in 1 .. Len(s) : v[i] = s[i]
        /\ \A i \in 1 .. j : v[Len(s) + i] = msg[q[i]]
        /\ r \in Seq(Tasks) /\ Len(r) = Len(q) - j
        /\ \A i \in 1 .. Len(q) - j : r[i] = q[j + i]

(* The message of the first sender does not fit. *)
Stuck(x) == x.send_queue = <<>> \/ ~mbf_free(x, MsgSize[msg[Head(x.send_queue)]])

LEMMA StoreOne ==
    ASSUME NEW b, NEW s, MbfReady(b, s), NEW x, NEW v, NEW j, WokenUp(b, s, x, v, j),
           ~Stuck(x), NEW y, y = StoreNext(x)
    PROVE  \E w : WokenUp(b, s, y, w, j + 1)
<1> DEFINE q == b.send_queue
           r == x.send_queue
           n == Len(q)
           l == Len(s)
           top == Head(r)
           m == msg[top]
           z == msg_to_mbf(x, m)
           w == Append(v, m)
<1>1. /\ n \in Nat /\ l \in Nat /\ j \in 0 .. n /\ r \in Seq(Tasks) /\ Len(r) = n - j
      /\ \A i \in 1 .. n - j : r[i] = q[j + i]
      /\ Holds(x, v) /\ v \in Seq(Msgs) /\ Len(v) = l + j
      /\ \A i \in 1 .. l : v[i] = s[i]
      /\ \A i \in 1 .. j : v[l + i] = msg[q[i]]
  <2>1. n \in Nat /\ l \in Nat
    BY HoldsType DEF MbfReady
  <2>2. v \in Seq(Msgs)
    BY HoldsType DEF WokenUp
  <2> QED BY <2>1, <2>2 DEF WokenUp
<1>2. r # <<>> /\ mbf_free(x, MsgSize[m])
  BY DEF Stuck
<1>3. Len(r) >= 1 /\ top = r[1]
  BY <1>1, <1>2
<1>4. /\ Tail(r) \in Seq(Tasks) /\ Len(Tail(r)) = Len(r) - 1
      /\ \A i \in 1 .. Len(r) - 1 : Tail(r)[i] = r[i + 1]
  BY <1>1, <1>3
<1> HIDE DEF n, q, l, r, top, m, z, w
<1>5. j \in Nat /\ j + 1 \in 0 .. n /\ j + 1 \in 1 .. n /\ top = q[j + 1]
  <2>1. j \in Nat /\ j + 1 \in 0 .. n /\ j + 1 \in 1 .. n /\ 1 \in 1 .. n - j
    BY <1>1, <1>3
  <2> QED BY <1>1, <1>3, <2>1
<1>6. m \in Msgs /\ m = msg[q[j + 1]]
  BY <1>5 DEF MbfReady, q, n, m
<1>7. /\ Holds(z, w) /\ z \in MBFCB
      /\ z.mbfid = x.mbfid /\ z.tpri = x.tpri /\ z.bufsz = x.bufsz
      /\ z.send_queue = r /\ z.recv_queue = x.recv_queue
  <2>1. /\ Holds(z, w)
        /\ z.mbfid = x.mbfid /\ z.tpri = x.tpri /\ z.bufsz = x.bufsz
        /\ z.send_queue = x.send_queue /\ z.recv_queue = x.recv_queue
    BY <1>1, <1>2, <1>6, MessageStored DEF z, w
  <2> QED BY <2>1, HoldsType DEF r
<1>8. y = [z EXCEPT !.send_queue = Tail(@)]
  BY <1>2 DEF StoreNext, r, m, top, z
<1>9. /\ y \in MBFCB /\ y.send_queue = Tail(r) /\ y.mbfid = x.mbfid /\ y.tpri = x.tpri
      /\ y.bufsz = x.bufsz /\ y.recv_queue = x.recv_queue
      /\ y.bufsz = z.bufsz /\ y.frbufsz = z.frbufsz /\ y.head = z.head /\ y.tail = z.tail
      /\ y.buffer = z.buffer
  BY <1>4, <1>7, <1>8 DEF MBFCB
<1>10. Holds(y, w)
  BY <1>7, <1>9, HoldsSame
<1>11. /\ Len(w) = l + (j + 1)
       /\ \A i \in 1 .. l + j : w[i] = v[i]
       /\ w[l + j + 1] = m
  <2>1. /\ Len(w) = Len(v) + 1 /\ w[Len(v) + 1] = m
        /\ \A i \in 1 .. Len(v) : w[i] = v[i]
    BY <1>1, <1>6, AppendProperties DEF w
  <2>2. Len(v) = l + j /\ l + j + 1 = l + (j + 1)
    BY <1>1, <1>5
  <2> QED BY <2>1, <2>2
<1>12. \A i \in 1 .. l : w[i] = s[i]
  <2> TAKE i \in 1 .. l
  <2>1. i \in 1 .. l + j
    BY <1>1, <1>5
  <2> QED BY <1>1, <1>11, <2>1
<1>13. \A i \in 1 .. j + 1 : w[l + i] = msg[q[i]]
  <2> TAKE i \in 1 .. j + 1
  <2>1. CASE i \in 1 .. j
    <3>1. l + i \in 1 .. l + j
      BY <1>1, <1>5, <2>1
    <3> QED BY <1>1, <1>11, <2>1, <3>1
  <2>2. CASE i = j + 1
    <3>1. l + i = l + j + 1
      BY <1>1, <1>5, <2>2
    <3> QED BY <1>6, <1>11, <2>2, <3>1
  <2> QED BY <1>5, <2>1, <2>2
<1>14. /\ Len(Tail(r)) = n - (j + 1)
       /\ \A i \in 1 .. n - (j + 1) : Tail(r)[i] = q[j + 1 + i]
  <2>1. Len(Tail(r)) = n - (j + 1)
    BY <1>1, <1>4, <1>5
  <2>2. ASSUME NEW i \in 1 .. n - (j + 1)
        PROVE  Tail(r)[i] = q[j + 1 + i]
    <3>1. i \in 1 .. Len(r) - 1 /\ i + 1 \in 1 .. n - j /\ j + (i + 1) = j + 1 + i
      BY <1>1, <1>5
    <3> QED BY <1>1, <1>4, <3>1
  <2> QED BY <2>1, <2>2
<1>15. /\ y.mbfid = b.mbfid /\ y.tpri = b.tpri /\ y.bufsz = b.bufsz
       /\ y.recv_queue = b.recv_queue
  BY <1>9 DEF WokenUp
<1>16. WokenUp(b, s, y, w, j + 1)
  BY <1>4, <1>5, <1>9, <1>10, <1>11, <1>12, <1>13, <1>14, <1>15 DEF WokenUp, q, l, n
<1> QED BY <1>16

LEMMA StuckStays ==
    ASSUME NEW x, Stuck(x)
    PROVE  StoreNext(x) = x
  BY DEF Stuck, StoreNext

(* The loop is its rounds, one after the other. *)
LEMMA mbf_wakeupRounds ==
    ASSUME NEW b, NEW s, MbfReady(b, s)
    PROVE  \E g : /\ mbf_wakeup(b) = g[Len(b.send_queue)]
                  /\ g = [i \in 0 .. Len(b.send_queue) |->
                            IF i = 0 THEN b ELSE StoreNext(g[i - 1])]
                  /\ \A i \in 0 .. Len(b.send_queue) : \E v, j : WokenUp(b, s, g[i], v, j)
<1> DEFINE n == Len(b.send_queue)
           S == {x \in MBFCB : \E v, j : WokenUp(b, s, x, v, j)}
           Loop(f) == f = [i \in 0 .. n |-> IF i = 0 THEN b ELSE StoreNext(f[i - 1])]
           step == [i \in 1 .. n |-> [x \in S |-> StoreNext(x)]]
<1>1. n \in Nat /\ Holds(b, s) /\ b \in MBFCB /\ Len(s) \in Nat /\ b.send_queue \in Seq(Tasks)
  BY HoldsType DEF MbfReady
<1>2. b \in S
  <2>1. WokenUp(b, s, b, s, 0)
    <3> DEFINE l == Len(s)
    <3>1. /\ 0 \in 0 .. n /\ l = l + 0 /\ n = n - 0 /\ 1 .. 0 = {} /\ l \in Nat
          /\ \A i \in 1 .. n : i = 0 + i
      BY <1>1
    <3> HIDE DEF n, l
    <3> QED BY <1>1, <3>1 DEF WokenUp, n, l
  <2> QED BY <1>1, <2>1
<1>3. ASSUME NEW x \in S PROVE StoreNext(x) \in S
  <2>1. PICK v, j : WokenUp(b, s, x, v, j)
    OBVIOUS
  <2>2. CASE Stuck(x)
    BY <2>2, StuckStays
  <2>3. CASE ~Stuck(x)
    <3>1. PICK w : WokenUp(b, s, StoreNext(x), w, j + 1)
      BY <2>1, <2>3, StoreOne
    <3>2. StoreNext(x) \in MBFCB
      BY <3>1, HoldsType DEF WokenUp
    <3> QED BY <3>1, <3>2
  <2> QED BY <2>2, <2>3
<1> HIDE DEF S
<1>4. step \in [1 .. n -> [S -> S]]
  <2> HIDE DEF n
  <2> QED BY <1>3
<1>5. PICK f \in [0 .. n -> S] : IsLoop(f, n, b, step)
  <2> HIDE DEF n, step
  <2> QED BY <1>1, <1>2, <1>4, Rounds
<1>6. Loop(f)
  <2>1. ASSUME NEW i \in 0 .. n, i # 0
        PROVE  step[i][f[i - 1]] = StoreNext(f[i - 1])
    <3>1. i \in 1 .. n /\ i - 1 \in 0 .. n
      BY <1>1, <2>1
    <3> HIDE DEF n
    <3> QED BY <1>5, <3>1
  <2> HIDE DEF step, n
  <2> QED BY <1>5, <2>1 DEF IsLoop
<1> DEFINE g == CHOOSE e : Loop(e)
<1>7. Loop(g) /\ mbf_wakeup(b) = g[n]
  <2>1. Loop(CHOOSE e : Loop(e))
    <3> HIDE DEF Loop
    <3> QED BY <1>6
  <2> QED BY <2>1 DEF mbf_wakeup
<1> HIDE DEF g
<1>8. \A i \in 0 .. n : g[i] \in S
  <2> DEFINE T == {i \in Nat : i <= n => g[i] \in S}
  <2> HIDE DEF n
  <2>1. \A i \in 0 .. n : i # 0 => g[i] = StoreNext(g[i - 1])
    BY <1>7
  <2>2. 0 \in T
    <3>1. 0 \in 0 .. n
      BY <1>1
    <3> QED BY <1>2, <1>7, <3>1
  <2>3. ASSUME NEW i \in Nat, i \in T PROVE i + 1 \in T
    <3> SUFFICES ASSUME i + 1 <= n PROVE g[i + 1] \in S
      OBVIOUS
    <3>1. i + 1 \in 0 .. n /\ i + 1 # 0 /\ i + 1 - 1 = i /\ g[i] \in S
      BY <1>1, <2>3
    <3>2. g[i + 1] = StoreNext(g[i])
      BY <2>1, <3>1
    <3> QED BY <1>3, <3>1, <3>2
  <2> HIDE DEF T
  <2>4. Nat \subseteq T
    BY <2>2, <2>3, Induction
  <2> QED BY <1>1, <2>4 DEF T
<1> QED BY <1>7, <1>8 DEF S, n

(* mbf_wakeup: the messages of some first senders are stored, in their     *)
(* order, and that of the next one does not fit.                           *)
LEMMA mbf_wakeupStores ==
    ASSUME NEW b, NEW s, MbfReady(b, s), NEW y, y = mbf_wakeup(b)
    PROVE  Stuck(y) /\ \E v, j : WokenUp(b, s, y, v, j)
<1> DEFINE n == Len(b.send_queue)
<1>1. PICK g : /\ y = g[n]
               /\ g = [i \in 0 .. n |-> IF i = 0 THEN b ELSE StoreNext(g[i - 1])]
               /\ \A i \in 0 .. n : \E v, j : WokenUp(b, s, g[i], v, j)
  BY mbf_wakeupRounds
<1>2. n \in Nat
  BY HoldsType DEF MbfReady
<1> HIDE DEF n
<1> DEFINE T == {i \in Nat : i <= n => Stuck(g[i]) \/ Len(g[i].send_queue) = n - i}
<1>3. 0 \in T
  <2>1. g[0] = b
    BY <1>1, <1>2
  <2> QED BY <1>2, <2>1 DEF n
<1>4. ASSUME NEW i \in Nat, i \in T PROVE i + 1 \in T
  <2> SUFFICES ASSUME i + 1 <= n
               PROVE  Stuck(g[i + 1]) \/ Len(g[i + 1].send_queue) = n - (i + 1)
    OBVIOUS
  <2>1. i \in 0 .. n /\ i + 1 \in 0 .. n /\ i + 1 # 0 /\ i + 1 - 1 = i
    BY <1>2
  <2>2. g[i + 1] = StoreNext(g[i])
    BY <1>1, <2>1
  <2>3. CASE Stuck(g[i])
    BY <2>2, <2>3, StuckStays
  <2>4. CASE ~Stuck(g[i])
    <3>1. PICK v, j : WokenUp(b, s, g[i], v, j)
      BY <1>1, <2>1
    <3>2. PICK w : WokenUp(b, s, g[i + 1], w, j + 1)
      BY <2>2, <2>4, <3>1, StoreOne
    <3>3. Len(g[i].send_queue) = n - i
      BY <1>4, <2>1, <2>4
    <3>4. j \in Nat /\ Len(g[i].send_queue) = n - j /\ Len(g[i + 1].send_queue) = n - (j + 1)
      BY <1>2, <3>1, <3>2 DEF WokenUp, n
    <3> QED BY <1>2, <3>3, <3>4
  <2> QED BY <2>3, <2>4
<1>5. n \in T
  <2> HIDE DEF T
  <2> QED BY <1>2, <1>3, <1>4, Induction
<1>6. PICK v, j : WokenUp(b, s, y, v, j)
  BY <1>1, <1>2
<1>7. Stuck(y)
  <2>1. CASE Len(y.send_queue) = n - n
    <3>1. y.send_queue = <<>>
      BY <1>2, <1>6, <2>1 DEF WokenUp
    <3> QED BY <3>1 DEF Stuck
  <2> QED BY <1>1, <1>2, <1>5, <2>1
<1> QED BY <1>6, <1>7

(* Offers of the set P are accepted behind s, which makes v, and those of  *)
(* the set Q are left.                                                     *)
Accepted(P, s, v, Q) ==
    LET batch == SubSeq(v, Len(s) + 1, Len(v))
    IN  /\ IsPrefix(s, v)
        /\ IsInjective(batch) /\ ToSet(batch) \subseteq P
        /\ Q = P \ ToSet(batch)

MessagesOf(A) == {msg[t] : t \in A}

(* What mbf_wakeup makes of b, which holds s and in whose queue the tasks  *)
(* of A offer messages: y, which holds v, and where those of D still do    *)
AfterWakeup(b, s, A, y, v, D) ==
    /\ Stuck(y) /\ Holds(y, v)
    /\ y.mbfid = b.mbfid /\ y.tpri = b.tpri /\ y.bufsz = b.bufsz
    /\ y.recv_queue = b.recv_queue
    /\ Linked(Tasks, y.send_queue, D) /\ D \subseteq A
    /\ \A f : SortedBy(b.send_queue, f) => SortedBy(y.send_queue, f)
    /\ Accepted(MessagesOf(A), s, v, MessagesOf(D))

LEMMA mbf_wakeupAccepts ==
    ASSUME NEW b, NEW s, NEW A, Holds(b, s), Linked(Tasks, b.send_queue, A),
           \A t \in A : msg[t] \in Msgs,
           \A t, u \in A : msg[t] = msg[u] => t = u,
           NEW y, y = mbf_wakeup(b)
    PROVE  \E v, D : AfterWakeup(b, s, A, y, v, D)
<1> DEFINE q == b.send_queue
           r == y.send_queue
           n == Len(q)
           l == Len(s)
           D == ToSet(r)
<1>1. /\ n \in Nat /\ l \in Nat /\ s \in Seq(Msgs)
      /\ \A i \in 1 .. n : q[i] \in Tasks
      /\ \A t : t \in A <=> \E i \in 1 .. n : q[i] = t
      /\ \A i, k \in 1 .. n : q[i] = q[k] => i = k
  BY HoldsType, PlacesOf DEF Linked
<1>2. MbfReady(b, s)
  BY <1>1 DEF MbfReady
<1>3. PICK v, j : Stuck(y) /\ WokenUp(b, s, y, v, j)
  BY <1>2, mbf_wakeupStores
<1>4. /\ v \in Seq(Msgs) /\ j \in 0 .. n /\ j \in Nat /\ Len(v) = l + j
      /\ \A i \in 1 .. l : v[i] = s[i]
      /\ \A i \in 1 .. j : v[l + i] = msg[q[i]]
      /\ r \in Seq(Tasks) /\ Len(r) = n - j
      /\ \A i \in 1 .. n - j : r[i] = q[j + i]
  <2>1. v \in Seq(Msgs)
    BY <1>3, HoldsType DEF WokenUp
  <2> QED BY <1>1, <1>3, <2>1 DEF WokenUp
<1> HIDE DEF q, r, n, l
<1>5. \A i \in 1 .. n - j : j + i \in 1 .. n
  BY <1>1, <1>4
<1>6. \A t : t \in D <=> \E i \in 1 .. n - j : r[i] = t
  BY <1>4, PlacesOf
<1> HIDE DEF D
<1>7. \A t : t \in D <=> \E i \in j + 1 .. n : q[i] = t
  <2>1. \A i \in j + 1 .. n : i - j \in 1 .. n - j /\ j + (i - j) = i
    BY <1>1, <1>4
  <2>2. \A i \in 1 .. n - j : j + i \in j + 1 .. n
    BY <1>1, <1>4
  <2>3. ASSUME NEW t \in D PROVE \E i \in j + 1 .. n : q[i] = t
    <3>1. PICK k \in 1 .. n - j : r[k] = t
      BY <1>6
    <3> QED BY <1>4, <2>2, <3>1
  <2>4. ASSUME NEW i \in j + 1 .. n PROVE q[i] \in D
    <3>1. r[i - j] = q[i]
      BY <1>4, <2>1
    <3> QED BY <1>6, <2>1, <3>1
  <2> QED BY <2>3, <2>4
<1>8. D \subseteq A
  <2>1. \A i \in j + 1 .. n : i \in 1 .. n
    BY <1>1, <1>4
  <2> QED BY <1>1, <1>7, <2>1
<1>9. \A i, k \in 1 .. n - j : r[i] = r[k] => i = k
  <2> TAKE i, k \in 1 .. n - j
  <2> HAVE r[i] = r[k]
  <2>1. q[j + i] = q[j + k] /\ j + i \in 1 .. n /\ j + k \in 1 .. n
    BY <1>4, <1>5
  <2>2. j + i = j + k
    BY <1>1, <2>1
  <2> QED BY <1>4, <2>2
<1>10. Linked(Tasks, r, D)
  BY <1>4, <1>9, PlacesOf DEF Linked, D
<1>11. ASSUME NEW f, SortedBy(q, f) PROVE SortedBy(r, f)
  <2>1. ASSUME NEW i \in 1 .. Len(r), NEW k \in 1 .. Len(r), i < k
        PROVE  f[r[i]] <= f[r[k]]
    <3>1. j + i \in 1 .. n /\ j + k \in 1 .. n /\ j + i < j + k
      BY <1>4, <1>5, <2>1
    <3>2. f[q[j + i]] <= f[q[j + k]]
      BY <1>11, <3>1 DEF SortedBy, n
    <3> QED BY <1>4, <3>2
  <2> QED BY <2>1 DEF SortedBy
<1> DEFINE batch == SubSeq(v, l + 1, l + j)
<1>12. batch \in Seq(Msgs) /\ Len(batch) = j /\ \A i \in 1 .. j : batch[i] = msg[q[i]]
  <2>1. \A i \in l + 1 .. l + j : v[i] \in Msgs
    BY <1>1, <1>4
  <2>2. /\ batch \in Seq(Msgs)
        /\ Len(batch) = IF l + 1 <= l + j THEN l + j - (l + 1) + 1 ELSE 0
        /\ \A i \in 1 .. l + j - (l + 1) + 1 : batch[i] = v[l + 1 + i - 1]
    BY <1>1, <1>4, <2>1, SubSeqProperties
  <2>3. l + j - (l + 1) + 1 = j /\ \A i \in 1 .. j : l + 1 + i - 1 = l + i
    BY <1>1, <1>4
  <2>4. Len(batch) = j
    <3>1. CASE j = 0
      <4>1. ~(l + 1 <= l + j)
        BY <1>1, <3>1
      <4> QED BY <2>2, <3>1, <4>1
    <3>2. CASE j # 0
      <4>1. l + 1 <= l + j
        BY <1>1, <1>4, <3>2
      <4> QED BY <2>2, <2>3, <4>1
    <3> QED BY <3>1, <3>2
  <2> HIDE DEF batch
  <2>5. ASSUME NEW i \in 1 .. j PROVE batch[i] = msg[q[i]]
    <3>1. batch[i] = v[l + 1 + i - 1]
      BY <2>2, <2>3
    <3>2. l + 1 + i - 1 = l + i
      BY <1>1
    <3> QED BY <1>4, <3>1, <3>2
  <2> QED BY <2>2, <2>4, <2>5
<1> HIDE DEF batch
<1>13. /\ DOMAIN batch = 1 .. j
       /\ \A m : m \in ToSet(batch) <=> \E i \in 1 .. j : msg[q[i]] = m
       /\ \A i \in 1 .. j : i \in 1 .. n /\ q[i] \in A
  <2>1. \A i \in 1 .. j : i \in 1 .. n
    BY <1>1, <1>4
  <2> QED BY <1>1, <1>12, <2>1, PlacesOf
<1>14. IsInjective(batch)
  <2>1. ASSUME NEW i \in 1 .. j, NEW k \in 1 .. j, batch[i] = batch[k] PROVE i = k
    <3>1. msg[q[i]] = msg[q[k]]
      BY <1>12, <2>1
    <3>2. q[i] = q[k]
      BY <1>13, <3>1
    <3> QED BY <1>1, <1>13, <3>2
  <2> QED BY <1>13, <2>1 DEF IsInjective
<1>15. MessagesOf(D) = MessagesOf(A) \ ToSet(batch)
  <2>1. ASSUME NEW t \in D PROVE msg[t] \notin ToSet(batch)
    <3>1. PICK k \in j + 1 .. n : q[k] = t
      BY <1>7
    <3>2. ASSUME NEW i \in 1 .. j, msg[q[i]] = msg[t] PROVE FALSE
      <4>1. q[i] = q[k] /\ k \in 1 .. n /\ i \in 1 .. n
        BY <1>1, <1>4, <1>8, <1>13, <3>1, <3>2
      <4>2. i = k
        BY <1>1, <4>1
      <4> QED BY <1>1, <1>4, <4>2
    <3> QED BY <1>13, <3>2
  <2>2. ASSUME NEW t \in A, t \notin D PROVE msg[t] \in ToSet(batch)
    <3>1. PICK i \in 1 .. n : q[i] = t
      BY <1>1
    <3>2. ~(i \in j + 1 .. n)
      BY <1>7, <2>2, <3>1
    <3>3. i \in 1 .. j
      BY <1>1, <1>4, <3>2
    <3> QED BY <1>13, <3>1, <3>3
  <2> QED BY <1>8, <2>1, <2>2 DEF MessagesOf
<1>16. ToSet(batch) \subseteq MessagesOf(A)
  BY <1>13 DEF MessagesOf
<1>17. IsPrefix(s, v)
  <2>1. l <= l + j /\ \A i \in 1 .. l : s[i] \in Msgs /\ v[i] \in Msgs
    BY <1>1, <1>4 DEF l
  <2>2. SubSeq(s, 1, l) = SubSeq(v, 1, l)
    BY <1>1, <1>4, <2>1
  <2> QED BY <1>4, <2>1, <2>2 DEF IsPrefix, l
<1>18. Accepted(MessagesOf(A), s, v, MessagesOf(D))
  BY <1>4, <1>14, <1>15, <1>16, <1>17 DEF Accepted, batch, l
<1>19. AfterWakeup(b, s, A, y, v, D)
  BY <1>3, <1>8, <1>10, <1>11, <1>18 DEF AfterWakeup, WokenUp, q, r
<1> QED BY <1>19

-----------------------------------------------------------------------------
(* Message buffer: the invariant, and what each call does to the messages  *)

Senders == {t \in Tasks : msg[t] # Nothing}
Offered == {msg[t] : t \in Tasks} \ {Nothing}

(* The ring holds messages; the tasks in send_queue are those with one to  *)
(* offer, each another; the queues are in order; and nobody waits in vain. *)
MbfInv ==
    /\ priority \in [Tasks -> Pri] /\ msg \in [Tasks -> Msgs \cup {Nothing}]
    /\ \E s : Holds(mbf, s)
    /\ Linked(Tasks, mbf.send_queue, Senders)
    /\ Linked(Tasks, mbf.recv_queue, ToSet(mbf.recv_queue))
    /\ \A t, u \in Senders : msg[t] = msg[u] => t = u
    /\ mbf.tpri => SortedBy(mbf.send_queue, priority)
    /\ NoIdleWait

(* A step of the abstract queue when the ring held s before and v after it *)
QueueStep(s, v) ==
    \/ \E m \in Msgs :
        \/ /\ delivered' = Nothing
           /\ \/ v = s /\ m \notin Offered /\ Offered' = Offered \cup {m}
              \/ v = Append(s, m) /\ Offered' = Offered
        \/ delivered' = m /\ s = <<>> /\ v = <<>> /\ Offered = {} /\ Offered' = {}
        \/ /\ delivered' = m /\ m \in Offered /\ s = <<>>
           /\ Accepted(Offered \ {m}, <<>>, v, Offered')
    \/ s # <<>> /\ delivered' = Head(s) /\ Accepted(Offered, Tail(s), v, Offered')
    \/ /\ delivered' = Nothing
       /\ \E W \in {{}} \cup {{m} : m \in Offered} : Accepted(Offered \ W, s, v, Offered')
    \/ v = <<>> /\ Offered' = {} /\ delivered' = Nothing

LEMMA OfferedIs ==
    ASSUME MbfInv
    PROVE  /\ Offered = MessagesOf(Senders)
           /\ \A t \in Senders : t \in Tasks /\ msg[t] \in Msgs
           /\ Offered = {} <=> Senders = {}
<1>1. \A t \in Senders : t \in Tasks /\ msg[t] \in Msgs
  BY DEF MbfInv, Senders
<1>2. Offered = MessagesOf(Senders)
  BY DEF Offered, MessagesOf, Senders
<1> QED BY <1>1, <1>2 DEF MessagesOf

(* The buffer becomes b, and the priorities become f. *)
MbfTurns(b, m, f) ==
    /\ mbf' = b /\ delivered' = m /\ priority' = f
    /\ msg' = [t \in Tasks |-> IF t \in ToSet(b.send_queue) THEN msg[t] ELSE Nothing]

LEMMA MbfTurnsOK ==
    ASSUME MbfInv, NEW f \in [Tasks -> Pri], NEW b, NEW v, Holds(b, v), NEW D, D \subseteq Senders,
           Linked(Tasks, b.send_queue, D),
           Linked(Tasks, b.recv_queue, ToSet(b.recv_queue)),
           b.tpri => SortedBy(b.send_queue, f),
           Stuck(b), b.recv_queue # <<>> => mbf_empty(b) /\ b.send_queue = <<>>,
           NEW m, MbfTurns(b, m, f)
    PROVE  MbfInv' /\ Holds(mbf', v) /\ Offered' = MessagesOf(D) /\ delivered' = m
<1>1. /\ mbf' = b /\ delivered' = m /\ priority' = f
      /\ msg' = [t \in Tasks |-> IF t \in ToSet(b.send_queue) THEN msg[t] ELSE Nothing]
      /\ msg \in [Tasks -> Msgs \cup {Nothing}]
  BY DEF MbfTurns, MbfInv
<1>2. ToSet(b.send_queue) = D
  BY DEF Linked
<1>3. /\ msg' \in [Tasks -> Msgs \cup {Nothing}]
      /\ \A t \in D : t \in Tasks /\ msg'[t] = msg[t]
      /\ \A t \in Tasks : t \notin D => msg'[t] = Nothing
  BY <1>1, <1>2 DEF Senders
<1>4. Senders' = D
  BY <1>3 DEF Senders
<1>5. \A t, u \in D : msg'[t] = msg'[u] => t = u
  BY <1>3 DEF MbfInv
<1>6. b.send_queue # <<>> => Head(b.send_queue) \in D
  BY HeadLinked
<1>7. NoIdleWait'
  <2>1. b.send_queue # <<>> => ~mbf_free(b, MsgSize[msg'[Head(b.send_queue)]])
    BY <1>3, <1>6 DEF Stuck
  <2> QED BY <1>1, <2>1 DEF NoIdleWait, mbf_empty, mbf_free
<1>8. MbfInv'
  BY <1>1, <1>3, <1>4, <1>5, <1>7 DEF MbfInv
<1>9. Offered' = MessagesOf(D)
  <2>1. Offered' = {msg'[t] : t \in Tasks} \ {Nothing}
    BY DEF Offered
  <2>2. \A t \in D : msg[t] # Nothing
    BY DEF Senders
  <2> QED BY <1>3, <2>1, <2>2 DEF MessagesOf
<1> QED BY <1>1, <1>8, <1>9

LEMMA MbfBecomesOK ==
    ASSUME MbfInv, NEW b, NEW v, Holds(b, v), NEW D, D \subseteq Senders,
           Linked(Tasks, b.send_queue, D),
           Linked(Tasks, b.recv_queue, ToSet(b.recv_queue)),
           b.tpri => SortedBy(b.send_queue, priority),
           Stuck(b), b.recv_queue # <<>> => mbf_empty(b) /\ b.send_queue = <<>>,
           NEW m, MbfBecomes(b, m)
    PROVE  MbfInv' /\ Holds(mbf', v) /\ Offered' = MessagesOf(D) /\ delivered' = m
<1>1. MbfTurns(b, m, priority) /\ priority \in [Tasks -> Pri]
  BY DEF MbfBecomes, MbfTurns, MbfInv
<1> QED BY <1>1, MbfTurnsOK

(* Whatever the buffer held is gone. *)
LEMMA EmptyBuffer_OK ==
    ASSUME MbfInv, NEW s, NEW b \in MBFCB, b.bufsz % 4 = 0, b.frbufsz = b.bufsz,
           b.head = 0, b.tail = 0, b.buffer \in [Words(b.bufsz) -> Content],
           b.send_queue = <<>>, b.recv_queue = <<>>, MbfBecomes(b, Nothing)
    PROVE  MbfInv' /\ \E v : Holds(mbf', v) /\ QueueStep(s, v)
<1>1. Holds(b, <<>>)
  BY EmptyHolds
<1>2. /\ Linked(Tasks, b.send_queue, {}) /\ Stuck(b)
      /\ Linked(Tasks, b.recv_queue, ToSet(b.recv_queue))
      /\ SortedBy(b.send_queue, priority) /\ {} \subseteq Senders
  BY NothingLinked DEF Linked, SortedBy, Stuck
<1>3. MbfInv' /\ Holds(mbf', <<>>) /\ Offered' = MessagesOf({}) /\ delivered' = Nothing
  <2> DEFINE D == {}
  <2>1. /\ Holds(b, <<>>) /\ D \subseteq Senders /\ Linked(Tasks, b.send_queue, D)
        /\ b.tpri => SortedBy(b.send_queue, priority)
        /\ b.recv_queue # <<>> => mbf_empty(b) /\ b.send_queue = <<>>
    BY <1>1, <1>2
  <2> HIDE DEF D
  <2>2. MbfInv' /\ Holds(mbf', <<>>) /\ Offered' = MessagesOf(D) /\ delivered' = Nothing
    BY <1>2, <2>1, MbfBecomesOK
  <2> QED BY <2>2 DEF D
<1>4. QueueStep(s, <<>>)
  BY <1>3 DEF QueueStep, MessagesOf
<1> QED BY <1>3, <1>4

LEMMA NoBuffer ==
    LET ring == [i \in Words(0) |-> <<>>]
    IN  /\ NoMbf \in MBFCB /\ ring \in [Words(0) -> Content]
        /\ NoMbf.bufsz = 0 /\ NoMbf.frbufsz = 0 /\ NoMbf.head = 0 /\ NoMbf.tail = 0
        /\ NoMbf.buffer = ring /\ NoMbf.send_queue = <<>> /\ NoMbf.recv_queue = <<>>
<1> DEFINE ring == [i \in Words(0) |-> <<>>]
<1>1. ring \in [Words(0) -> Content]
  BY DEF Content
<1>2. /\ NoMbf.bufsz = 0 /\ NoMbf.frbufsz = 0 /\ NoMbf.head = 0 /\ NoMbf.tail = 0
      /\ NoMbf.buffer = ring /\ NoMbf.send_queue = <<>> /\ NoMbf.recv_queue = <<>>
  BY DEF NoMbf
<1>3. NoMbf \in MBFCB
  <2>1. NoMbf = [mbfid |-> FALSE, tpri |-> FALSE, bufsz |-> 0, frbufsz |-> 0, head |-> 0,
                 tail |-> 0, buffer |-> ring, send_queue |-> <<>>, recv_queue |-> <<>>]
    BY DEF NoMbf
  <2> HIDE DEF ring
  <2>2. ring \in UNION {[Words(n) -> Content] : n \in Nat} /\ <<>> \in Seq(Tasks)
    BY <1>1
  <2> QED BY <2>1, <2>2 DEF MBFCB
<1> QED BY <1>1, <1>2, <1>3

LEMMA tk_cre_mbf_OK ==
    ASSUME MbfInv, NEW s, NEW tpri \in BOOLEAN, NEW sz \in BufSizes, tk_cre_mbf(tpri, sz)
    PROVE  MbfInv' /\ \E v : Holds(mbf', v) /\ QueueStep(s, v)
<1> DEFINE B == ROUNDSZ(sz)
           ring == [i \in Words(B) |-> <<>>]
           b == [NoMbf EXCEPT !.mbfid = TRUE, !.tpri = tpri, !.bufsz = B, !.frbufsz = B,
                              !.buffer = ring]
<1>1. B \in Nat /\ B % 4 = 0
  BY RoundUp, MessageBufferAssumption
<1>2. MbfBecomes(b, Nothing)
  BY DEF tk_cre_mbf
<1> HIDE DEF B
<1>3. ring \in [Words(B) -> Content]
  BY DEF Content
<1> HIDE DEF ring
<1>4. ring \in UNION {[Words(n) -> Content] : n \in Nat}
  BY <1>1, <1>3
<1>5. /\ NoMbf \in MBFCB /\ NoMbf.head = 0 /\ NoMbf.tail = 0
      /\ NoMbf.send_queue = <<>> /\ NoMbf.recv_queue = <<>>
  BY NoBuffer
<1>6. /\ b \in MBFCB /\ b.bufsz = B /\ b.frbufsz = B /\ b.head = 0 /\ b.tail = 0
      /\ b.buffer = ring /\ b.send_queue = <<>> /\ b.recv_queue = <<>>
  BY <1>1, <1>4, <1>5 DEF MBFCB
<1> HIDE DEF b
<1> QED BY <1>1, <1>2, <1>3, <1>6, EmptyBuffer_OK

LEMMA tk_del_mbf_OK ==
    ASSUME MbfInv, NEW s, tk_del_mbf
    PROVE  MbfInv' /\ \E v : Holds(mbf', v) /\ QueueStep(s, v)
<1>1. MbfBecomes(NoMbf, Nothing) /\ 0 % 4 = 0
  BY DEF tk_del_mbf
<1> QED BY <1>1, NoBuffer, EmptyBuffer_OK

(* Nobody waits to receive while anybody waits to send or a message is     *)
(* stored.                                                                 *)
LEMMA ReceiversWait ==
    ASSUME MbfInv, NEW s, Holds(mbf, s), mbf.recv_queue # <<>>
    PROVE  s = <<>> /\ mbf.send_queue = <<>> /\ Senders = {} /\ Offered = {}
<1>1. mbf_empty(mbf) /\ mbf.send_queue = <<>> /\ Linked(Tasks, mbf.send_queue, Senders)
  BY DEF MbfInv, NoIdleWait
<1>2. Senders = {}
  BY <1>1, EmptyLinked
<1> QED BY <1>1, <1>2, EmptyIs, OfferedIs

LEMMA ToReceiver_OK ==
    ASSUME MbfInv, NEW s, Holds(mbf, s), NEW m \in Msgs, ToReceiver(m)
    PROVE  MbfInv' /\ \E v : Holds(mbf', v) /\ QueueStep(s, v)
<1> DEFINE b == [mbf EXCEPT !.recv_queue = Tail(@)]
           q == mbf.recv_queue
<1>1. /\ s = <<>> /\ mbf.send_queue = <<>> /\ Senders = {} /\ Offered = {}
      /\ q # <<>> /\ MbfBecomes(b, m)
  BY ReceiversWait DEF ToReceiver
<1>2. mbf \in MBFCB /\ Linked(Tasks, q, ToSet(q))
  BY HoldsType DEF MbfInv
<1>3. Linked(Tasks, Tail(q), ToSet(q) \ {Head(q)})
  <2> HIDE DEF q
  <2> QED BY <1>1, <1>2, HeadLinked
<1>4. Tail(q) \in Seq(Tasks) /\ Linked(Tasks, Tail(q), ToSet(Tail(q)))
  BY <1>3 DEF Linked
<1> HIDE DEF q
<1>5. /\ b \in MBFCB /\ b.send_queue = mbf.send_queue /\ b.recv_queue = Tail(q)
      /\ b.tpri = mbf.tpri /\ b.bufsz = mbf.bufsz /\ b.frbufsz = mbf.frbufsz
      /\ b.head = mbf.head /\ b.tail = mbf.tail /\ b.buffer = mbf.buffer
  BY <1>2, <1>4 DEF MBFCB, q
<1> HIDE DEF b
<1>6. Holds(b, s)
  BY <1>5, HoldsSame
<1>7. Stuck(b) /\ Linked(Tasks, b.send_queue, Senders) /\ SortedBy(b.send_queue, priority)
  BY <1>1, <1>5 DEF Stuck, MbfInv, SortedBy
<1>8. mbf_empty(b) /\ b.send_queue = <<>>
  BY <1>1, <1>5, <1>6, EmptyIs
<1>9. MbfInv' /\ Holds(mbf', s) /\ Offered' = MessagesOf(Senders) /\ delivered' = m
  BY <1>1, <1>4, <1>5, <1>6, <1>7, <1>8, MbfBecomesOK
<1>10. QueueStep(s, s)
  BY <1>1, <1>9, OfferedIs DEF QueueStep
<1> QED BY <1>9, <1>10

LEMMA ToBuffer_OK ==
    ASSUME MbfInv, NEW s, Holds(mbf, s), NEW m \in Msgs, ToBuffer(m)
    PROVE  MbfInv' /\ \E v : Holds(mbf', v) /\ QueueStep(s, v)
<1> DEFINE b == msg_to_mbf(mbf, m)
           v == Append(s, m)
           q == mbf.send_queue
<1>1. mbf.recv_queue = <<>> /\ mbf_free(mbf, MsgSize[m]) /\ MbfBecomes(b, Nothing)
  BY DEF ToBuffer
<1>2. /\ Holds(b, v) /\ b.tpri = mbf.tpri /\ b.send_queue = q
      /\ b.recv_queue = mbf.recv_queue /\ b.frbufsz < mbf.frbufsz
  BY <1>1, MessageStored
<1> HIDE DEF b, v
<1>3. /\ Linked(Tasks, b.send_queue, Senders) /\ (b.tpri => SortedBy(b.send_queue, priority))
      /\ Linked(Tasks, b.recv_queue, ToSet(b.recv_queue)) /\ b.recv_queue = <<>>
  BY <1>1, <1>2 DEF MbfInv
<1>4. Stuck(b)
  <2> SUFFICES ASSUME q # <<>>
               PROVE  ~mbf_free(b, MsgSize[msg[Head(q)]])
    BY <1>2 DEF Stuck
  <2> DEFINE sz == MsgSize[msg[Head(q)]]
  <2>1. Head(q) \in Senders /\ ~mbf_free(mbf, sz)
    BY HeadLinked DEF MbfInv, NoIdleWait
  <2>2. sz \in Nat
    BY <2>1, OfferedIs, LengthIs
  <2>3. mbf.frbufsz \in Nat /\ b.frbufsz \in Nat /\ HEADERSZ = 4
    BY <1>2, HoldsType DEF HEADERSZ
  <2> HIDE DEF sz
  <2>4. ~mbf_free(b, sz)
    BY <1>2, <2>1, <2>2, <2>3 DEF mbf_free
  <2> QED BY <2>4 DEF sz
<1>5. MbfInv' /\ Holds(mbf', v) /\ Offered' = MessagesOf(Senders) /\ delivered' = Nothing
  BY <1>1, <1>2, <1>3, <1>4, MbfBecomesOK
<1>6. QueueStep(s, v)
  BY <1>5, OfferedIs DEF QueueStep, v
<1> QED BY <1>5, <1>6

LEMMA SendFromHandler_OK ==
    ASSUME MbfInv, NEW s, Holds(mbf, s), NEW m \in Msgs, SendFromHandler(m)
    PROVE  MbfInv' /\ \E v : Holds(mbf', v) /\ QueueStep(s, v)
<1>1. CASE ToReceiver(m)
  BY <1>1, ToReceiver_OK
<1>2. CASE ToBuffer(m)
  BY <1>2, ToBuffer_OK
<1> QED BY <1>1, <1>2 DEF SendFromHandler

(* The sender waits: it is not the first, or its message does not fit.     *)
LEMMA tk_snd_mbf_OK ==
    ASSUME MbfInv, NEW s, Holds(mbf, s), NEW t \in Tasks, NEW m \in Msgs, tk_snd_mbf(t, m)
    PROVE  MbfInv' /\ \E v : Holds(mbf', v) /\ QueueStep(s, v)
<1> DEFINE q == mbf.send_queue
           r == gcb_make_wait(q, t, priority, mbf.tpri)
           b == [mbf EXCEPT !.send_queue = r]
           Waits1 == /\ mbf.recv_queue = <<>> /\ ~(MayStore(t) /\ mbf_free(mbf, MsgSize[m]))
                     /\ mbf' = b /\ msg' = [msg EXCEPT ![t] = m]
                     /\ delivered' = Nothing /\ priority' = priority
<1>1. CASE ToReceiver(m)
  BY <1>1, ToReceiver_OK
<1>2. CASE ToBuffer(m)
  BY <1>2, ToBuffer_OK
<1>3. CASE Waits1
  <2>1. /\ priority \in [Tasks -> Pri] /\ msg \in [Tasks -> Msgs \cup {Nothing}]
        /\ Linked(Tasks, q, Senders) /\ mbf \in MBFCB /\ mbf.tpri \in BOOLEAN
        /\ mbf.tpri => SortedBy(q, priority)
        /\ \A u, w \in Senders : msg[u] = msg[w] => u = w
        /\ m # Nothing
    BY HoldsType, MessageBufferAssumption DEF MbfInv
  <2>2. t \in Tasks \ Senders /\ \A u \in Tasks : msg[u] # m
    BY <2>1 DEF tk_snd_mbf, Sending, Linked, InUse
  <2> HIDE DEF q
  <2>3. Linked(Tasks, r, Senders \cup {t}) /\ (mbf.tpri => SortedBy(r, priority))
    BY <2>1, <2>2, MakeWait
  <2>4. r[1] = gcb_top_of_wait_queue(q, t, priority, mbf.tpri)
    BY <2>1, TopOfWaitQueue DEF Linked
  <2> HIDE DEF r
  <2>5. /\ b \in MBFCB /\ b.send_queue = r /\ b.recv_queue = mbf.recv_queue
        /\ b.tpri = mbf.tpri /\ b.bufsz = mbf.bufsz /\ b.frbufsz = mbf.frbufsz
        /\ b.head = mbf.head /\ b.tail = mbf.tail /\ b.buffer = mbf.buffer
    BY <2>1, <2>3 DEF MBFCB, Linked
  <2>6. Holds(b, s)
    BY <2>5, HoldsSame
  <2> HIDE DEF b
  <2>7. /\ mbf' = b /\ msg' = [msg EXCEPT ![t] = m] /\ delivered' = Nothing
        /\ priority' = priority /\ mbf.recv_queue = <<>>
        /\ ~(MayStore(t) /\ mbf_free(mbf, MsgSize[m]))
    BY <1>3
  <2>8. /\ msg' \in [Tasks -> Msgs \cup {Nothing}] /\ msg'[t] = m
        /\ \A u \in Tasks : u # t => msg'[u] = msg[u]
    BY <2>1, <2>7
  <2>9. Senders' = Senders \cup {t}
    BY <2>1, <2>8 DEF Senders
  <2>10. \A u, w \in Senders \cup {t} : msg'[u] = msg'[w] => u = w
    <3>1. \A u \in Senders : u \in Tasks /\ u # t
      BY <2>2 DEF Senders
    <3> QED BY <2>1, <2>2, <2>8, <3>1
  <2>11. Head(r) = r[1] /\ r # <<>>
    <3>1. r # <<>> /\ r \in Seq(Tasks)
      BY <2>3, EmptyLinked DEF Linked
    <3> QED BY <3>1
  <2>12. ~mbf_free(b, MsgSize[msg'[Head(r)]])
    <3>1. \A sz : mbf_free(b, sz) <=> mbf_free(mbf, sz)
      BY <2>5 DEF mbf_free
    <3>2. CASE MayStore(t)
      <4>1. Head(r) = t
        BY <2>4, <2>11, <3>2 DEF MayStore, q
      <4> QED BY <2>7, <2>8, <3>1, <3>2, <4>1
    <3>3. CASE ~MayStore(t)
      <4>1. q # <<>> /\ Head(r) = Head(q)
        BY <2>4, <2>11, <3>3 DEF MayStore, q, gcb_top_of_wait_queue
      <4>2. Head(q) \in Senders /\ ~mbf_free(mbf, MsgSize[msg[Head(q)]])
        BY <2>1, <4>1, HeadLinked DEF MbfInv, NoIdleWait, q
      <4>3. msg'[Head(q)] = msg[Head(q)]
        BY <2>2, <2>8, <4>2 DEF Senders
      <4> QED BY <3>1, <4>1, <4>2, <4>3
    <3> QED BY <3>2, <3>3
  <2>13. NoIdleWait'
    <3>1. b.recv_queue = <<>> /\ b.send_queue = r
      BY <2>5, <2>7
    <3> QED BY <2>7, <2>12, <3>1 DEF NoIdleWait, mbf_free
  <2>14. MbfInv'
    <3>1. Linked(Tasks, b.recv_queue, ToSet(b.recv_queue))
      BY <2>5 DEF MbfInv
    <3> QED BY <2>1, <2>3, <2>5, <2>6, <2>7, <2>8, <2>9, <2>10, <2>13, <3>1 DEF MbfInv
  <2>15. Offered' = Offered \cup {m} /\ m \notin Offered
    <3>1. Offered = {msg[u] : u \in Tasks} \ {Nothing}
      BY DEF Offered
    <3>2. Offered' = {msg'[u] : u \in Tasks} \ {Nothing}
      BY DEF Offered
    <3>3. msg[t] = Nothing
      BY <2>2 DEF Senders
    <3> QED BY <2>1, <2>2, <2>8, <3>1, <3>2, <3>3
  <2>16. QueueStep(s, s)
    BY <2>7, <2>15 DEF QueueStep
  <2> QED BY <2>6, <2>7, <2>14, <2>16
<1> QED BY <1>1, <1>2, <1>3 DEF tk_snd_mbf

-----------------------------------------------------------------------------
(* Message buffer: the calls that end with mbf_wakeup                      *)

LEMMA mbf_wakeup_OK ==
    ASSUME MbfInv, NEW f \in [Tasks -> Pri], NEW b, NEW s, Holds(b, s),
           NEW A, A \subseteq Senders, Linked(Tasks, b.send_queue, A),
           b.tpri => SortedBy(b.send_queue, f), b.recv_queue = <<>>,
           NEW m, MbfTurns(mbf_wakeup(b), m, f)
    PROVE  /\ MbfInv' /\ delivered' = m
           /\ \E v : Holds(mbf', v) /\ Accepted(MessagesOf(A), s, v, Offered')
<1> DEFINE y == mbf_wakeup(b)
<1>1. /\ \A t \in A : msg[t] \in Msgs
      /\ \A t, u \in A : msg[t] = msg[u] => t = u
  BY OfferedIs DEF MbfInv
<1>2. PICK v, D : AfterWakeup(b, s, A, y, v, D)
  BY <1>1, mbf_wakeupAccepts
<1> HIDE DEF y
<1>3. /\ D \subseteq Senders /\ (y.tpri => SortedBy(y.send_queue, f))
      /\ y.recv_queue = <<>> /\ Linked(Tasks, y.recv_queue, ToSet(y.recv_queue))
  BY <1>2, NothingLinked DEF AfterWakeup, Linked
<1>4. MbfTurns(y, m, f)
  BY DEF y
<1>5. MbfInv' /\ Holds(mbf', v) /\ Offered' = MessagesOf(D) /\ delivered' = m
  BY <1>2, <1>3, <1>4, MbfTurnsOK DEF AfterWakeup
<1> QED BY <1>2, <1>5 DEF AfterWakeup

(* Nothing is accepted. *)
LEMMA NothingAccepted ==
    ASSUME NEW s \in Seq(Msgs), NEW P
    PROVE  Accepted(P, s, s, P)
<1> DEFINE n == Len(s)
<1>1. n \in Nat /\ \A i \in 1 .. n : s[i] \in Msgs
  BY PlacesOf
<1>2. SubSeq(s, n + 1, n) = <<>>
  BY <1>1, SubSeqEmpty
<1>3. ToSet(<<>>) = {} /\ IsInjective(<<>>)
  BY DEF ToSet, IsInjective
<1>4. IsPrefix(s, s)
  BY <1>1 DEF IsPrefix
<1> QED BY <1>2, <1>3, <1>4 DEF Accepted

(* The offers without that of t *)
LEMMA OffersWithout ==
    ASSUME MbfInv, NEW t \in Senders
    PROVE  /\ msg[t] \in Msgs /\ msg[t] \in Offered
           /\ MessagesOf(Senders \ {t}) = Offered \ {msg[t]}
  BY OfferedIs DEF MessagesOf, MbfInv

LEMMA tk_rcv_mbf_OK ==
    ASSUME MbfInv, NEW s, Holds(mbf, s), NEW t \in Tasks, tk_rcv_mbf(t)
    PROVE  MbfInv' /\ \E v : Holds(mbf', v) /\ QueueStep(s, v)
<1> DEFINE q == mbf.send_queue
           w == mbf.recv_queue
<1>1. /\ mbf \in MBFCB /\ q \in Seq(Tasks) /\ s \in Seq(Msgs) /\ priority \in [Tasks -> Pri]
      /\ Linked(Tasks, q, Senders) /\ Linked(Tasks, w, ToSet(w))
      /\ mbf.tpri => SortedBy(q, priority)
  BY HoldsType DEF MbfInv
<1>2. \A b, m : MbfBecomes(b, m) => MbfTurns(b, m, priority)
  BY DEF MbfBecomes, MbfTurns
<1>3. CASE ~mbf_empty(mbf) /\ MbfBecomes(mbf_wakeup(mbf_to_msg(mbf)), MessageAt(mbf, mbf.head))
  <2> DEFINE b == mbf_to_msg(mbf)
             m == MessageAt(mbf, mbf.head)
  <2>1. s # <<>> /\ w = <<>>
    BY <1>3, EmptyIs DEF MbfInv, NoIdleWait
  <2>2. /\ m = Head(s) /\ Holds(b, Tail(s)) /\ b.tpri = mbf.tpri
        /\ b.send_queue = q /\ b.recv_queue = w
    BY <2>1, MessageTaken
  <2>3. MbfTurns(mbf_wakeup(b), m, priority)
    BY <1>2, <1>3
  <2> HIDE DEF b, m, q, w
  <2>4. /\ Senders \subseteq Senders /\ Linked(Tasks, b.send_queue, Senders)
        /\ b.tpri => SortedBy(b.send_queue, priority)
        /\ b.recv_queue = <<>>
    BY <1>1, <2>1, <2>2
  <2>5. /\ MbfInv' /\ delivered' = m
        /\ \E v : Holds(mbf', v) /\ Accepted(MessagesOf(Senders), Tail(s), v, Offered')
    BY <1>1, <2>2, <2>3, <2>4, mbf_wakeup_OK
  <2>6. PICK v : Holds(mbf', v) /\ Accepted(MessagesOf(Senders), Tail(s), v, Offered')
    BY <2>5
  <2>7. QueueStep(s, v)
    BY <2>1, <2>2, <2>5, <2>6, OfferedIs DEF QueueStep
  <2> QED BY <2>5, <2>6, <2>7
<1>4. CASE /\ mbf_empty(mbf) /\ q # <<>>
           /\ MbfBecomes(mbf_wakeup([mbf EXCEPT !.send_queue = Tail(@)]), msg[Head(q)])
  <2> DEFINE b == [mbf EXCEPT !.send_queue = Tail(q)]
             top == Head(q)
             A == Senders \ {top}
  <2>1. w = <<>> /\ s = <<>>
    BY <1>4, EmptyIs DEF MbfInv, NoIdleWait
  <2>2. MbfTurns(mbf_wakeup(b), msg[top], priority)
    BY <1>2, <1>4
  <2> HIDE DEF q, w, A
  <2>3. top \in Senders /\ Linked(Tasks, Tail(q), A)
    BY <1>1, <1>4, HeadLinked DEF A
  <2>4. mbf.tpri => SortedBy(Tail(q), priority)
    BY <1>1, <1>4, TailInOrder
  <2>5. /\ b \in MBFCB /\ b.send_queue = Tail(q) /\ b.recv_queue = w /\ b.tpri = mbf.tpri
        /\ b.bufsz = mbf.bufsz /\ b.frbufsz = mbf.frbufsz /\ b.head = mbf.head
        /\ b.tail = mbf.tail /\ b.buffer = mbf.buffer
    BY <1>1, <2>3 DEF MBFCB, Linked, w
  <2> HIDE DEF b, top
  <2>6. /\ Holds(b, s) /\ A \subseteq Senders /\ Linked(Tasks, b.send_queue, A)
        /\ b.tpri => SortedBy(b.send_queue, priority)
        /\ b.recv_queue = <<>>
    BY <2>1, <2>3, <2>4, <2>5, HoldsSame DEF A
  <2>7. /\ MbfInv' /\ delivered' = msg[top]
        /\ \E v : Holds(mbf', v) /\ Accepted(MessagesOf(A), s, v, Offered')
    BY <1>1, <2>2, <2>6, mbf_wakeup_OK
  <2>8. PICK v : Holds(mbf', v) /\ Accepted(MessagesOf(A), s, v, Offered')
    BY <2>7
  <2>9. QueueStep(s, v)
    BY <2>1, <2>3, <2>7, <2>8, OffersWithout DEF QueueStep, A
  <2> QED BY <2>7, <2>8, <2>9
<1>5. CASE /\ mbf_empty(mbf) /\ q = <<>>
           /\ MbfBecomes([mbf EXCEPT !.recv_queue = Append(@, t)], Nothing)
  <2> DEFINE r == Append(w, t)
             b == [mbf EXCEPT !.recv_queue = r]
  <2>1. Linked(Tasks, r, ToSet(w) \cup {t})
    <3>1. t \in Tasks \ ToSet(w)
      BY DEF tk_rcv_mbf, Receiving
    <3> HIDE DEF w
    <3> QED BY <1>1, <3>1, AppendLinked
  <2>2. r \in Seq(Tasks) /\ Linked(Tasks, r, ToSet(r))
    BY <2>1 DEF Linked
  <2>3. MbfBecomes(b, Nothing)
    BY <1>5
  <2> HIDE DEF q, r
  <2>4. /\ b \in MBFCB /\ b.send_queue = q /\ b.recv_queue = r /\ b.tpri = mbf.tpri
        /\ b.bufsz = mbf.bufsz /\ b.frbufsz = mbf.frbufsz /\ b.head = mbf.head
        /\ b.tail = mbf.tail /\ b.buffer = mbf.buffer
    BY <1>1, <2>2 DEF MBFCB, q
  <2> HIDE DEF b
  <2>5. /\ Holds(b, s) /\ Senders \subseteq Senders /\ Linked(Tasks, b.send_queue, Senders)
        /\ Linked(Tasks, b.recv_queue, ToSet(b.recv_queue))
        /\ b.tpri => SortedBy(b.send_queue, priority)
    BY <1>1, <2>2, <2>4, HoldsSame
  <2>6. Stuck(b) /\ mbf_empty(b) /\ b.send_queue = <<>>
    BY <1>5, <2>4 DEF Stuck, mbf_empty
  <2>7. MbfInv' /\ Holds(mbf', s) /\ Offered' = MessagesOf(Senders) /\ delivered' = Nothing
    BY <2>3, <2>5, <2>6, MbfBecomesOK
  <2>8. QueueStep(s, s)
    <3>1. Accepted(Offered \ {}, s, s, Offered')
      BY <1>1, <2>7, OfferedIs, NothingAccepted
    <3> QED BY <2>7, <3>1 DEF QueueStep
  <2> QED BY <2>7, <2>8
<1> QED BY <1>3, <1>4, <1>5 DEF tk_rcv_mbf

LEMMA EndMbfWait_OK ==
    ASSUME MbfInv, NEW s, Holds(mbf, s), NEW t \in Tasks, EndMbfWait(t)
    PROVE  MbfInv' /\ \E v : Holds(mbf', v) /\ QueueStep(s, v)
<1> DEFINE q == mbf.send_queue
           w == mbf.recv_queue
           A == Senders \ {t}
<1>1. /\ mbf \in MBFCB /\ s \in Seq(Msgs) /\ priority \in [Tasks -> Pri]
      /\ Linked(Tasks, q, Senders) /\ Linked(Tasks, w, ToSet(w))
      /\ mbf.tpri => SortedBy(q, priority)
  BY HoldsType DEF MbfInv
<1>2. \A b, m : MbfBecomes(b, m) => MbfTurns(b, m, priority)
  BY DEF MbfBecomes, MbfTurns
<1>3. CASE /\ Sending(t)
           /\ MbfBecomes(Resend([mbf EXCEPT !.send_queue = RemoveFirst(@, t)]), Nothing)
  <2> DEFINE r == RemoveFirst(q, t)
             b == [mbf EXCEPT !.send_queue = r]
  <2>1. t \in Senders /\ q # <<>>
    <3>1. t \in Senders
      BY <1>1, <1>3 DEF Sending, Linked
    <3> QED BY <1>1, <3>1, EmptyLinked
  <2>2. w = <<>>
    BY <2>1 DEF MbfInv, NoIdleWait
  <2>3. MbfTurns(mbf_wakeup(b), Nothing, priority)
    BY <1>2, <1>3 DEF Resend
  <2> HIDE DEF q, w
  <2>4. /\ Linked(Tasks, r, A) /\ r \in Seq(Tasks)
        /\ \A f : SortedBy(q, f) => SortedBy(r, f)
    BY <1>1, LeaveQueue DEF InOrderOf, Linked
  <2> HIDE DEF r, A
  <2>5. /\ b \in MBFCB /\ b.send_queue = r /\ b.recv_queue = w /\ b.tpri = mbf.tpri
        /\ b.bufsz = mbf.bufsz /\ b.frbufsz = mbf.frbufsz /\ b.head = mbf.head
        /\ b.tail = mbf.tail /\ b.buffer = mbf.buffer
    BY <1>1, <2>4 DEF MBFCB, w
  <2> HIDE DEF b
  <2>6. /\ Holds(b, s) /\ A \subseteq Senders /\ Linked(Tasks, b.send_queue, A)
        /\ b.tpri => SortedBy(b.send_queue, priority)
        /\ b.recv_queue = <<>>
    BY <1>1, <2>2, <2>4, <2>5, HoldsSame DEF A
  <2>7. /\ MbfInv' /\ delivered' = Nothing
        /\ \E v : Holds(mbf', v) /\ Accepted(MessagesOf(A), s, v, Offered')
    BY <1>1, <2>3, <2>6, mbf_wakeup_OK
  <2>8. PICK v : Holds(mbf', v) /\ Accepted(MessagesOf(A), s, v, Offered')
    BY <2>7
  <2>9. QueueStep(s, v)
    <3>1. msg[t] \in Offered /\ MessagesOf(A) = Offered \ {msg[t]}
      BY <2>1, OffersWithout DEF A
    <3>2. {msg[t]} \in {{}} \cup {{m} : m \in Offered}
      BY <3>1
    <3> QED BY <2>7, <2>8, <3>1, <3>2 DEF QueueStep
  <2> QED BY <2>7, <2>8, <2>9
<1>4. CASE /\ Receiving(t)
           /\ MbfBecomes([mbf EXCEPT !.recv_queue = RemoveFirst(@, t)], Nothing)
  <2> DEFINE r == RemoveFirst(w, t)
             b == [mbf EXCEPT !.recv_queue = r]
  <2>1. w # <<>>
    <3>1. ToSet(w) # {}
      BY <1>4 DEF Receiving
    <3> HIDE DEF w
    <3> QED BY <1>1, <3>1, EmptyLinked
  <2>2. mbf_empty(mbf) /\ q = <<>>
    BY <2>1 DEF MbfInv, NoIdleWait
  <2>3. MbfBecomes(b, Nothing)
    BY <1>4
  <2> HIDE DEF q, w
  <2>4. r \in Seq(Tasks) /\ Linked(Tasks, r, ToSet(r))
    <3>1. Linked(Tasks, r, ToSet(w) \ {t})
      BY <1>1, LeaveQueue
    <3> QED BY <3>1 DEF Linked
  <2> HIDE DEF r
  <2>5. /\ b \in MBFCB /\ b.send_queue = q /\ b.recv_queue = r /\ b.tpri = mbf.tpri
        /\ b.bufsz = mbf.bufsz /\ b.frbufsz = mbf.frbufsz /\ b.head = mbf.head
        /\ b.tail = mbf.tail /\ b.buffer = mbf.buffer
    BY <1>1, <2>4 DEF MBFCB, q
  <2> HIDE DEF b
  <2>6. /\ Holds(b, s) /\ Senders \subseteq Senders /\ Linked(Tasks, b.send_queue, Senders)
        /\ Linked(Tasks, b.recv_queue, ToSet(b.recv_queue))
        /\ b.tpri => SortedBy(b.send_queue, priority)
    BY <1>1, <2>4, <2>5, HoldsSame
  <2>7. Stuck(b) /\ mbf_empty(b) /\ b.send_queue = <<>>
    BY <2>2, <2>5 DEF Stuck, mbf_empty
  <2>8. MbfInv' /\ Holds(mbf', s) /\ Offered' = MessagesOf(Senders) /\ delivered' = Nothing
    BY <2>3, <2>6, <2>7, MbfBecomesOK
  <2>9. QueueStep(s, s)
    <3>1. Accepted(Offered \ {}, s, s, Offered')
      BY <1>1, <2>8, OfferedIs, NothingAccepted
    <3> QED BY <2>8, <3>1 DEF QueueStep
  <2> QED BY <2>8, <2>9
<1> QED BY <1>3, <1>4 DEF EndMbfWait

LEMMA mbf_chg_pri_OK ==
    ASSUME MbfInv, NEW s, Holds(mbf, s), NEW t \in Tasks, NEW p \in Pri, mbf_chg_pri(t, p)
    PROVE  MbfInv' /\ \E v : Holds(mbf', v) /\ QueueStep(s, v)
<1> DEFINE q == mbf.send_queue
           w == mbf.recv_queue
           f == [priority EXCEPT ![t] = p]
           r == gcb_change_priority(q, t, f)
           b == [mbf EXCEPT !.send_queue = r]
<1>1. /\ mbf \in MBFCB /\ s \in Seq(Msgs) /\ priority \in [Tasks -> Pri]
      /\ Linked(Tasks, q, Senders) /\ Linked(Tasks, w, ToSet(w))
      /\ mbf.tpri => SortedBy(q, priority)
  BY HoldsType DEF MbfInv
<1>2. f \in [Tasks -> Pri] /\ \A u \in Tasks \ {t} : f[u] = priority[u]
  BY <1>1
<1>3. /\ priority' = f /\ delivered' = Nothing
      /\ \/ /\ Sending(t) /\ mbf.tpri /\ mbf' = Resend(b)
            /\ msg' = [u \in Tasks |->
                         IF u \in ToSet(Resend(b).send_queue) THEN msg[u] ELSE Nothing]
         \/ ~(Sending(t) /\ mbf.tpri) /\ msg' = msg /\ mbf' = mbf
  BY DEF mbf_chg_pri
<1> HIDE DEF f
<1>4. CASE Sending(t) /\ mbf.tpri /\ MbfTurns(Resend(b), Nothing, f)
  <2>1. t \in Senders /\ q # <<>>
    <3>1. t \in Senders
      BY <1>1, <1>4 DEF Sending, Linked
    <3> QED BY <1>1, <3>1, EmptyLinked
  <2>2. w = <<>>
    BY <2>1 DEF MbfInv, NoIdleWait
  <2> HIDE DEF q, w
  <2>3. Linked(Tasks, r, Senders) /\ SortedBy(r, f) /\ r \in Seq(Tasks)
    <3>1. Linked(Tasks, r, Senders) /\ SortedBy(r, f)
      BY <1>1, <1>2, <1>4, <2>1, ChangePriority
    <3> QED BY <3>1 DEF Linked
  <2> HIDE DEF r
  <2>4. /\ b \in MBFCB /\ b.send_queue = r /\ b.recv_queue = w /\ b.tpri = mbf.tpri
        /\ b.bufsz = mbf.bufsz /\ b.frbufsz = mbf.frbufsz /\ b.head = mbf.head
        /\ b.tail = mbf.tail /\ b.buffer = mbf.buffer
    BY <1>1, <2>3 DEF MBFCB, w
  <2> HIDE DEF b
  <2>5. /\ Holds(b, s) /\ Senders \subseteq Senders /\ Linked(Tasks, b.send_queue, Senders)
        /\ b.tpri => SortedBy(b.send_queue, f)
        /\ b.recv_queue = <<>> /\ MbfTurns(mbf_wakeup(b), Nothing, f)
    BY <1>4, <2>2, <2>3, <2>4, HoldsSame DEF Resend
  <2>6. /\ MbfInv' /\ delivered' = Nothing
        /\ \E v : Holds(mbf', v) /\ Accepted(MessagesOf(Senders), s, v, Offered')
    BY <1>2, <2>5, mbf_wakeup_OK
  <2>7. PICK v : Holds(mbf', v) /\ Accepted(MessagesOf(Senders), s, v, Offered')
    BY <2>6
  <2>8. QueueStep(s, v)
    <3>1. Accepted(Offered \ {}, s, v, Offered')
      BY <2>7, OfferedIs
    <3> QED BY <2>6, <3>1 DEF QueueStep
  <2> QED BY <2>6, <2>7, <2>8
<1>5. CASE ~(Sending(t) /\ mbf.tpri) /\ msg' = msg /\ mbf' = mbf
  <2>1. mbf.tpri => SortedBy(q, f)
    <3> SUFFICES ASSUME mbf.tpri PROVE SortedBy(q, f)
      OBVIOUS
    <3>1. \A i \in 1 .. Len(q) : q[i] \in Tasks \ {t}
      <4>1. t \notin ToSet(q)
        BY <1>5 DEF Sending
      <4> HIDE DEF q
      <4> QED BY <1>1, <4>1, PlacesOf DEF Linked
    <3> HIDE DEF q
    <3> QED BY <1>1, <1>2, <3>1 DEF SortedBy, q
  <2>2. Senders' = Senders /\ Offered' = Offered
    BY <1>5 DEF Senders, Offered
  <2>3. MbfInv'
    BY <1>1, <1>2, <1>3, <1>5, <2>1, <2>2 DEF MbfInv, NoIdleWait
  <2>4. QueueStep(s, s)
    <3>1. Accepted(Offered \ {}, s, s, Offered')
      BY <1>1, <2>2, NothingAccepted
    <3> QED BY <1>3, <3>1 DEF QueueStep
  <2> QED BY <1>5, <2>3, <2>4
<1> QED BY <1>3, <1>4, <1>5 DEF MbfTurns

-----------------------------------------------------------------------------
(* Message buffer: what Stored finds                                       *)

(* The state of the search after i messages of s, which lie at off *)
FoundAt(s, off, i) ==
    [at    |-> Place(mbf.bufsz, mbf.head + off[i + 1]),
     words |-> off[Len(s) + 1] - off[i + 1],
     list  |-> SubSeq(s, 1, i)]

Atmost(i, n) == IF i < n THEN i ELSE n

LEMMA MessageAtType ==
    ASSUME NEW b, NEW at
    PROVE  MessageAt(b, at) \in Msgs \cup {Nothing}
<1> DEFINE text == Wrapped(b, at + HEADERSZ)
           M == {m \in Msgs : /\ b.buffer[at] = <<MsgSize[m]>>
                              /\ \A k \in Words(MsgSize[m]) :
                                    b.buffer[PlaceOf(b, text, MsgSize[m], k)] = <<m, k>>}
<1>1. MessageAt(b, at) = IF M = {} THEN Nothing ELSE CHOOSE m \in M : TRUE
  BY DEF MessageAt
<1>2. M \subseteq Msgs
  OBVIOUS
<1> HIDE DEF M
<1> QED BY <1>1, <1>2

(* A message has a header of 4 bytes, so that no more fit than are tried.  *)
LEMMA FewMessages ==
    ASSUME NEW b, NEW s, NEW off, Holds(b, s), HoldsAt(b, s, off)
    PROVE  Len(s) <= b.bufsz \div HEADERSZ
<1> DEFINE n == Len(s)
           T == {i \in Nat : i <= n => off[i + 1] >= 4 * i}
<1>1. /\ n \in Nat /\ s \in Seq(Msgs) /\ off \in [1 .. n + 1 -> Nat] /\ off[1] = 0
      /\ off[n + 1] = b.bufsz - b.frbufsz
      /\ \A i \in 1 .. n : off[i + 1] = off[i] + Length(s[i])
  BY PlacesOf DEF HoldsAt, Holds
<1>2. 0 \in T
  BY <1>1
<1>3. ASSUME NEW i \in Nat, i \in T PROVE i + 1 \in T
  <2> SUFFICES ASSUME i + 1 <= n PROVE off[i + 1 + 1] >= 4 * (i + 1)
    OBVIOUS
  <2>1. i + 1 \in 1 .. n /\ i + 1 \in 1 .. n + 1 /\ i <= n /\ s[i + 1] \in Msgs
    BY <1>1
  <2>2. off[i + 1 + 1] = off[i + 1] + Length(s[i + 1]) /\ off[i + 1] >= 4 * i
    BY <1>1, <1>3, <2>1
  <2>3. Length(s[i + 1]) \in Nat /\ Length(s[i + 1]) >= 4 /\ off[i + 1] \in Nat
    BY <1>1, <2>1, LengthIs
  <2> QED BY <2>2, <2>3
<1>4. n \in T
  <2> HIDE DEF T, n
  <2> QED BY <1>1, <1>2, <1>3, Induction
<1>5. 4 * n <= off[n + 1]
  BY <1>1, <1>4
<1>6. b.bufsz \in Nat /\ b.frbufsz \in Nat /\ HEADERSZ = 4
  BY HoldsType DEF HEADERSZ
<1> HIDE DEF n
<1>7. 4 * n <= b.bufsz
  BY <1>1, <1>5, <1>6
<1>8. n <= b.bufsz \div 4
  BY <1>1, <1>6, <1>7
<1> QED BY <1>6, <1>8 DEF n

(* One step of the search *)
LEMMA NextFound ==
    ASSUME NEW s, NEW off, Holds(mbf, s), HoldsAt(mbf, s, off), NEW i \in 0 .. Len(s)
    PROVE  /\ FoundAt(s, off, i) \in [at : Nat, words : Nat, list : Seq(Msgs)]
           /\ i < Len(s) => NextStored[FoundAt(s, off, i)] = FoundAt(s, off, i + 1)
           /\ i = Len(s) => NextStored[FoundAt(s, off, i)] = FoundAt(s, off, i)
<1> DEFINE n == Len(s)
           B == mbf.bufsz
           h == mbf.head
           o == off[i + 1]
           u == off[n + 1]
           x == FoundAt(s, off, i)
           m == MessageAt(mbf, x.at)
           size == HEADERSZ + ROUNDSZ(MsgSize[m])
           R == [at : Nat, words : Nat, list : Seq(Msgs)]
<1>1. /\ n \in Nat /\ s \in Seq(Msgs) /\ off \in [1 .. n + 1 -> Nat] /\ off[1] = 0
      /\ u = B - mbf.frbufsz
      /\ \A k \in 1 .. n : off[k] % 4 = 0 /\ off[k + 1] = off[k] + Length(s[k])
                           /\ LiesAt(mbf, off[k], s[k])
      /\ \A k, l \in 1 .. n + 1 : k <= l => off[k] <= off[l]
  BY PlacesOf DEF HoldsAt, Holds
<1>2. /\ Ring(mbf) /\ B \in Nat /\ h \in Nat /\ (h < B \/ h = 0)
      /\ mbf.frbufsz \in Nat /\ mbf.frbufsz <= B
  BY DEF Holds, Ring, MBFCB
<1>3. i + 1 \in 1 .. n + 1 /\ n + 1 \in 1 .. n + 1 /\ i + 1 <= n + 1 /\ i \in Nat
  BY <1>1
<1>4. o \in Nat /\ u \in Nat /\ o <= u /\ u - o \in Nat /\ u <= B
  <2>1. o \in Nat /\ u \in Nat /\ o <= u
    BY <1>1, <1>3
  <2> HIDE DEF o, u
  <2> QED BY <1>1, <1>2, <2>1
<1>5. SubSeq(s, 1, i) \in Seq(Msgs) /\ Len(SubSeq(s, 1, i)) = i
  <2>1. \A k \in 1 .. i : s[k] \in Msgs
    BY <1>1
  <2>2. IF 1 <= i THEN i - 1 + 1 = i ELSE 0 = i
    BY <1>3
  <2> QED BY <1>3, <2>1, <2>2, SubSeqProperties
<1>6. Place(B, h + o) \in Nat
  <2> HIDE DEF o, u, B, h
  <2> QED BY <1>2, <1>4 DEF Place
<1>7. x = [at |-> Place(B, h + o), words |-> u - o, list |-> SubSeq(s, 1, i)]
  BY DEF FoundAt
<1> HIDE DEF o, u, B, h, n
<1>8. x \in R /\ x.at = Place(B, h + o) /\ x.words = u - o /\ x.list = SubSeq(s, 1, i)
  BY <1>4, <1>5, <1>6, <1>7
<1> HIDE DEF x
<1>9. NextStored[x] =
        IF m = Nothing \/ x.words < size THEN x
        ELSE [at |-> AfterCopy(mbf, Wrapped(mbf, x.at + HEADERSZ), MsgSize[m]),
              words |-> x.words - size, list |-> Append(x.list, m)]
  BY <1>8 DEF NextStored
<1> HIDE DEF m
<1>10. ASSUME i < n
       PROVE  NextStored[x] = FoundAt(s, off, i + 1)
  <2> DEFINE c == s[i + 1]
             p == off[i + 1 + 1]
  <2>1. i + 1 \in 1 .. n /\ i + 1 + 1 \in 1 .. n + 1 /\ i + 1 + 1 <= n + 1
    BY <1>1, <1>10
  <2>2. /\ o % 4 = 0 /\ p = o + Length(c) /\ LiesAt(mbf, o, c) /\ p <= u /\ p \in Nat
        /\ c \in Msgs
    <3>1. p <= u /\ p \in Nat
      BY <1>1, <1>3, <2>1 DEF u
    <3>2. c \in Msgs
      BY <1>1, <2>1 DEF n
    <3> QED BY <1>1, <2>1, <3>1, <3>2 DEF o
  <2> HIDE DEF p, c
  <2>3. /\ Length(c) \in Nat /\ Length(c) >= 4 /\ Length(c) = HEADERSZ + ROUNDSZ(MsgSize[c])
    BY <2>2, LengthIs
  <2>4. h < B /\ o + Length(c) <= B /\ ~(u - o < Length(c)) /\ u - o - Length(c) = u - p
        /\ h + o + Length(c) = h + p
    <3> DEFINE lc == Length(c)
    <3>1. lc \in Nat /\ lc >= 4 /\ p = o + lc /\ p <= u /\ p \in Nat
      BY <2>2, <2>3
    <3> HIDE DEF lc
    <3>2. h < B /\ o + lc <= B
      BY <1>2, <1>4, <3>1
    <3>3. ~(u - o < lc) /\ u - o - lc = u - p /\ h + o + lc = h + p
      BY <1>2, <1>4, <3>1
    <3> QED BY <3>2, <3>3 DEF lc
  <2>5. /\ m = c
        /\ AfterCopy(mbf, Wrapped(mbf, x.at + HEADERSZ), MsgSize[c]) = Place(B, h + p)
    <3>1. /\ mbf.head < mbf.bufsz /\ o + Length(c) <= mbf.bufsz
          /\ x.at = Place(mbf.bufsz, mbf.head + o)
      BY <1>8, <2>4 DEF B, h
    <3>2. /\ MessageAt(mbf, x.at) = c
          /\ AfterCopy(mbf, Wrapped(mbf, x.at + HEADERSZ), MsgSize[c])
               = Place(mbf.bufsz, mbf.head + o + Length(c))
      BY <1>2, <1>4, <2>2, <3>1, MessageFound
    <3>3. mbf.head + o + Length(c) = h + p
      BY <2>4 DEF h
    <3> QED BY <3>2, <3>3 DEF m, B
  <2>6. c # Nothing
    BY <2>2, MessageBufferAssumption
  <2>7. NextStored[x] = [at |-> Place(B, h + p), words |-> u - p,
                         list |-> Append(SubSeq(s, 1, i), c)]
    BY <1>8, <1>9, <2>3, <2>4, <2>5, <2>6
  <2>8. Append(SubSeq(s, 1, i), c) = SubSeq(s, 1, i + 1)
    <3> DEFINE e == SubSeq(s, 1, i)
               f == SubSeq(s, 1, i + 1)
    <3>1. \A k \in 1 .. i + 1 : k \in 1 .. n
      BY <1>1, <1>3, <1>10
    <3>2. \A k \in 1 .. n : s[k] \in Msgs
      BY <1>1 DEF n
    <3>3. /\ f \in Seq(Msgs) /\ Len(f) = i + 1 /\ \A k \in 1 .. i + 1 : f[k] = s[k]
      BY <1>3, <3>1, <3>2
    <3>4. /\ e \in Seq(Msgs) /\ Len(e) = i /\ \A k \in 1 .. i : e[k] = s[k]
      BY <1>3, <3>1, <3>2
    <3> HIDE DEF e, f
    <3>5. /\ Append(e, c) \in Seq(Msgs) /\ Len(Append(e, c)) = i + 1
          /\ \A k \in 1 .. i : Append(e, c)[k] = e[k]
          /\ Append(e, c)[i + 1] = c
      BY <2>2, <3>4, AppendProperties
    <3>6. \A k \in 1 .. i + 1 : Append(e, c)[k] = f[k]
      <4> TAKE k \in 1 .. i + 1
      <4>1. k \in 1 .. i \/ k = i + 1
        BY <1>3
      <4> QED BY <1>3, <3>3, <3>4, <3>5, <4>1 DEF c
    <3>7. Append(e, c) = f
      BY <3>3, <3>5, <3>6, SeqEqual
    <3> QED BY <3>7 DEF e, f
  <2>9. FoundAt(s, off, i + 1) = [at |-> Place(B, h + p), words |-> u - p,
                                  list |-> SubSeq(s, 1, i + 1)]
    BY DEF FoundAt, B, h, p, u, n
  <2> QED BY <2>7, <2>8, <2>9
<1>11. ASSUME i = n
       PROVE  NextStored[x] = x
  <2>1. x.words = 0
    <3>1. o = u
      BY <1>11 DEF o, u
    <3> QED BY <1>4, <1>8, <3>1
  <2>2. m # Nothing => size \in Nat /\ size >= 4
    <3>1. m # Nothing => m \in Msgs
      BY MessageAtType DEF m
    <3> QED BY <3>1, LengthIs
  <2> HIDE DEF size
  <2>3. m = Nothing \/ x.words < size
    BY <2>1, <2>2
  <2> QED BY <1>9, <2>3
<1> QED BY <1>8, <1>10, <1>11 DEF x, n

(* The search from the head finds the messages that the ring holds. *)
LEMMA StoredIs ==
    ASSUME NEW s, Holds(mbf, s)
    PROVE  Stored = s
<1> DEFINE n == Len(s)
           most == mbf.bufsz \div HEADERSZ
           c == [at |-> mbf.head, words |-> mbf.bufsz - mbf.frbufsz, list |-> <<>>]
           Loop(f) == f = [i \in 0 .. most |-> IF i = 0 THEN c ELSE NextStored[f[i - 1]]]
<1>1. PICK off : HoldsAt(mbf, s, off)
  BY DEF Holds
<1> DEFINE g == [i \in 0 .. most |-> FoundAt(s, off, Atmost(i, n))]
<1>2. /\ n \in Nat /\ s \in Seq(Msgs) /\ off[1] = 0
      /\ off[n + 1] = mbf.bufsz - mbf.frbufsz
  BY <1>1, PlacesOf DEF HoldsAt, Holds
<1>3. /\ mbf.bufsz \in Nat /\ mbf.frbufsz \in Nat /\ mbf.head \in Nat
      /\ (mbf.head < mbf.bufsz \/ mbf.head = 0) /\ HEADERSZ = 4
      /\ mbf.frbufsz <= mbf.bufsz
  BY DEF Holds, Ring, MBFCB, HEADERSZ
<1>4. most \in Nat /\ n <= most
  <2>1. n <= most
    BY <1>1, FewMessages
  <2> QED BY <1>3, <2>1
<1>5. FoundAt(s, off, 0) = c
  <2>1. Place(mbf.bufsz, mbf.head + 0) = mbf.head \/ mbf.bufsz = 0
    BY <1>3 DEF Place
  <2>2. mbf.bufsz = 0 => Place(mbf.bufsz, mbf.head + 0) = mbf.head
    BY <1>3 DEF Place
  <2>3. SubSeq(s, 1, 0) = <<>>
    BY SubSeqEmpty
  <2>4. mbf.bufsz - mbf.frbufsz - 0 = mbf.bufsz - mbf.frbufsz /\ 0 + 1 = 1
    BY <1>3
  <2> QED BY <1>2, <2>1, <2>2, <2>3, <2>4 DEF FoundAt
<1>6. ASSUME NEW i \in 0 .. most, i # 0
      PROVE  FoundAt(s, off, Atmost(i, n)) = NextStored[FoundAt(s, off, Atmost(i - 1, n))]
  <2> DEFINE k == Atmost(i - 1, n)
  <2> HIDE DEF most
  <2>1. k \in 0 .. n /\ k \in Nat
    BY <1>2, <1>4, <1>6 DEF Atmost
  <2>2. (k < n /\ Atmost(i, n) = k + 1) \/ (k = n /\ Atmost(i, n) = k)
    BY <1>2, <1>4, <1>6 DEF Atmost
  <2> HIDE DEF k
  <2>3. /\ k < n => NextStored[FoundAt(s, off, k)] = FoundAt(s, off, k + 1)
        /\ k = n => NextStored[FoundAt(s, off, k)] = FoundAt(s, off, k)
    BY <1>1, <2>1, NextFound
  <2> QED BY <2>2, <2>3 DEF k
<1> HIDE DEF most, c, n
<1>7. Loop(g)
  <2> DEFINE e == [i \in 0 .. most |-> IF i = 0 THEN c ELSE NextStored[g[i - 1]]]
  <2>1. ASSUME NEW i \in 0 .. most PROVE g[i] = IF i = 0 THEN c ELSE NextStored[g[i - 1]]
    <3>1. CASE i = 0
      <4>1. Atmost(0, n) = 0
        BY <1>2 DEF Atmost
      <4> QED BY <1>5, <3>1, <4>1
    <3>2. CASE i # 0
      <4>1. i - 1 \in 0 .. most
        BY <1>4, <3>2
      <4> QED BY <1>6, <3>2, <4>1
    <3> QED BY <3>1, <3>2
  <2>2. g = [i \in 0 .. most |-> g[i]]
    OBVIOUS
  <2> HIDE DEF g
  <2> QED BY <2>1, <2>2
<1> DEFINE f == CHOOSE e : Loop(e)
<1>8. Loop(f) /\ Stored = f[most].list
  <2>1. Loop(CHOOSE e : Loop(e))
    <3> HIDE DEF Loop, g
    <3> QED BY <1>7
  <2> QED BY <2>1 DEF Stored, most, c
<1> HIDE DEF f
<1>9. f[most] = g[most]
  <2> DEFINE T == {i \in Nat : i <= most => f[i] = g[i]}
  <2>1. \A i \in 0 .. most : i # 0 => f[i] = NextStored[f[i - 1]] /\ g[i] = NextStored[g[i - 1]]
    <3> HIDE DEF g
    <3> QED BY <1>7, <1>8
  <2>2. f[0] = g[0]
    <3> HIDE DEF g
    <3> QED BY <1>4, <1>7, <1>8
  <2> HIDE DEF g
  <2>3. 0 \in T
    BY <2>2
  <2>4. ASSUME NEW i \in Nat, i \in T PROVE i + 1 \in T
    <3> SUFFICES ASSUME i + 1 <= most PROVE f[i + 1] = g[i + 1]
      OBVIOUS
    <3>1. i + 1 \in 0 .. most /\ i + 1 # 0 /\ i + 1 - 1 = i /\ f[i] = g[i]
      BY <1>4, <2>4
    <3> QED BY <2>1, <3>1
  <2> HIDE DEF T
  <2>5. most \in T
    BY <1>4, <2>3, <2>4, Induction
  <2> QED BY <1>4, <2>5 DEF T
<1>10. g[most] = FoundAt(s, off, n)
  <2>1. most \in 0 .. most /\ Atmost(most, n) = n
    BY <1>2, <1>4 DEF Atmost
  <2> QED BY <2>1
<1>11. FoundAt(s, off, n).list = s
  <2>1. SubSeq(s, 1, n) = s
    BY <1>2, SubSeqFull DEF n
  <2> QED BY <2>1 DEF FoundAt
<1> QED BY <1>8, <1>9, <1>10, <1>11

-----------------------------------------------------------------------------
(* Message buffer: the theorems                                            *)

LEMMA MbfStep ==
    ASSUME MbfInv, NEW s, Holds(mbf, s), MbfNext
    PROVE  MbfInv' /\ \E v : Holds(mbf', v) /\ QueueStep(s, v)
  BY tk_cre_mbf_OK, tk_del_mbf_OK, SendFromHandler_OK, tk_snd_mbf_OK, tk_rcv_mbf_OK,
     EndMbfWait_OK, mbf_chg_pri_OK DEF MbfNext

LEMMA MbfInitially ==
    ASSUME MbfInit
    PROVE  MbfInv /\ Holds(mbf, <<>>) /\ Offered = {}
<1>1. /\ mbf = NoMbf /\ \A t \in Tasks : msg[t] = Nothing
      /\ priority \in [Tasks -> Pri] /\ msg \in [Tasks -> Msgs \cup {Nothing}]
  BY DEF MbfInit
<1>2. Holds(mbf, <<>>) /\ mbf.send_queue = <<>> /\ mbf.recv_queue = <<>>
  <2>1. 0 % 4 = 0
    OBVIOUS
  <2> QED BY <1>1, <2>1, NoBuffer, EmptyHolds
<1>3. Senders = {} /\ Offered = {}
  BY <1>1 DEF Senders, Offered
<1>4. /\ Linked(Tasks, <<>>, {}) /\ Linked(Tasks, <<>>, ToSet(<<>>)) /\ SortedBy(<<>>, priority)
  BY NothingLinked DEF Linked, SortedBy
<1>5. NoIdleWait
  BY <1>2 DEF NoIdleWait
<1> QED BY <1>1, <1>2, <1>3, <1>4, <1>5 DEF MbfInv

(* Whatever is called, the ring holds whole messages one behind the other, *)
(* from the head to the tail, in as many words as frbufsz says; the tasks  *)
(* that wait to send are in send_queue, each with a message of its own;    *)
(* and nobody waits in vain.                                               *)
THEOREM MbfInvariant == MbfSpec => []MbfInv
<1>1. MbfInit => MbfInv
  BY MbfInitially
<1>2. MbfInv /\ [MbfNext]_mbfvars => MbfInv'
  <2>1. CASE MbfNext
    <3> SUFFICES ASSUME MbfInv PROVE MbfInv'
      BY <2>1
    <3>1. PICK s : Holds(mbf, s)
      BY DEF MbfInv
    <3> QED BY <2>1, <3>1, MbfStep
  <2>2. CASE UNCHANGED mbfvars
    BY <2>2 DEF mbfvars, MbfInv, Senders, NoIdleWait
  <2> QED BY <2>1, <2>2
<1> QED BY <1>1, <1>2, PTL DEF MbfSpec

(* The calls, the timeouts and the changes of priority never leave a task  *)
(* waiting that mbf_wakeup or tk_snd_mbf should have served.               *)
THEOREM MbfServesAll == MbfSpec => []NoIdleWait
<1>1. MbfInv => NoIdleWait
  BY DEF MbfInv
<1> QED BY <1>1, MbfInvariant, PTL

(* Stored is what the ring holds. *)
StoredWell == \A s : Holds(mbf, s) => Stored = s

LEMMA QueueStepIs ==
    ASSUME QueueStep(Stored, Stored')
    PROVE  Queue!Next
<1> DEFINE O == {msg[t] : t \in Tasks} \ {Nothing}
           s == Stored
           v == Stored'
<1>1. Offered = O /\ Offered' = O'
  BY DEF Offered
<1> HIDE DEF O
<1>2. ASSUME NEW m \in Msgs, delivered' = Nothing,
             \/ v = s /\ m \notin Offered /\ Offered' = Offered \cup {m}
             \/ v = Append(s, m) /\ Offered' = Offered
      PROVE  Queue!Send(m)
  BY <1>1, <1>2 DEF Queue!Send, O
<1>3. ASSUME NEW m \in Msgs, delivered' = m, s = <<>>, v = <<>>, Offered = {}, Offered' = {}
      PROVE  Queue!SendToReceiver(m)
  BY <1>1, <1>3 DEF Queue!SendToReceiver, O
<1>4. ASSUME NEW m \in Msgs, delivered' = m, m \in Offered, s = <<>>,
             Accepted(Offered \ {m}, <<>>, v, Offered')
      PROVE  Queue!HandOver(m)
  BY <1>1, <1>4 DEF Queue!HandOver, Queue!Accept, Accepted, O,
     Queue!IsPrefix, Queue!IsInjective, Queue!ToSet, IsPrefix, IsInjective, ToSet
<1>5. ASSUME s # <<>>, delivered' = Head(s), Accepted(Offered, Tail(s), v, Offered')
      PROVE  Queue!Receive
  BY <1>1, <1>5 DEF Queue!Receive, Queue!Accept, Accepted, O,
     Queue!IsPrefix, Queue!IsInjective, Queue!ToSet, IsPrefix, IsInjective, ToSet
<1>6. ASSUME delivered' = Nothing,
             NEW W \in {{}} \cup {{m} : m \in Offered}, Accepted(Offered \ W, s, v, Offered')
      PROVE  Queue!Withdraw
  <2>1. Queue!Accept(Offered \ W, s, v)
    BY <1>1, <1>6 DEF Queue!Accept, Accepted, O,
       Queue!IsPrefix, Queue!IsInjective, Queue!ToSet, IsPrefix, IsInjective, ToSet
  <2> QED BY <1>1, <1>6, <2>1 DEF Queue!Withdraw, O
<1>7. ASSUME v = <<>>, Offered' = {}, delivered' = Nothing
      PROVE  Queue!Delete
  BY <1>1, <1>7 DEF Queue!Delete, O
<1>8. QueueStep(s, v)
  OBVIOUS
<1> HIDE DEF s, v
<1> QED BY <1>2, <1>3, <1>4, <1>5, <1>6, <1>7, <1>8 DEF QueueStep, Queue!Next

LEMMA MbfRefines ==
    ASSUME MbfInv, StoredWell, StoredWell', [MbfNext]_mbfvars
    PROVE  [Queue!Next]_(Queue!vars)
<1>1. PICK s : Holds(mbf, s)
  BY DEF MbfInv
<1>2. Stored = s
  BY <1>1 DEF StoredWell
<1>3. CASE MbfNext
  <2>1. PICK v : Holds(mbf', v) /\ QueueStep(s, v)
    BY <1>1, <1>3, MbfStep
  <2>2. Stored' = v
    BY <2>1 DEF StoredWell
  <2>3. QueueStep(Stored, Stored')
    BY <1>2, <2>1, <2>2
  <2> QED BY <2>3, QueueStepIs
<1>4. CASE UNCHANGED mbfvars
  <2>1. mbf' = mbf /\ msg' = msg /\ delivered' = delivered
    BY <1>4 DEF mbfvars
  <2>2. Stored' = s
    BY <1>1, <2>1 DEF StoredWell
  <2> QED BY <1>2, <2>1, <2>2 DEF Queue!vars
<1> QED BY <1>3, <1>4

(* The ring with its two queues is one queue of messages, for any number   *)
(* of tasks and messages of any sizes in a buffer of any size: what was    *)
(* accepted is delivered once, whole and in its turn, although messages    *)
(* are cut in two at the end of the ring and senders are let in, withdrawn *)
(* or put in another order by other calls.                                 *)
THEOREM MsgQueueImplemented == MbfSpec => ImplementsMsgQueue
<1>1. StoredWell
  BY StoredIs DEF StoredWell
<1>2. MbfInit => Queue!Init
  <2> SUFFICES ASSUME MbfInit PROVE Queue!Init
    OBVIOUS
  <2>1. Holds(mbf, <<>>) /\ Offered = {} /\ delivered = Nothing
    BY MbfInitially DEF MbfInit
  <2>2. Stored = <<>>
    BY <1>1, <2>1 DEF StoredWell
  <2> QED BY <2>1, <2>2 DEF Queue!Init, Offered
<1>3. MbfInv /\ StoredWell /\ StoredWell' /\ [MbfNext]_mbfvars => [Queue!Next]_(Queue!vars)
  BY MbfRefines
<1> QED BY <1>1, <1>2, <1>3, MbfInvariant, PTL DEF MbfSpec, ImplementsMsgQueue, Queue!Spec

-----------------------------------------------------------------------------
(* The timer event queue                                                   *)


(* A cycle is at least one unit of time (tk_cre_cyc refuses 0). *)
CYCCB == [cychdr : BOOLEAN, phs : BOOLEAN, sta : BOOLEAN, cyctim : Nat \ {0}]
ALMCB == [almhdr : BOOLEAN, sta : BOOLEAN]

TimesOK == tmeb \in [Events -> Nat] /\ due \in [Events -> Nat]

TimerTypeOK ==
    /\ current_time \in Nat /\ elapsed \in Nat
    /\ handling \in {"idle", "loop", "handler"}
    /\ TimesOK
    /\ waits \in [TimerTasks -> {"no", "tmout", "forever"}]
    /\ cyc \in [Cycs -> CYCCB]
    /\ alm \in [Alms -> ALMCB]

(* The queue links what is started, in the order of time. *)
InTime == Linked(Events, timer_queue, Started) /\ SortedBy(timer_queue, tmeb)

(* The time of a cyclic handler is in phase also while it is stopped, and   *)
(* lies behind what is due by the calls that were left out.                *)
InPhase(c) == \E n \in Nat : tmeb[c] = due[c] + n * cyc[c].cyctim

(* What QueuedExactly and NeverEarly lack to be inductive *)
EventFact(e) ==
    /\ e \in Cycs /\ cyc[e].sta => cyc[e].cychdr
    /\ e \in Cycs /\ cyc[e].cychdr => InPhase(e)
    /\ e \in Started => due[e] <= tmeb[e]
    /\ e \in Started /\ handling = "idle" => tmeb[e] > current_time

TimerInv == TimerTypeOK /\ InTime /\ \A e \in Events : EventFact(e)

-----------------------------------------------------------------------------
(* Times                                                                   *)

(* cyc_next_time goes one cycle or more ahead, into the future.            *)
LEMMA NextTime ==
    ASSUME TimerTypeOK, NEW tm \in Nat, NEW c \in Nat \ {0}
    PROVE  /\ cyc_next_time(tm, c) \in Nat /\ cyc_next_time(tm, c) > current_time
           /\ \E k \in Nat \ {0} : cyc_next_time(tm, c) = tm + k * c
<1>1. current_time \in Nat
  BY DEF TimerTypeOK
<1>2. CASE tm + c > current_time
  <2>1. cyc_next_time(tm, c) = tm + c /\ tm + c = tm + 1 * c /\ 1 \in Nat \ {0}
    BY <1>2 DEF cyc_next_time
  <2> QED BY <1>2, <2>1
<1>3. CASE ~(tm + c > current_time)
  <2> DEFINE x == current_time - tm
             q == x \div c
  <2>1. x \in Nat
    BY <1>1, <1>3
  <2>2. q \in Nat
    BY <2>1
  <2>3. (q + 1) * c > x
    <3> HIDE DEF x
    <3> QED BY <2>1
  <2>4. cyc_next_time(tm, c) = tm + (q + 1) * c
    BY <1>3 DEF cyc_next_time
  <2> HIDE DEF q
  <2> DEFINE k == q + 1
             d == k * c
  <2>5. k \in Nat \ {0} /\ d \in Nat
    BY <2>2
  <2>6. cyc_next_time(tm, c) = tm + d /\ d > x
    BY <2>3, <2>4
  <2> HIDE DEF d, k
  <2>7. tm + d > current_time /\ tm + d \in Nat
    BY <1>1, <2>5, <2>6
  <2> QED BY <2>5, <2>6, <2>7 DEF d
<1> QED BY <1>2, <1>3

(* Whole cycles keep the phase. *)
LEMMA WholeCycles ==
    ASSUME NEW d \in Nat, NEW n \in Nat, NEW c \in Nat \ {0}, NEW t, t = d + n * c
    PROVE  t >= d /\ (t - d) % c = 0
<1> DEFINE m == n * c
<1>1. m \in Nat /\ m % c = 0
  OBVIOUS
<1>2. t = d + m
  OBVIOUS
<1> HIDE DEF m
<1>3. t - d = m /\ t >= d
  BY <1>1, <1>2
<1> QED BY <1>1, <1>3

-----------------------------------------------------------------------------
(* The queue                                                               *)

LEMMA StartedEvents == Started \subseteq Events
  BY DEF Started, Events

LEMMA TaskStarts ==
    ASSUME TimerTypeOK, NEW t \in TimerTasks, NEW w, waits' = [waits EXCEPT ![t] = w],
           UNCHANGED <<cyc, alm>>
    PROVE  /\ w = "tmout" => Started' = Started \cup {t}
           /\ w # "tmout" => Started' = Started \ {t}
<1>1. t \notin Cycs /\ t \notin Alms
  BY TimerEventsAssumption
<1>2. \A u \in TimerTasks : waits'[u] = IF u = t THEN w ELSE waits[u]
  BY DEF TimerTypeOK
<1> QED BY <1>1, <1>2 DEF Started

LEMMA CycStarts ==
    ASSUME TimerTypeOK, NEW c \in Cycs, NEW r, cyc' = [cyc EXCEPT ![c] = r],
           UNCHANGED <<waits, alm>>
    PROVE  Started' = IF r.sta THEN Started \cup {c} ELSE Started \ {c}
<1>1. c \notin TimerTasks /\ c \notin Alms
  BY TimerEventsAssumption
<1>2. \A u \in Cycs : cyc'[u] = IF u = c THEN r ELSE cyc[u]
  BY DEF TimerTypeOK
<1> QED BY <1>1, <1>2 DEF Started

LEMMA AlmStarts ==
    ASSUME TimerTypeOK, NEW a \in Alms, NEW r, alm' = [alm EXCEPT ![a] = r],
           UNCHANGED <<waits, cyc>>
    PROVE  Started' = IF r.sta THEN Started \cup {a} ELSE Started \ {a}
<1>1. a \notin TimerTasks /\ a \notin Cycs
  BY TimerEventsAssumption
<1>2. \A u \in Alms : alm'[u] = IF u = a THEN r ELSE alm[u]
  BY DEF TimerTypeOK
<1> QED BY <1>1, <1>2 DEF Started

(* e is the only event whose times change. *)
OnlyTimesOf(e) ==
    /\ TimesOK'
    /\ \A u \in Events \ {e} : tmeb'[u] = tmeb[u] /\ due'[u] = due[u]

(* timer_insert: e stands behind what is not later. *)
LEMMA Inserted ==
    ASSUME TimesOK, NEW q, NEW A, Linked(Events, q, A), SortedBy(q, tmeb),
           NEW e \in Events \ A, NEW tm \in Nat, NEW from \in Nat,
           Insert(q, e, tm, from)
    PROVE  /\ Linked(Events, timer_queue', A \cup {e})
           /\ SortedBy(timer_queue', tmeb')
           /\ OnlyTimesOf(e) /\ tmeb'[e] = tm /\ due'[e] = from
<1>1. /\ OnlyTimesOf(e) /\ tmeb'[e] = tm /\ due'[e] = from
  BY DEF Insert, TimesOK, OnlyTimesOf
<1>2. timer_queue' = InsertAt(q, KeyPlace(q, tmeb, tm), e)
  BY DEF Insert, enqueue_tmeb, KeyPlace
<1>3. A \subseteq Events
  BY PlacesOf DEF Linked
<1>4. /\ \A u \in A : tmeb'[u] = tmeb[u]
      /\ \A u \in Events : tmeb[u] \in Nat
  BY <1>1, <1>3 DEF OnlyTimesOf, TimesOK
<1>5. Linked(Events, timer_queue', A \cup {e}) /\ SortedBy(timer_queue', tmeb')
  BY <1>1, <1>2, <1>4, KeyedInsertion
<1> QED BY <1>1, <1>5

(* timer_delete, also of an event that is not queued *)
LEMMA Deleted ==
    ASSUME TimesOK, InTime, NEW e \in Events, Delete(e)
    PROVE  /\ Linked(Events, timer_queue', Started \ {e})
           /\ SortedBy(timer_queue', tmeb') /\ OnlyTimesOf(e)
<1>1. OnlyTimesOf(e)
  BY DEF Delete, TimesOK, OnlyTimesOf
<1>2. timer_queue' = RemoveFirst(timer_queue, e)
  BY DEF Delete
<1>3. \A u \in Started \ {e} : tmeb'[u] = tmeb[u]
  BY <1>1, StartedEvents DEF OnlyTimesOf
<1>4. /\ Linked(Events, RemoveFirst(timer_queue, e), Started \ {e})
      /\ SortedBy(RemoveFirst(timer_queue, e), tmeb')
  BY <1>3, RemoveInOrder DEF InTime
<1> QED BY <1>1, <1>2, <1>4

(* The queue without e, in order *)
LEMMA EventUnqueued ==
    ASSUME InTime, NEW e
    PROVE  /\ Linked(Events, RemoveFirst(timer_queue, e), Started \ {e})
           /\ SortedBy(RemoveFirst(timer_queue, e), tmeb)
<1>1. \A u \in Started \ {e} : tmeb[u] = tmeb[u]
  OBVIOUS
<1> QED BY <1>1, RemoveInOrder DEF InTime

(* A step that moves one event leaves the facts of the others alone.       *)
LEMMA OthersKeep ==
    ASSUME TimerInv, NEW e \in Events, TimerTypeOK', InTime', EventFact(e)',
           OnlyTimesOf(e), Started' \ {e} = Started \ {e},
           \A c \in Cycs \ {e} : cyc'[c] = cyc[c],
           current_time' = current_time, handling' = "idle" => handling = "idle"
    PROVE  TimerInv'
<1>1. ASSUME NEW u \in Events, u # e PROVE EventFact(u)'
  <2>1. EventFact(u)
    BY DEF TimerInv
  <2>2. u \in Started' <=> u \in Started
    BY <1>1
  <2>3. tmeb'[u] = tmeb[u] /\ due'[u] = due[u]
    BY <1>1 DEF OnlyTimesOf
  <2>4. u \in Cycs => cyc'[u] = cyc[u]
    BY <1>1
  <2>5. u \in Cycs => (InPhase(u)' <=> InPhase(u))
    BY <2>3, <2>4 DEF InPhase
  <2> QED BY <2>1, <2>2, <2>3, <2>4, <2>5 DEF EventFact
<1> QED BY <1>1 DEF TimerInv

LEMMA Now ==
    ASSUME TimerTypeOK, NEW r \in Nat
    PROVE  /\ FromNow(r) \in Nat /\ RealTime + r \in Nat /\ FromNow(r) = RealTime + r
           /\ FromNow(r) >= current_time + r
  BY DEF TimerTypeOK, FromNow, RealTime

-----------------------------------------------------------------------------
(* One lemma per operation                                                 *)

LEMMA WaitKeeps ==
    ASSUME TimerInv, NEW t \in TimerTasks, Wait(t)
    PROVE  TimerInv'
<1>1. TimerTypeOK /\ InTime /\ TimesOK
  BY DEF TimerInv, TimerTypeOK
<1>2. t \in Events /\ t \notin Cycs /\ t \notin Started
  BY TimerEventsAssumption DEF Wait, Events, Started
<1>3. UNCHANGED <<current_time, elapsed, handling, cyc, alm>>
  BY DEF Wait
<1>4. CASE \E reltim \in RelTimes :
              /\ waits' = [waits EXCEPT ![t] = "tmout"]
              /\ Insert(timer_queue, t, FromNow(reltim), RealTime + reltim)
  <2>1. PICK reltim \in RelTimes :
              /\ waits' = [waits EXCEPT ![t] = "tmout"]
              /\ Insert(timer_queue, t, FromNow(reltim), RealTime + reltim)
    BY <1>4
  <2>2. reltim \in Nat \ {0}
    BY TimerEventsAssumption
  <2>3. /\ FromNow(reltim) \in Nat /\ RealTime + reltim \in Nat
        /\ RealTime + reltim <= FromNow(reltim) /\ FromNow(reltim) > current_time
    BY <1>1, <2>2, Now DEF TimerTypeOK
  <2>4. Started' = Started \cup {t}
    BY <1>1, <1>3, <2>1, TaskStarts
  <2>5. /\ Linked(Events, timer_queue', Started \cup {t})
        /\ SortedBy(timer_queue', tmeb') /\ OnlyTimesOf(t)
        /\ tmeb'[t] = FromNow(reltim) /\ due'[t] = RealTime + reltim
    BY <1>1, <1>2, <2>1, <2>3, Inserted DEF InTime
  <2>6. InTime'
    BY <2>4, <2>5 DEF InTime
  <2>7. TimerTypeOK'
    BY <1>1, <1>3, <2>1, <2>5 DEF TimerTypeOK, OnlyTimesOf
  <2>8. EventFact(t)'
    BY <1>2, <1>3, <2>3, <2>5 DEF EventFact
  <2>9. Started' \ {t} = Started \ {t}
    BY <2>4
  <2> QED BY <1>2, <1>3, <2>5, <2>6, <2>7, <2>8, <2>9, OthersKeep
<1>5. CASE waits' = [waits EXCEPT ![t] = "forever"] /\ UNCHANGED <<timer_queue, tmeb, due>>
  <2>1. Started' = Started \ {t}
    <3> DEFINE w == "forever"
    <3>1. w # "tmout" /\ waits' = [waits EXCEPT ![t] = w]
      BY <1>5
    <3> HIDE DEF w
    <3> QED BY <1>1, <1>3, <3>1, TaskStarts
  <2>2. Started' = Started
    BY <1>2, <2>1
  <2>3. OnlyTimesOf(t) /\ InTime'
    BY <1>1, <1>5, <2>2 DEF OnlyTimesOf, TimesOK, InTime
  <2>4. TimerTypeOK'
    BY <1>1, <1>3, <1>5 DEF TimerTypeOK, TimesOK
  <2>5. EventFact(t)'
    BY <1>2, <2>2 DEF EventFact
  <2>6. Started' \ {t} = Started \ {t}
    BY <2>2
  <2> QED BY <1>2, <1>3, <2>3, <2>4, <2>5, <2>6, OthersKeep
<1> QED BY <1>4, <1>5 DEF Wait

(* An event leaves the queue, and its task or handler is not started. *)
LEMMA Leaves ==
    ASSUME TimerInv, NEW e \in Events, Delete(e), Started' = Started \ {e},
           TimesOK' => TimerTypeOK',
           e \in Cycs => ~cyc'[e].cychdr /\ ~cyc'[e].sta,
           \A c \in Cycs \ {e} : cyc'[c] = cyc[c],
           current_time' = current_time, handling' = "idle" => handling = "idle"
    PROVE  TimerInv'
<1>1. TimerTypeOK /\ InTime /\ TimesOK
  BY DEF TimerInv, TimerTypeOK
<1>2. /\ Linked(Events, timer_queue', Started \ {e})
      /\ SortedBy(timer_queue', tmeb') /\ OnlyTimesOf(e)
  BY <1>1, Deleted
<1>3. InTime' /\ TimerTypeOK'
  BY <1>2 DEF InTime, OnlyTimesOf
<1>4. EventFact(e)'
  BY DEF EventFact
<1>5. Started' \ {e} = Started \ {e}
  OBVIOUS
<1> QED BY <1>2, <1>3, <1>4, <1>5, OthersKeep

LEMMA ReleaseKeeps ==
    ASSUME TimerInv, NEW t \in TimerTasks, Release(t)
    PROVE  TimerInv'
<1>1. TimerTypeOK
  BY DEF TimerInv
<1>2. t \in Events /\ t \notin Cycs
  BY TimerEventsAssumption DEF Events
<1>3. /\ waits' = [waits EXCEPT ![t] = "no"] /\ Delete(t)
      /\ UNCHANGED <<current_time, elapsed, handling, cyc, alm>>
  BY DEF Release
<1>4. Started' = Started \ {t}
  <2> DEFINE w == "no"
  <2>1. w # "tmout" /\ waits' = [waits EXCEPT ![t] = w]
    BY <1>3
  <2> HIDE DEF w
  <2> QED BY <1>1, <1>3, <2>1, TaskStarts
<1>5. TimesOK' => TimerTypeOK'
  BY <1>1, <1>3 DEF TimerTypeOK
<1> QED BY <1>2, <1>3, <1>4, <1>5, Leaves

LEMMA CreCycKeeps ==
    ASSUME TimerInv, NEW c \in Cycs, NEW phs \in BOOLEAN, NEW sta \in BOOLEAN,
           NEW cyctim \in RelTimes, NEW cycphs \in RelTimes \cup {0},
           tk_cre_cyc(c, phs, sta, cyctim, cycphs)
    PROVE  TimerInv'
<1> DEFINE r == [cychdr |-> TRUE, phs |-> phs, sta |-> sta, cyctim |-> cyctim]
           tm == FromNow(cycphs)
<1>1. TimerTypeOK /\ InTime /\ TimesOK
  BY DEF TimerInv, TimerTypeOK
<1>2. /\ cyc' = [cyc EXCEPT ![c] = r] /\ ~cyc[c].cychdr
      /\ UNCHANGED <<current_time, elapsed, handling, waits, alm>>
      /\ \/ /\ sta /\ cycphs = 0
            /\ Insert(timer_queue, c, cyc_next_time(tm, cyctim), RealTime + cyctim)
         \/ /\ sta /\ cycphs > 0
            /\ Insert(timer_queue, c, tm, RealTime + cycphs)
         \/ /\ ~sta
            /\ tmeb' = [tmeb EXCEPT ![c] = tm]
            /\ due' = [due EXCEPT ![c] = RealTime + cycphs]
            /\ UNCHANGED timer_queue
  BY DEF tk_cre_cyc
<1>3. cyctim \in Nat \ {0} /\ cycphs \in Nat
  BY TimerEventsAssumption
<1>4. /\ r \in CYCCB /\ r.cychdr /\ r.sta = sta /\ r.cyctim = cyctim
  BY <1>3 DEF CYCCB
<1> HIDE DEF r, tm
<1>5. c \in Events /\ c \notin Started
  <2>1. EventFact(c) /\ c \in Events
    BY DEF TimerInv, Events
  <2>2. ~cyc[c].sta
    BY <1>2, <2>1 DEF EventFact
  <2> QED BY <2>1, <2>2, TimerEventsAssumption DEF Started
<1>6. /\ tm \in Nat /\ RealTime + cycphs = tm /\ tm >= current_time + cycphs
      /\ RealTime + cyctim \in Nat
  BY <1>1, <1>3, Now DEF tm
<1>7. cyc'[c] = r /\ \A u \in Cycs \ {c} : cyc'[u] = cyc[u]
  BY <1>1, <1>2 DEF TimerTypeOK
<1>8. /\ TimesOK' => TimerTypeOK'
  BY <1>1, <1>2, <1>4 DEF TimerTypeOK
<1>9. Started' = IF sta THEN Started \cup {c} ELSE Started \ {c}
  BY <1>1, <1>2, <1>4, CycStarts
<1>10. Started' \ {c} = Started \ {c}
  BY <1>9
<1> DEFINE n == IF sta /\ cycphs = 0 THEN cyc_next_time(tm, cyctim) ELSE tm
<1>11. sta => n > current_time
  BY <1>1, <1>3, <1>6, NextTime DEF TimerTypeOK
<1>12. n \in Nat /\ (sta /\ cycphs = 0 => n = RealTime + cyctim)
  <2>1. CASE sta /\ cycphs = 0
    <3>1. tm + cyctim > current_time
      BY <1>1, <1>3, <1>6 DEF TimerTypeOK
    <3>2. n = tm + cyctim /\ RealTime + 0 = tm
      BY <1>6, <2>1, <3>1 DEF cyc_next_time
    <3>3. RealTime \in Nat
      BY <1>1 DEF RealTime, TimerTypeOK
    <3> QED BY <1>3, <1>6, <3>2, <3>3
  <2>2. CASE ~(sta /\ cycphs = 0)
    BY <1>6, <2>2
  <2> QED BY <2>1, <2>2
<1> HIDE DEF n
<1>13. /\ InTime' /\ OnlyTimesOf(c) /\ tmeb'[c] = n /\ due'[c] = n
  <2>1. CASE sta
    <3>1. Insert(timer_queue, c, n, n)
      BY <1>2, <1>6, <1>12, <2>1, <1>3 DEF n
    <3>2. c \in Events \ Started
      BY <1>5
    <3>3. /\ Linked(Events, timer_queue', Started \cup {c})
          /\ SortedBy(timer_queue', tmeb')
          /\ OnlyTimesOf(c) /\ tmeb'[c] = n /\ due'[c] = n
      BY <1>1, <1>12, <3>1, <3>2, Inserted DEF InTime
    <3> QED BY <1>9, <2>1, <3>3 DEF InTime
  <2>2. CASE ~sta
    <3>1. /\ tmeb' = [tmeb EXCEPT ![c] = n] /\ due' = [due EXCEPT ![c] = n]
          /\ timer_queue' = timer_queue
      BY <1>2, <1>6, <2>2 DEF n
    <3>2. OnlyTimesOf(c) /\ tmeb'[c] = n /\ due'[c] = n
      BY <1>1, <1>5, <1>12, <3>1 DEF OnlyTimesOf, TimesOK
    <3>3. Started' = Started
      BY <1>5, <1>9, <2>2
    <3>4. \A i \in 1 .. Len(timer_queue) : tmeb'[timer_queue[i]] = tmeb[timer_queue[i]]
      <4>1. ASSUME NEW i \in 1 .. Len(timer_queue) PROVE timer_queue[i] \in Started
        BY <1>1, PlacesOf DEF InTime, Linked
      <4> QED BY <1>5, <3>2, <4>1, StartedEvents DEF OnlyTimesOf
    <3>5. SortedBy(timer_queue, tmeb')
      BY <1>1, <3>4 DEF InTime, SortedBy
    <3> QED BY <1>1, <3>1, <3>2, <3>3, <3>5 DEF InTime
  <2> QED BY <2>1, <2>2
<1>14. TimerTypeOK'
  BY <1>8, <1>13 DEF OnlyTimesOf
<1>15. EventFact(c)'
  <2>1. 0 \in Nat /\ n = n + 0 * cyctim
    BY <1>3, <1>12
  <2>2. InPhase(c)'
    BY <1>4, <1>7, <1>13, <2>1 DEF InPhase
  <2>3. c \in Started' => sta
    BY <1>5, <1>9
  <2>4. n <= n
    BY <1>12
  <2> QED BY <1>2, <1>4, <1>7, <1>11, <1>13, <2>2, <2>3, <2>4 DEF EventFact
<1> QED BY <1>2, <1>5, <1>7, <1>10, <1>13, <1>14, <1>15, OthersKeep

LEMMA DelCycKeeps ==
    ASSUME TimerInv, NEW c \in Cycs, tk_del_cyc(c)
    PROVE  TimerInv'
<1>1. TimerTypeOK
  BY DEF TimerInv
<1>2. /\ cyc' = [cyc EXCEPT ![c] = NoCyc] /\ Delete(c) /\ c \in Events
      /\ UNCHANGED <<current_time, elapsed, handling, waits, alm>>
  BY DEF tk_del_cyc, Events
<1>3. NoCyc \in CYCCB /\ ~NoCyc.cychdr /\ ~NoCyc.sta
  BY DEF NoCyc, CYCCB
<1>4. Started' = Started \ {c}
  BY <1>1, <1>2, <1>3, CycStarts
<1>5. cyc'[c] = NoCyc /\ \A u \in Cycs \ {c} : cyc'[u] = cyc[u]
  BY <1>1, <1>2 DEF TimerTypeOK
<1>6. TimesOK' => TimerTypeOK'
  BY <1>1, <1>2, <1>3 DEF TimerTypeOK
<1> QED BY <1>2, <1>3, <1>4, <1>5, <1>6, Leaves

LEMMA StaCycKeeps ==
    ASSUME TimerInv, NEW c \in Cycs, tk_sta_cyc(c)
    PROVE  TimerInv'
<1> DEFINE b == cyc[c]
           r == [b EXCEPT !.sta = TRUE]
<1>1. TimerTypeOK /\ InTime /\ TimesOK /\ EventFact(c) /\ c \in Events
  BY DEF TimerInv, TimerTypeOK, Events
<1>2. b \in CYCCB /\ b.cyctim \in Nat \ {0} /\ b.cychdr
  BY <1>1 DEF TimerTypeOK, CYCCB, tk_sta_cyc
<1>3. /\ cyc' = [cyc EXCEPT ![c] = r]
      /\ UNCHANGED <<current_time, elapsed, handling, waits, alm>>
  BY DEF tk_sta_cyc
<1>4. r \in CYCCB /\ r.sta /\ r.cychdr /\ r.cyctim = b.cyctim
  BY <1>2 DEF CYCCB
<1>5. /\ tmeb[c] \in Nat /\ due[c] \in Nat
      /\ \E n \in Nat : tmeb[c] = due[c] + n * b.cyctim
  BY <1>1, <1>2 DEF EventFact, InPhase, TimesOK
<1>6. c \in Started <=> b.sta
  BY TimerEventsAssumption DEF Started
<1>7. \/ /\ b.phs /\ b.sta
         /\ UNCHANGED <<timer_queue, tmeb, due>>
      \/ /\ b.phs /\ ~b.sta
         /\ LET tm == IF tmeb[c] > current_time THEN tmeb[c]
                      ELSE cyc_next_time(tmeb[c], b.cyctim)
            IN  Insert(timer_queue, c, tm, due[c])
      \/ /\ ~b.phs
         /\ Insert(IF b.sta THEN RemoveFirst(timer_queue, c) ELSE timer_queue,
                   c, FromNow(b.cyctim), RealTime + b.cyctim)
  BY DEF tk_sta_cyc
<1> HIDE DEF r
<1>8. cyc'[c] = r /\ \A u \in Cycs \ {c} : cyc'[u] = cyc[u]
  BY <1>1, <1>3 DEF TimerTypeOK
<1>9. TimesOK' => TimerTypeOK'
  BY <1>1, <1>3, <1>4 DEF TimerTypeOK
<1>10. Started' = Started \cup {c}
  BY <1>1, <1>3, <1>4, CycStarts
<1> HIDE DEF b
<1>11. CASE b.phs /\ b.sta
  <2>1. UNCHANGED <<timer_queue, tmeb, due>>
    BY <1>7, <1>11
  <2>2. Started' = Started
    BY <1>6, <1>10, <1>11
  <2>3. InTime' /\ OnlyTimesOf(c)
    BY <1>1, <2>1, <2>2 DEF InTime, OnlyTimesOf, TimesOK
  <2>4. InPhase(c)'
    BY <1>4, <1>5, <1>8, <2>1 DEF InPhase
  <2>5. EventFact(c)'
    BY <1>1, <1>3, <1>4, <1>8, <2>1, <2>2, <2>4 DEF EventFact
  <2>6. TimerTypeOK' /\ Started' \ {c} = Started \ {c}
    BY <1>9, <2>2, <2>3 DEF OnlyTimesOf
  <2> QED BY <1>1, <1>3, <1>8, <2>3, <2>5, <2>6, OthersKeep
<1>12. ASSUME NEW q, Linked(Events, q, Started \ {c}), SortedBy(q, tmeb),
              NEW tm \in Nat, NEW from \in Nat, Insert(q, c, tm, from),
              NEW n \in Nat, tm = from + n * b.cyctim, tm > current_time
       PROVE  TimerInv'
  <2>1. c \in Events \ (Started \ {c})
    BY <1>1
  <2>2. /\ Linked(Events, timer_queue', (Started \ {c}) \cup {c})
        /\ SortedBy(timer_queue', tmeb')
        /\ OnlyTimesOf(c) /\ tmeb'[c] = tm /\ due'[c] = from
    BY <1>1, <1>12, <2>1, Inserted
  <2>3. (Started \ {c}) \cup {c} = Started' /\ Started' \ {c} = Started \ {c}
    BY <1>10
  <2>4. InTime' /\ TimerTypeOK'
    BY <1>9, <2>2, <2>3 DEF InTime, OnlyTimesOf
  <2>5. InPhase(c)'
    BY <1>4, <1>8, <1>12, <2>2 DEF InPhase
  <2>6. from <= tm
    <3> DEFINE m == n * b.cyctim
    <3>1. m \in Nat
      BY <1>2, <1>12
    <3>2. tm = from + m
      BY <1>12
    <3> HIDE DEF m
    <3> QED BY <1>12, <3>1, <3>2
  <2>7. EventFact(c)'
    BY <1>3, <1>4, <1>8, <1>12, <2>2, <2>5, <2>6 DEF EventFact
  <2> QED BY <1>1, <1>3, <1>8, <2>2, <2>3, <2>4, <2>7, OthersKeep
<1>13. CASE b.phs /\ ~b.sta
  <2> DEFINE tm == IF tmeb[c] > current_time THEN tmeb[c]
                   ELSE cyc_next_time(tmeb[c], b.cyctim)
  <2>1. Insert(timer_queue, c, tm, due[c])
    BY <1>7, <1>13
  <2>2. Started \ {c} = Started
    BY <1>6, <1>13
  <2>3. tm \in Nat /\ tm > current_time /\ \E k \in Nat : tm = tmeb[c] + k * b.cyctim
    <3>1. CASE tmeb[c] > current_time
      <4>1. 0 \in Nat /\ tm = tmeb[c] + 0 * b.cyctim
        BY <1>2, <1>5, <3>1
      <4> QED BY <1>5, <3>1, <4>1
    <3>2. CASE ~(tmeb[c] > current_time)
      <4>1. tm = cyc_next_time(tmeb[c], b.cyctim)
        BY <3>2
      <4> HIDE DEF tm
      <4> QED BY <1>1, <1>2, <1>5, <4>1, NextTime
    <3> QED BY <3>1, <3>2
  <2>4. PICK n \in Nat : tmeb[c] = due[c] + n * b.cyctim
    BY <1>5
  <2>5. PICK k \in Nat : tm = tmeb[c] + k * b.cyctim
    BY <2>3
  <2> HIDE DEF tm
  <2>6. n + k \in Nat /\ tm = due[c] + (n + k) * b.cyctim
    BY <1>2, <1>5, <2>4, <2>5
  <2>7. /\ Linked(Events, timer_queue, Started \ {c})
        /\ SortedBy(timer_queue, tmeb)
    BY <1>1, <2>2 DEF InTime
  <2> QED BY <1>5, <1>12, <2>1, <2>3, <2>6, <2>7
<1>14. CASE ~b.phs
  <2> DEFINE q == IF b.sta THEN RemoveFirst(timer_queue, c) ELSE timer_queue
             tm == FromNow(b.cyctim)
             from == RealTime + b.cyctim
  <2>1. Insert(q, c, tm, from)
    BY <1>7, <1>14
  <2>2. Linked(Events, q, Started \ {c}) /\ SortedBy(q, tmeb)
    <3>1. CASE b.sta
      BY <1>1, <3>1, EventUnqueued
    <3>2. CASE ~b.sta
      <4>1. Started \ {c} = Started
        BY <1>6, <3>2
      <4> QED BY <1>1, <3>2, <4>1 DEF InTime
    <3> QED BY <3>1, <3>2
  <2>3. tm \in Nat /\ from \in Nat /\ tm = from /\ tm >= current_time + b.cyctim
    BY <1>1, <1>2, Now
  <2> HIDE DEF q, tm, from
  <2>4. tm > current_time /\ 0 \in Nat /\ tm = from + 0 * b.cyctim
    BY <1>1, <1>2, <2>3 DEF TimerTypeOK
  <2> QED BY <1>12, <2>1, <2>2, <2>3, <2>4
<1> QED BY <1>7, <1>11, <1>13, <1>14

LEMMA StpCycKeeps ==
    ASSUME TimerInv, NEW c \in Cycs, tk_stp_cyc(c)
    PROVE  TimerInv'
<1> DEFINE b == cyc[c]
           r == [b EXCEPT !.sta = FALSE]
<1>1. TimerTypeOK /\ InTime /\ TimesOK /\ EventFact(c) /\ c \in Events
  BY DEF TimerInv, TimerTypeOK, Events
<1>2. b \in CYCCB /\ b.cychdr
  BY <1>1 DEF TimerTypeOK, tk_stp_cyc
<1>3. /\ cyc' = [cyc EXCEPT ![c] = r]
      /\ timer_queue' = IF b.sta THEN RemoveFirst(timer_queue, c) ELSE timer_queue
      /\ UNCHANGED <<current_time, elapsed, handling, tmeb, waits, alm, due>>
  BY DEF tk_stp_cyc
<1>4. r \in CYCCB /\ ~r.sta /\ r.cychdr /\ r.cyctim = b.cyctim
  BY <1>2 DEF CYCCB
<1>5. c \in Started <=> b.sta
  BY TimerEventsAssumption DEF Started
<1> HIDE DEF r
<1>6. cyc'[c] = r /\ \A u \in Cycs \ {c} : cyc'[u] = cyc[u]
  BY <1>1, <1>3 DEF TimerTypeOK
<1>7. TimerTypeOK' /\ OnlyTimesOf(c)
  BY <1>1, <1>3, <1>4 DEF TimerTypeOK, TimesOK, OnlyTimesOf
<1>8. Started' = Started \ {c}
  BY <1>1, <1>3, <1>4, CycStarts
<1>9. InTime'
  <2>1. CASE b.sta
    <3>1. timer_queue' = RemoveFirst(timer_queue, c) /\ tmeb' = tmeb
      BY <1>3, <2>1
    <3> HIDE DEF b
    <3> QED BY <1>1, <1>8, <3>1, EventUnqueued DEF InTime
  <2>2. CASE ~b.sta
    <3>1. Started' = Started /\ timer_queue' = timer_queue /\ tmeb' = tmeb
      BY <1>3, <1>5, <1>8, <2>2
    <3> HIDE DEF b
    <3> QED BY <1>1, <3>1 DEF InTime
  <2> QED BY <2>1, <2>2
<1>10. InPhase(c)'
  BY <1>1, <1>2, <1>3, <1>4, <1>6 DEF InPhase, EventFact
<1>11. EventFact(c)'
  BY <1>4, <1>6, <1>8, <1>10 DEF EventFact
<1>12. Started' \ {c} = Started \ {c}
  BY <1>8
<1> HIDE DEF b
<1> QED BY <1>1, <1>3, <1>6, <1>7, <1>9, <1>11, <1>12, OthersKeep

LEMMA CreAlmKeeps ==
    ASSUME TimerInv, NEW a \in Alms, tk_cre_alm(a)
    PROVE  TimerInv'
<1> DEFINE b == alm[a]
           r == [b EXCEPT !.almhdr = TRUE]
<1>1. TimerTypeOK /\ InTime /\ TimesOK /\ EventFact(a) /\ a \in Events
  BY DEF TimerInv, TimerTypeOK, Events
<1>2. /\ alm' = [alm EXCEPT ![a] = r]
      /\ UNCHANGED <<current_time, elapsed, handling, timer_queue, tmeb, waits, cyc, due>>
  BY DEF tk_cre_alm
<1>3. r \in ALMCB /\ r.sta = b.sta
  BY <1>1 DEF TimerTypeOK, ALMCB
<1>4. a \in Started <=> b.sta
  BY TimerEventsAssumption DEF Started
<1> HIDE DEF r, b
<1>5. Started' = IF r.sta THEN Started \cup {a} ELSE Started \ {a}
  BY <1>1, <1>2, AlmStarts
<1>6. Started' = Started
  BY <1>3, <1>4, <1>5
<1>7. TimerTypeOK' /\ InTime' /\ OnlyTimesOf(a)
  BY <1>1, <1>2, <1>3, <1>6 DEF TimerTypeOK, TimesOK, InTime, OnlyTimesOf
<1>8. EventFact(a)' /\ a \notin Cycs
  BY <1>1, <1>2, <1>6, TimerEventsAssumption DEF EventFact
<1> QED BY <1>1, <1>2, <1>6, <1>7, <1>8, OthersKeep

LEMMA DelAlmKeeps ==
    ASSUME TimerInv, NEW a \in Alms, tk_del_alm(a)
    PROVE  TimerInv'
<1>1. TimerTypeOK
  BY DEF TimerInv
<1>2. /\ alm' = [alm EXCEPT ![a] = NoAlm] /\ Delete(a)
      /\ UNCHANGED <<current_time, elapsed, handling, waits, cyc>>
      /\ a \in Events /\ a \notin Cycs
  BY TimerEventsAssumption DEF tk_del_alm, Events
<1>3. NoAlm \in ALMCB /\ ~NoAlm.sta
  BY DEF NoAlm, ALMCB
<1>4. Started' = Started \ {a}
  BY <1>1, <1>2, <1>3, AlmStarts
<1>5. TimesOK' => TimerTypeOK'
  BY <1>1, <1>2, <1>3 DEF TimerTypeOK
<1> QED BY <1>2, <1>4, <1>5, Leaves

(* The alarm is stopped: tk_stp_alm, tk_sta_alm with the time 0, and the   *)
(* call of the handler.                                                    *)
LEMMA AlarmOff ==
    ASSUME TimerInv, NEW a \in Alms, alm' = [alm EXCEPT ![a].sta = FALSE], Delete(a),
           UNCHANGED <<current_time, elapsed, waits, cyc>>,
           handling' \in {"idle", "loop", "handler"},
           handling' = "idle" => handling = "idle"
    PROVE  TimerInv'
<1> DEFINE r == [alm[a] EXCEPT !.sta = FALSE]
<1>1. TimerTypeOK /\ a \in Events /\ a \notin Cycs
  BY TimerEventsAssumption DEF TimerInv, Events
<1>2. r \in ALMCB /\ ~r.sta
  BY <1>1 DEF TimerTypeOK, ALMCB
<1>3. alm' = [alm EXCEPT ![a] = r]
  OBVIOUS
<1> HIDE DEF r
<1>4. Started' = Started \ {a}
  BY <1>1, <1>2, <1>3, AlmStarts
<1>5. TimesOK' => TimerTypeOK'
  BY <1>1, <1>2, <1>3 DEF TimerTypeOK
<1> QED BY <1>1, <1>4, <1>5, Leaves

LEMMA StaAlmKeeps ==
    ASSUME TimerInv, NEW a \in Alms, NEW almtim \in RelTimes \cup {0},
           tk_sta_alm(a, almtim)
    PROVE  TimerInv'
<1>1. TimerTypeOK /\ InTime /\ TimesOK /\ a \in Events /\ a \notin Cycs
  BY TimerEventsAssumption DEF TimerInv, TimerTypeOK, Events
<1>2. /\ alm' = [alm EXCEPT ![a].sta = almtim > 0]
      /\ UNCHANGED <<current_time, elapsed, handling, waits, cyc>>
      /\ \/ /\ almtim > 0
            /\ Insert(RemoveFirst(timer_queue, a), a, FromNow(almtim), RealTime + almtim)
         \/ /\ almtim = 0
            /\ Delete(a)
  BY DEF tk_sta_alm
<1>3. almtim \in Nat
  BY TimerEventsAssumption
<1>4. CASE almtim = 0
  <2>1. Delete(a) /\ alm' = [alm EXCEPT ![a].sta = FALSE]
    <3>1. (almtim > 0) = FALSE
      BY <1>4
    <3>2. alm' = [alm EXCEPT ![a].sta = almtim > 0]
      BY <1>2
    <3>3. Delete(a)
      BY <1>2, <1>4
    <3> QED BY <3>1, <3>2, <3>3, Zenon
  <2>2. handling' \in {"idle", "loop", "handler"} /\ handling' = handling
    BY <1>1, <1>2 DEF TimerTypeOK
  <2> QED BY <1>2, <2>1, <2>2, AlarmOff
<1>5. CASE almtim > 0
  <2> DEFINE r == [alm[a] EXCEPT !.sta = TRUE]
             tm == FromNow(almtim)
             from == RealTime + almtim
             q == RemoveFirst(timer_queue, a)
  <2>1. Insert(q, a, tm, from) /\ alm' = [alm EXCEPT ![a] = r]
    <3>1. (almtim > 0) = TRUE
      BY <1>5
    <3>2. alm' = [alm EXCEPT ![a].sta = almtim > 0]
      BY <1>2
    <3>3. Insert(q, a, tm, from)
      BY <1>2, <1>5
    <3> QED BY <3>1, <3>2, <3>3, Zenon
  <2>2. r \in ALMCB /\ r.sta
    BY <1>1 DEF TimerTypeOK, ALMCB
  <2>3. tm \in Nat /\ from \in Nat /\ tm = from /\ tm >= current_time + almtim
    BY <1>1, <1>3, Now
  <2>4. Linked(Events, q, Started \ {a}) /\ SortedBy(q, tmeb)
    BY <1>1, EventUnqueued
  <2>5. a \in Events \ (Started \ {a})
    BY <1>1
  <2> HIDE DEF r, tm, from, q
  <2>6. /\ Linked(Events, timer_queue', (Started \ {a}) \cup {a})
        /\ SortedBy(timer_queue', tmeb')
        /\ OnlyTimesOf(a) /\ tmeb'[a] = tm /\ due'[a] = from
    BY <1>1, <2>1, <2>3, <2>4, <2>5, Inserted
  <2>7. Started' = Started \cup {a}
    BY <1>1, <1>2, <2>1, <2>2, AlmStarts
  <2>8. (Started \ {a}) \cup {a} = Started' /\ Started' \ {a} = Started \ {a}
    BY <2>7
  <2>9. InTime' /\ TimerTypeOK'
    BY <1>1, <1>2, <2>1, <2>2, <2>6, <2>8 DEF InTime, OnlyTimesOf, TimerTypeOK
  <2>10. tm > current_time /\ from <= tm
    BY <1>1, <1>3, <1>5, <2>3 DEF TimerTypeOK
  <2>11. EventFact(a)'
    BY <1>1, <1>2, <2>6, <2>10 DEF EventFact
  <2> QED BY <1>1, <1>2, <2>6, <2>8, <2>9, <2>11, OthersKeep
<1> QED BY <1>3, <1>4, <1>5

LEMMA StpAlmKeeps ==
    ASSUME TimerInv, NEW a \in Alms, tk_stp_alm(a)
    PROVE  TimerInv'
<1>1. /\ alm' = [alm EXCEPT ![a].sta = FALSE] /\ Delete(a)
      /\ UNCHANGED <<current_time, elapsed, handling, waits, cyc>>
  BY DEF tk_stp_alm
<1>2. handling \in {"idle", "loop", "handler"}
  BY DEF TimerInv, TimerTypeOK
<1> QED BY <1>1, <1>2, AlarmOff

-----------------------------------------------------------------------------
(* The timer interrupt                                                     *)

(* Time and the interrupt go on while no event moves. *)
LEMMA GoesOn ==
    ASSUME TimerInv, UNCHANGED <<timer_queue, tmeb, waits, cyc, alm, due>>,
           current_time' \in Nat, elapsed' \in Nat,
           handling' \in {"idle", "loop", "handler"},
           \A e \in Started : handling' = "idle" => tmeb[e] > current_time'
    PROVE  TimerInv'
<1>1. TimerTypeOK' /\ InTime' /\ Started' = Started
  BY DEF TimerInv, TimerTypeOK, TimesOK, InTime, Started, Events
<1>2. ASSUME NEW e \in Events PROVE EventFact(e)'
  BY <1>1 DEF TimerInv, EventFact, InPhase
<1> QED BY <1>1, <1>2 DEF TimerInv

LEMMA PassKeeps ==
    ASSUME TimerInv, Pass
    PROVE  TimerInv'
<1>1. \A e \in Started : handling = "idle" => tmeb[e] > current_time
  BY StartedEvents DEF TimerInv, EventFact
<1> QED BY <1>1, GoesOn DEF Pass, TimerInv, TimerTypeOK

LEMMA InterruptKeeps ==
    ASSUME TimerInv, TimerInterrupt
    PROVE  TimerInv'
  BY TimerEventsAssumption, GoesOn DEF TimerInterrupt, TimerInv, TimerTypeOK

LEMMA ReturnKeeps ==
    ASSUME TimerInv, HandlerReturns
    PROVE  TimerInv'
  BY GoesOn DEF HandlerReturns, TimerInv, TimerTypeOK

(* When the loop ends the event at the head is not due, so none is.        *)
LEMMA EndKeeps ==
    ASSUME TimerInv, EndOfInterrupt
    PROVE  TimerInv'
<1>1. InTime /\ TimerTypeOK
  BY DEF TimerInv
<1>2. ASSUME NEW e \in Started PROVE tmeb[e] > current_time
  <2>1. timer_queue # <<>> /\ Head(timer_queue) \in Events
    BY <1>1, EmptyLinked, HeadLinked DEF InTime
  <2>2. ~(tmeb[Head(timer_queue)] <= current_time)
    BY <2>1 DEF EndOfInterrupt, IsDue
  <2>3. e = Head(timer_queue) \/ tmeb[Head(timer_queue)] <= tmeb[e]
    BY <1>1, <2>1, LowestFirst DEF InTime
  <2>4. tmeb[e] \in Nat /\ tmeb[Head(timer_queue)] \in Nat /\ current_time \in Nat
    BY <1>1, <2>1, StartedEvents DEF TimerTypeOK, TimesOK
  <2> HIDE DEF Started
  <2> QED BY <2>2, <2>3, <2>4
<1>3. /\ UNCHANGED <<current_time, elapsed, timer_queue, tmeb, waits, cyc, alm, due>>
      /\ handling' = "idle"
  BY DEF EndOfInterrupt
<1>4. current_time' \in Nat /\ elapsed' \in Nat
      /\ handling' \in {"idle", "loop", "handler"}
  BY <1>1, <1>3 DEF TimerTypeOK
<1> QED BY <1>2, <1>3, <1>4, GoesOn

LEMMA HandleKeeps ==
    ASSUME TimerInv, HandleEvent
    PROVE  TimerInv'
<1>1. TimerTypeOK /\ InTime /\ TimesOK
  BY DEF TimerInv, TimerTypeOK
<1> PICK e \in Events : e = Head(timer_queue)
  BY <1>1, HeadLinked DEF HandleEvent, IsDue, InTime
<1>2. timer_queue # <<>> /\ e \in Started
      /\ Linked(Events, Tail(timer_queue), Started \ {e})
  BY <1>1, HeadLinked DEF HandleEvent, IsDue, InTime
<1>3. SortedBy(Tail(timer_queue), tmeb)
  BY <1>1, <1>2, TailInOrder DEF InTime, Linked
<1>4. UNCHANGED <<current_time, elapsed>> /\ handling = "loop"
  BY DEF HandleEvent
<1>5. \/ /\ e \in TimerTasks
         /\ waits' = [waits EXCEPT ![e] = "no"]
         /\ Delete(e)
         /\ UNCHANGED <<handling, cyc, alm>>
      \/ /\ e \in Cycs
         /\ Insert(Tail(timer_queue), e, cyc_next_time(tmeb[e], cyc[e].cyctim),
                   due[e] + cyc[e].cyctim)
         /\ handling' = "handler"
         /\ UNCHANGED <<waits, cyc, alm>>
      \/ /\ e \in Alms
         /\ alm' = [alm EXCEPT ![e].sta = FALSE]
         /\ Delete(e)
         /\ handling' = "handler"
         /\ UNCHANGED <<waits, cyc>>
  BY DEF HandleEvent
<1>6. CASE /\ e \in TimerTasks
           /\ waits' = [waits EXCEPT ![e] = "no"]
           /\ Delete(e)
           /\ UNCHANGED <<handling, cyc, alm>>
  <2>1. e \notin Cycs
    BY <1>6, TimerEventsAssumption
  <2>2. Started' = Started \ {e}
    <3> DEFINE w == "no"
    <3>1. w # "tmout" /\ waits' = [waits EXCEPT ![e] = w]
      BY <1>6
    <3> HIDE DEF w
    <3> QED BY <1>1, <1>6, <3>1, TaskStarts
  <2>3. TimesOK' => TimerTypeOK'
    BY <1>1, <1>4, <1>6 DEF TimerTypeOK
  <2> QED BY <1>2, <1>4, <1>6, <2>1, <2>2, <2>3, Leaves
<1>7. CASE /\ e \in Cycs
           /\ Insert(Tail(timer_queue), e, cyc_next_time(tmeb[e], cyc[e].cyctim),
                     due[e] + cyc[e].cyctim)
           /\ handling' = "handler"
           /\ UNCHANGED <<waits, cyc, alm>>
  <2> DEFINE c == cyc[e].cyctim
             tm == cyc_next_time(tmeb[e], c)
             from == due[e] + c
  <2>1. /\ c \in Nat \ {0} /\ tmeb[e] \in Nat /\ due[e] \in Nat
    BY <1>1, <1>2, <1>7 DEF TimerTypeOK, CYCCB, TimesOK
  <2>2. Insert(Tail(timer_queue), e, tm, from)
    BY <1>7
  <2>3. EventFact(e) /\ cyc[e].sta /\ cyc[e].cychdr
    BY <1>2, <1>7, TimerEventsAssumption DEF TimerInv, EventFact, Started
  <2> HIDE DEF c
  <2>4. PICK n \in Nat : tmeb[e] = due[e] + n * c
    BY <1>7, <2>3 DEF EventFact, InPhase, c
  <2> HIDE DEF tm
  <2>5. tm \in Nat /\ \E k \in Nat \ {0} : tm = tmeb[e] + k * c
    BY <1>1, <2>1, NextTime DEF tm
  <2>6. PICK k \in Nat \ {0} : tm = tmeb[e] + k * c
    BY <2>5
  <2>7. from \in Nat
    BY <2>1
  <2>8. tm = from + (n + k - 1) * c /\ n + k - 1 \in Nat
    BY <2>1, <2>4, <2>6
  <2>9. from <= tm
    <3> DEFINE m == n + k - 1
               d == m * c
    <3>1. m \in Nat
      BY <2>8
    <3> HIDE DEF m
    <3>2. d \in Nat
      BY <2>1, <3>1
    <3>3. tm = from + d
      BY <2>8 DEF m
    <3> HIDE DEF d, from
    <3> QED BY <2>7, <3>2, <3>3
  <2> HIDE DEF from
  <2>10. e \in Events \ (Started \ {e})
    BY <1>2
  <2>11. /\ Linked(Events, timer_queue', (Started \ {e}) \cup {e})
         /\ SortedBy(timer_queue', tmeb')
         /\ OnlyTimesOf(e) /\ tmeb'[e] = tm /\ due'[e] = from
    BY <1>1, <1>2, <1>3, <2>2, <2>5, <2>7, <2>10, Inserted
  <2>12. (Started \ {e}) \cup {e} = Started' /\ Started' \ {e} = Started \ {e}
    BY <1>2, <1>7 DEF Started
  <2>13. InTime' /\ TimerTypeOK'
    BY <1>1, <1>4, <1>7, <2>11, <2>12 DEF InTime, OnlyTimesOf, TimerTypeOK
  <2>14. InPhase(e)'
    BY <1>7, <2>8, <2>11 DEF InPhase, c
  <2>15. EventFact(e)'
    BY <1>7, <2>3, <2>9, <2>11, <2>14 DEF EventFact
  <2> QED BY <1>2, <1>4, <1>7, <2>11, <2>12, <2>13, <2>15, OthersKeep
<1>8. CASE /\ e \in Alms
           /\ alm' = [alm EXCEPT ![e].sta = FALSE]
           /\ Delete(e)
           /\ handling' = "handler"
           /\ UNCHANGED <<waits, cyc>>
  BY <1>4, <1>8, AlarmOff
<1> QED BY <1>5, <1>6, <1>7, <1>8

-----------------------------------------------------------------------------
(* The theorems                                                            *)

LEMMA TimerBegins == TimerInit => TimerInv
<1> SUFFICES ASSUME TimerInit PROVE TimerInv
  OBVIOUS
<1>1. Started = {}
  BY DEF TimerInit, Started, NoCyc, NoAlm
<1>2. TimerTypeOK
  BY DEF TimerInit, TimerTypeOK, TimesOK, NoCyc, NoAlm, CYCCB, ALMCB
<1>3. Linked(Events, timer_queue, {}) /\ Len(timer_queue) = 0
  BY NothingLinked DEF TimerInit
<1>4. InTime
  BY <1>1, <1>3 DEF InTime, SortedBy
<1>5. ASSUME NEW e \in Events PROVE EventFact(e)
  BY <1>1 DEF TimerInit, EventFact, NoCyc
<1> QED BY <1>2, <1>4, <1>5 DEF TimerInv

LEMMA TimerKeeps == TimerInv /\ [TimerNext]_timervars => TimerInv'
<1> SUFFICES ASSUME TimerInv, [TimerNext]_timervars PROVE TimerInv'
  OBVIOUS
<1>1. CASE UNCHANGED timervars
  BY <1>1 DEF timervars, TimerInv, TimerTypeOK, TimesOK, InTime, EventFact, InPhase,
              Started, Events
<1>2. CASE Pass \/ TimerInterrupt \/ HandleEvent \/ HandlerReturns \/ EndOfInterrupt
  BY <1>2, PassKeeps, InterruptKeeps, HandleKeeps, ReturnKeeps, EndKeeps
<1>3. ASSUME NEW t \in TimerTasks, Wait(t) \/ Release(t) PROVE TimerInv'
  BY <1>3, WaitKeeps, ReleaseKeeps
<1>4. ASSUME NEW c \in Cycs, NEW phs \in BOOLEAN, NEW sta \in BOOLEAN,
             NEW cyctim \in RelTimes, NEW cycphs \in RelTimes \cup {0},
             tk_cre_cyc(c, phs, sta, cyctim, cycphs)
      PROVE  TimerInv'
  BY <1>4, CreCycKeeps
<1>5. ASSUME NEW c \in Cycs, tk_del_cyc(c) \/ tk_sta_cyc(c) \/ tk_stp_cyc(c)
      PROVE  TimerInv'
  BY <1>5, DelCycKeeps, StaCycKeeps, StpCycKeeps
<1>6. ASSUME NEW a \in Alms, tk_cre_alm(a) \/ tk_del_alm(a) \/ tk_stp_alm(a)
      PROVE  TimerInv'
  BY <1>6, CreAlmKeeps, DelAlmKeeps, StpAlmKeeps
<1>7. ASSUME NEW a \in Alms, NEW almtim \in RelTimes \cup {0}, tk_sta_alm(a, almtim)
      PROVE  TimerInv'
  BY <1>7, StaAlmKeeps
<1> QED BY <1>1, <1>2, <1>3, <1>4, <1>5, <1>6, <1>7 DEF TimerNext

(* The queue and the times always belong together: the events of the       *)
(* control blocks that are started are linked, in the order of their time, *)
(* and every cyclic handler, stopped ones too, is in phase.                *)
THEOREM TimerInvariant == TimerSpec => []TimerInv
<1>1. TimerInit => TimerInv
  BY TimerBegins
<1>2. TimerInv /\ [TimerNext]_timervars => TimerInv'
  BY TimerKeeps
<1> QED BY <1>1, <1>2, PTL DEF TimerSpec

(* What is started is queued, once, and nothing else; and the timer        *)
(* interrupt (timer_handler) leaves no event that was due.                 *)
THEOREM QueueCorrect == TimerSpec => []QueuedExactly
<1>1. TimerInv => QueuedExactly
  BY StartedEvents DEF TimerInv, InTime, Linked, EventFact, QueuedExactly
<1> QED BY <1>1, TimerInvariant, PTL

(* No timeout, alarm or cyclic call (call_cychdr, call_almhdr) comes before *)
(* its time, and cyclic handlers keep their phase.                         *)
THEOREM TimesCorrect == TimerSpec => []NeverEarly
<1>1. ASSUME TimerInv PROVE NeverEarly
  <2>1. ASSUME NEW e \in ToSet(timer_queue), tmeb[e] <= current_time
        PROVE  due[e] <= RealTime
    <3>1. e \in Started /\ e \in Events
      BY <1>1, StartedEvents DEF TimerInv, InTime, Linked
    <3>2. due[e] <= tmeb[e]
      BY <1>1, <3>1 DEF TimerInv, EventFact
    <3>3. /\ due[e] \in Nat /\ tmeb[e] \in Nat
          /\ current_time \in Nat /\ elapsed \in Nat
      BY <1>1, <3>1 DEF TimerInv, TimerTypeOK, TimesOK
    <3> QED BY <2>1, <3>2, <3>3 DEF RealTime
  <2>2. ASSUME NEW c \in Cycs, cyc[c].sta
        PROVE  tmeb[c] >= due[c] /\ (tmeb[c] - due[c]) % cyc[c].cyctim = 0
    <3>1. c \in Events
      BY DEF Events
    <3>2. InPhase(c)
      BY <1>1, <2>2, <3>1 DEF TimerInv, EventFact
    <3>3. PICK n \in Nat : tmeb[c] = due[c] + n * cyc[c].cyctim
      BY <3>2 DEF InPhase
    <3>4. due[c] \in Nat /\ cyc[c].cyctim \in Nat \ {0}
      BY <1>1, <3>1 DEF TimerInv, TimerTypeOK, TimesOK, CYCCB
    <3> QED BY <3>3, <3>4, WholeCycles
  <2> QED BY <2>1, <2>2 DEF NeverEarly
<1> QED BY <1>1, TimerInvariant, PTL
=============================================================================
