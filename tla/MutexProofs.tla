---------------------------- MODULE MutexProofs -----------------------------
(***************************************************************************)
(* What is proved of the mutexes, for any tasks, mutexes, priorities and   *)
(* ceilings.                                                               *)
(***************************************************************************)
EXTENDS Mutex, QueueLemmas, FiniteSetTheorems

(* p is the least element of D. *)
Least(p, D) == p \in D /\ \A q \in D : p <= q

LEMMA LeastIsMin ==
    ASSUME NEW D \in SUBSET Nat, D # {}
    PROVE  Least(Min(D), D) /\ \A p : Least(p, D) => p = Min(D)
<1>1. \E n \in D : \A m \in D : n <= m
  BY LeastElement
<1>2. Least(Min(D), D)
  BY <1>1 DEF Min, Least
<1>3. ASSUME NEW p, Least(p, D) PROVE p = Min(D)
  <2>1. p \in Nat /\ Min(D) \in Nat /\ p <= Min(D) /\ Min(D) <= p
    BY <1>2, <1>3 DEF Least
  <2> QED BY <2>1
<1> QED BY <1>2, <1>3

LEMMA Priorities == Pri \subseteq Nat /\ 0 \in Pri /\ IsFiniteSet(Tasks)
                    /\ NULL \notin Tasks /\ NULL \notin Mutexes
  BY MutexAssumption DEF Pri

-----------------------------------------------------------------------------
(* Queues by priority                                                      *)

(* queue_insert_tpri keeps the order of a queue by priority. *)
LEMMA InsertInOrder ==
    ASSUME NEW q, NEW A, Linked(Tasks, q, A), NEW t \in Tasks \ A,
           NEW f \in [Tasks -> Pri], SortedBy(q, f)
    PROVE  /\ Linked(Tasks, queue_insert_tpri(q, t, f), A \cup {t})
           /\ SortedBy(queue_insert_tpri(q, t, f), f)
<1> DEFINE n == Len(q)
           lower == {i \in DOMAIN q : f[q[i]] > f[t]}
           k == IF lower = {} THEN n + 1 ELSE Min(lower)
           r == queue_insert_tpri(q, t, f)
<1>1. /\ q \in Seq(Tasks) /\ n \in Nat /\ DOMAIN q = 1 .. n
      /\ \A i \in 1 .. n : q[i] \in Tasks
      /\ \A u : u \in A <=> \E i \in 1 .. n : q[i] = u
      /\ \A i, j \in 1 .. n : q[i] = q[j] => i = j
  BY PlacesOf DEF Linked
<1>2. \A u \in Tasks : f[u] \in Nat
  BY Priorities
<1>3. /\ k \in 1 .. n + 1
      /\ \A i \in 1 .. n : i < k => f[q[i]] <= f[t]
      /\ \A i \in 1 .. n : i >= k => f[t] <= f[q[i]]
  <2>1. CASE lower = {}
    <3>1. k = n + 1
      BY <2>1
    <3>2. ASSUME NEW i \in 1 .. n PROVE f[q[i]] <= f[t] /\ ~(i >= k)
      <4>1. ~(f[q[i]] > f[t]) /\ f[q[i]] \in Nat /\ f[t] \in Nat
        BY <1>1, <1>2, <2>1
      <4> QED BY <1>1, <3>1, <4>1
    <3> QED BY <1>1, <3>1, <3>2
  <2>2. CASE lower # {}
    <3>1. lower \in SUBSET Nat
      BY <1>1
    <3>2. k \in lower /\ \A i \in lower : k <= i
      BY <2>2, <3>1, LeastIsMin DEF Least
    <3>3. k \in 1 .. n /\ f[q[k]] > f[t]
      BY <1>1, <3>2
    <3>4. ASSUME NEW i \in 1 .. n, i < k PROVE f[q[i]] <= f[t]
      <4>1. ~(k <= i)
        BY <1>1, <3>3, <3>4
      <4>2. i \notin lower
        BY <3>2, <4>1
      <4>3. ~(f[q[i]] > f[t]) /\ f[q[i]] \in Nat /\ f[t] \in Nat
        BY <1>1, <1>2, <4>2
      <4> QED BY <4>3
    <3>5. ASSUME NEW i \in 1 .. n, i >= k PROVE f[t] <= f[q[i]]
      <4>1. i = k \/ f[q[k]] <= f[q[i]]
        BY <3>3, <3>5 DEF SortedBy
      <4>2. f[q[i]] \in Nat /\ f[t] \in Nat /\ f[q[k]] \in Nat
        BY <1>1, <1>2, <3>3
      <4>3. f[q[k]] > f[t]
        BY <3>3, Zenon
      <4> HIDE DEF k
      <4>4. CASE i = k
        BY <4>2, <4>3, <4>4
      <4>5. CASE f[q[k]] <= f[q[i]]
        BY <4>2, <4>3, <4>5
      <4> QED BY <4>1, <4>4, <4>5
    <3> QED BY <1>1, <3>3, <3>4, <3>5
  <2> QED BY <2>1, <2>2
<1>4. r = InsertAt(q, k, t)
  BY DEF queue_insert_tpri
<1> HIDE DEF k, lower, r
<1>5. Fits(q, f, k, f[t])
  BY <1>1, <1>3 DEF Fits
<1> QED BY <1>4, <1>5, InsertedInOrder DEF r

(* A queue by priority has a task of the highest priority at its head, *)
LEMMA HeadFirst ==
    ASSUME NEW q \in Seq(Tasks), q # <<>>, NEW f \in [Tasks -> Pri], SortedBy(q, f)
    PROVE  Head(q) \in ToSet(q) /\ \A u \in ToSet(q) : f[Head(q)] <= f[u]
<1>1. /\ Len(q) \in Nat \ {0} /\ \A i \in 1 .. Len(q) : q[i] \in Tasks
      /\ \A u : u \in ToSet(q) <=> \E i \in 1 .. Len(q) : q[i] = u
      /\ Head(q) = q[1]
  BY PlacesOf
<1>2. ASSUME NEW u \in ToSet(q) PROVE f[q[1]] <= f[u]
  <2>1. PICK i \in 1 .. Len(q) : q[i] = u
    BY <1>1
  <2>2. f[q[1]] \in Nat
    <3>1. 1 \in 1 .. Len(q)
      BY <1>1
    <3>2. q[1] \in Tasks
      BY <1>1, <3>1
    <3> QED BY <3>2, Priorities
  <2>3. i = 1 \/ (1 \in 1 .. Len(q) /\ 1 < i)
    BY <1>1
  <2> QED BY <2>1, <2>2, <2>3 DEF SortedBy
<1> QED BY <1>1, <1>2

-----------------------------------------------------------------------------
(* The state of the mutexes, as operators of a kernel state k and of what  *)
(* was created, a                                                          *)
States == {"DORMANT", "READY", "WAIT", "SUSPEND", "WAITSUS"}

KernelType ==
    [state : [Tasks -> States], bpri : [Tasks -> Pri], pri : [Tasks -> Pri],
     wid : [Tasks -> Mutexes \cup {NULL}], list : [Tasks -> SUBSET Mutexes],
     owner : [Mutexes -> Tasks \cup {NULL}], queue : [Mutexes -> Seq(Tasks)]]

Created == [exists |-> exists, attr |-> attr, ceil |-> ceilpri]

CreatedType ==
    [exists : [Mutexes -> BOOLEAN], attr : [Mutexes -> Attributes],
     ceil : [Mutexes -> Pri]]

In(k, m) == ToSet(k.queue[m])

(* The tasks that wait for the inheritance mutexes of t *)
Followers(a, k, t) ==
    {u \in Tasks : \E m \in k.list[t] : a.attr[m] = "INHERIT" /\ u \in In(k, m)}

(* The base priority of t and the ceilings of its mutexes *)
OwnClaims(a, k, t) ==
    {k.bpri[t]} \cup {a.ceil[m] : m \in {n \in k.list[t] : a.attr[n] = "CEILING"}}

Claims(a, k, t) == OwnClaims(a, k, t) \cup {k.pri[u] : u \in Followers(a, k, t)}

(* t has the priority that mutex.c:113 says. *)
Exact(a, k, t) == Least(k.pri[t], Claims(a, k, t))

(* The lists and owners agree; R are mutexes just taken from their list. *)
Owned(a, k, R) ==
    /\ \A m \in Mutexes, t \in Tasks : m \in k.list[t] <=> k.owner[m] = t /\ m \notin R
    /\ \A m \in Mutexes :
        k.owner[m] # NULL => a.exists[m] /\ k.state[k.owner[m]] # "DORMANT"

(* A task that waits does so for another's mutex, and is in its queue      *)
(* unless it is in B: tasks just taken from it.                            *)
Waiting(k, B) ==
    \A t \in Tasks :
        IF Waits(k, t)
        THEN /\ k.wid[t] \in Mutexes /\ k.owner[k.wid[t]] \in Tasks \ {t}
             /\ t \notin B => t \in In(k, k.wid[t])
        ELSE k.wid[t] = NULL

Queued(k) ==
    \A m \in Mutexes :
        IsInjective(k.queue[m]) /\ \A t \in In(k, m) : Waits(k, t) /\ k.wid[t] = m

Sorted(a, k) ==
    \A m \in Mutexes : a.attr[m] # "TFIFO" => SortedBy(k.queue[m], k.pri)

Orderly(a, k, B) == k \in KernelType /\ Waiting(k, B) /\ Queued(k) /\ Sorted(a, k)

(* No ceiling is below the base priority of a task that has the mutex or   *)
(* waits for it,                                                           *)
Refused(a, k) ==
    \A t \in Tasks, m \in Mutexes :
        a.attr[m] = "CEILING" /\ (m \in k.list[t] \/ k.wid[t] = m)
        => k.bpri[t] >= a.ceil[m]

(* and priority p is not below those of t's mutexes.                       *)
Lifts(a, k, t, p) == \A m \in k.list[t] : a.attr[m] = "CEILING" => p <= a.ceil[m]

Lifted(a, k, t) == Lifts(a, k, t, k.pri[t])

(* What change_task_priority leaves alone *)
Same(k, n) ==
    /\ n.state = k.state /\ n.bpri = k.bpri /\ n.wid = k.wid
    /\ n.list = k.list /\ n.owner = k.owner

LEMMA KernelTyped == TypeOK <=> /\ Kernel \in KernelType /\ Created \in CreatedType
                                /\ circular \in BOOLEAN
  BY DEF TypeOK, Kernel, KernelType, Created, CreatedType, States

LEMMA Fields ==
    ASSUME NEW k \in KernelType
    PROVE  /\ k.state \in [Tasks -> States]
           /\ k.bpri \in [Tasks -> Pri] /\ k.pri \in [Tasks -> Pri]
           /\ k.wid \in [Tasks -> Mutexes \cup {NULL}]
           /\ k.list \in [Tasks -> SUBSET Mutexes]
           /\ k.owner \in [Mutexes -> Tasks \cup {NULL}]
           /\ k.queue \in [Mutexes -> Seq(Tasks)]
           /\ k = [state |-> k.state, bpri |-> k.bpri, pri |-> k.pri, wid |-> k.wid,
                   list |-> k.list, owner |-> k.owner, queue |-> k.queue]
  BY DEF KernelType

LEMMA LeastUnique ==
    ASSUME NEW p \in Nat, NEW q \in Nat, NEW D, Least(p, D), Least(q, D)
    PROVE  p = q
<1>1. p <= q /\ q <= p
  BY DEF Least
<1> QED BY <1>1

(* The claims are priorities. *)
LEMMA ClaimsTyped ==
    ASSUME NEW a \in CreatedType, NEW k \in KernelType, NEW t \in Tasks
    PROVE  Claims(a, k, t) \subseteq Pri
<1>1. k.bpri[t] \in Pri /\ k.list[t] \subseteq Mutexes
      /\ \A m \in Mutexes : a.ceil[m] \in Pri
      /\ \A u \in Tasks : k.pri[u] \in Pri
  BY Fields DEF CreatedType
<1> QED BY <1>1 DEF Claims, OwnClaims, Followers

(* release_mutex looks only at the heads of the queues: that is enough. *)
LEMMA DueIsLeast ==
    ASSUME Created \in CreatedType, NEW k \in KernelType, Sorted(Created, k),
           NEW t \in Tasks
    PROVE  Due(k, t) \in Pri /\ Least(Due(k, t), Claims(Created, k, t))
<1> DEFINE D == {k.bpri[t]} \cup Lent(k, t)
<1>1. /\ k.bpri[t] \in Pri /\ k.list[t] \subseteq Mutexes /\ k.pri \in [Tasks -> Pri]
      /\ \A m \in Mutexes : k.queue[m] \in Seq(Tasks)
  BY Fields
<1>2. /\ \A m \in Mutexes : ceilpri[m] \in Pri
      /\ Created.attr = attr /\ Created.ceil = ceilpri
  BY DEF CreatedType, Created
<1>3. ASSUME NEW m \in k.list[t], attr[m] = "INHERIT", k.queue[m] # <<>>
      PROVE  /\ Head(k.queue[m]) \in In(k, m)
             /\ Head(k.queue[m]) \in Tasks
             /\ \A u \in In(k, m) : k.pri[Head(k.queue[m])] <= k.pri[u]
  <2>1. SortedBy(k.queue[m], k.pri)
    BY <1>1, <1>2, <1>3 DEF Sorted
  <2>2. k.queue[m] \in Seq(Tasks)
    BY <1>1, <1>3
  <2>3. Head(k.queue[m]) \in Tasks
    BY <1>3, <2>2, HeadTailProperties
  <2> QED BY <1>1, <1>3, <2>1, <2>2, <2>3, HeadFirst DEF In
<1>4. D \subseteq Claims(Created, k, t)
  <2>1. ASSUME NEW m \in k.list[t], attr[m] = "INHERIT", k.queue[m] # <<>>
        PROVE  Head(k.queue[m]) \in Followers(Created, k, t)
    BY <1>2, <1>3, <2>1 DEF Followers
  <2> QED BY <1>2, <2>1 DEF Lent, Claims, OwnClaims
<1>5. Claims(Created, k, t) \subseteq Pri
  BY ClaimsTyped
<1>6. D \in SUBSET Nat /\ D # {}
  BY <1>4, <1>5, Priorities
<1>7. Least(Min(D), D)
  BY <1>6, LeastIsMin
<1>8. Due(k, t) = Min(D)
  BY DEF Due
<1>9. ASSUME NEW x \in Claims(Created, k, t) PROVE \E y \in D : y <= x
  <2>1. CASE x \in OwnClaims(Created, k, t)
    <3>1. x \in D /\ x \in Nat
      BY <1>2, <1>5, <2>1, Priorities DEF OwnClaims, Lent
    <3> QED BY <3>1
  <2>2. CASE x \notin OwnClaims(Created, k, t)
    <3>1. PICK u \in Followers(Created, k, t) : x = k.pri[u]
      BY <2>2 DEF Claims
    <3>2. PICK m \in k.list[t] : attr[m] = "INHERIT" /\ u \in In(k, m)
      BY <1>2, <3>1 DEF Followers
    <3>3. k.queue[m] # <<>>
      BY <3>2 DEF In, ToSet
    <3>4. k.pri[Head(k.queue[m])] \in D
      BY <3>2, <3>3 DEF Lent
    <3> QED BY <1>3, <3>1, <3>2, <3>3, <3>4
  <2> QED BY <2>1, <2>2
<1> HIDE DEF D
<1>10. ASSUME NEW x \in Claims(Created, k, t) PROVE Min(D) <= x
  <2>1. PICK y \in D : y <= x
    BY <1>9
  <2>2. Min(D) <= y /\ Min(D) \in Nat /\ y \in Nat /\ x \in Nat
    BY <1>5, <1>6, <1>7, Priorities DEF Least
  <2> QED BY <2>1, <2>2
<1> QED BY <1>4, <1>5, <1>7, <1>8, <1>10 DEF Least

-----------------------------------------------------------------------------
(* One call of change_task_priority                                        *)

(* u has a hook for changes of its priority. *)
Hooked(k, u) == Waits(k, u) /\ attr[k.wid[u]] # "TFIFO"

(* What the call does itself *)
After(k, u, p) ==
    IF Hooked(k, u) THEN gcb_change_priority([k EXCEPT !.pri[u] = p], k.wid[u], u)
    ELSE [k EXCEPT !.pri[u] = p]

AfterFields(k, u, p, n) ==
    /\ Same(k, n) /\ n.pri = [k.pri EXCEPT ![u] = p]
    /\ \A m \in Mutexes :
        n.queue[m] = IF Hooked(k, u) /\ k.wid[u] = m
                     THEN queue_insert_tpri(RemoveFirst(k.queue[m], u), u, n.pri)
                     ELSE k.queue[m]

LEMMA AfterIs ==
    ASSUME NEW k \in KernelType, NEW u \in Tasks, NEW p \in Pri
    PROVE  AfterFields(k, u, p, After(k, u, p))
<1> DEFINE k1 == [k EXCEPT !.pri[u] = p]
           m0 == k.wid[u]
<1>1. /\ k1 = [k EXCEPT !.pri = [k.pri EXCEPT ![u] = p]]
      /\ Same(k, k1) /\ k1.pri = [k.pri EXCEPT ![u] = p] /\ k1.queue = k.queue
  BY DEF KernelType, Same
<1>2. CASE ~Hooked(k, u)
  BY <1>1, <1>2 DEF After, AfterFields
<1>3. CASE Hooked(k, u)
  <2> DEFINE n == gcb_change_priority(k1, m0, u)
  <2>1. n = [k1 EXCEPT !.queue[m0] = queue_insert_tpri(RemoveFirst(@, u), u, k1.pri)]
    BY DEF gcb_change_priority
  <2>2. k1.queue \in [Mutexes -> Seq(Tasks)]
    BY <1>1, Fields
  <2>3. /\ n.state = k1.state /\ n.bpri = k1.bpri /\ n.wid = k1.wid
        /\ n.list = k1.list /\ n.owner = k1.owner /\ n.pri = k1.pri
        /\ n.queue = [k1.queue EXCEPT
              ![m0] = queue_insert_tpri(RemoveFirst(k1.queue[m0], u), u, k1.pri)]
    BY <2>1 DEF KernelType
  <2> HIDE DEF n, k1
  <2>4. \A m \in Mutexes :
            n.queue[m] = IF m = m0 THEN queue_insert_tpri(RemoveFirst(k.queue[m], u), u, n.pri)
                         ELSE k.queue[m]
    BY <1>1, <2>2, <2>3
  <2>5. n = After(k, u, p)
    BY <1>3 DEF After, n, k1
  <2>6. Same(k, n) /\ n.pri = [k.pri EXCEPT ![u] = p]
    BY <1>1, <2>3 DEF Same
  <2> QED BY <1>3, <2>4, <2>5, <2>6 DEF AfterFields
<1> QED BY <1>2, <1>3

LEMMA QueueLinked ==
    ASSUME NEW k \in KernelType, Queued(k), NEW m \in Mutexes
    PROVE  Linked(Tasks, k.queue[m], In(k, m)) /\ In(k, m) \subseteq Tasks
<1>1. k.queue[m] \in Seq(Tasks) /\ IsInjective(k.queue[m])
  BY Fields DEF Queued
<1>2. Linked(Tasks, k.queue[m], In(k, m))
  BY <1>1 DEF Linked, In
<1>3. In(k, m) \subseteq Tasks
  BY <1>1, PlacesOf DEF In
<1> QED BY <1>2, <1>3

AfterIn(k, u, n) ==
    \A m \in Mutexes :
        In(n, m) = IF Hooked(k, u) /\ k.wid[u] = m THEN In(k, m) \cup {u} ELSE In(k, m)

(* A record with the fields of a kernel state is one. *)
IsRecord(n) ==
    n = [state |-> n.state, bpri |-> n.bpri, pri |-> n.pri, wid |-> n.wid,
         list |-> n.list, owner |-> n.owner, queue |-> n.queue]

LEMMA AfterRecord ==
    ASSUME NEW k \in KernelType, NEW u, NEW p
    PROVE  IsRecord(After(k, u, p))
<1> DEFINE k1 == [k EXCEPT !.pri[u] = p]
<1>1. IsRecord(k1)
  <2>1. IsRecord(k)
    BY Fields DEF IsRecord
  <2>2. k1 = [k EXCEPT !.pri = [k.pri EXCEPT ![u] = p]]
    OBVIOUS
  <2> HIDE DEF k1
  <2> QED BY <2>1, <2>2 DEF IsRecord
<1>2. ASSUME NEW k2, IsRecord(k2), NEW m
      PROVE  IsRecord(gcb_change_priority(k2, m, u))
  BY <1>2 DEF gcb_change_priority, IsRecord
<1> QED BY <1>1, <1>2 DEF After

LEMMA RecordTyped ==
    ASSUME NEW n, IsRecord(n),
           n.state \in [Tasks -> States],
           n.bpri \in [Tasks -> Pri], n.pri \in [Tasks -> Pri],
           n.wid \in [Tasks -> Mutexes \cup {NULL}],
           n.list \in [Tasks -> SUBSET Mutexes],
           n.owner \in [Mutexes -> Tasks \cup {NULL}],
           n.queue \in [Mutexes -> Seq(Tasks)]
    PROVE  n \in KernelType
  BY DEF IsRecord, KernelType

LEMMA AfterOrderly ==
    ASSUME Created \in CreatedType, NEW B, NEW k, Orderly(Created, k, B),
           NEW u \in Tasks, NEW p \in Pri
    PROVE  /\ AfterFields(k, u, p, After(k, u, p))
           /\ AfterIn(k, u, After(k, u, p))
           /\ Orderly(Created, After(k, u, p), B)
<1> DEFINE n == After(k, u, p)
           m0 == k.wid[u]
<1>1. k \in KernelType /\ Waiting(k, B) /\ Queued(k) /\ Sorted(Created, k)
  BY DEF Orderly
<1>2. AfterFields(k, u, p, n) /\ IsRecord(n)
  BY <1>1, AfterIs, AfterRecord
<1> HIDE DEF n
<1>3. /\ Same(k, n) /\ n.pri = [k.pri EXCEPT ![u] = p]
      /\ \A m \in Mutexes :
          n.queue[m] = IF Hooked(k, u) /\ m0 = m
                       THEN queue_insert_tpri(RemoveFirst(k.queue[m], u), u, n.pri)
                       ELSE k.queue[m]
  BY <1>2 DEF AfterFields
<1>4. n.pri \in [Tasks -> Pri] /\ k.pri \in [Tasks -> Pri]
      /\ \A v \in Tasks : v # u => n.pri[v] = k.pri[v]
  BY <1>1, <1>3, Fields
<1>5. Created.attr = attr
  BY DEF Created
<1>6. ASSUME NEW m \in Mutexes, Hooked(k, u), m0 = m
      PROVE  /\ Linked(Tasks, n.queue[m], In(k, m) \cup {u})
             /\ SortedBy(n.queue[m], n.pri)
  <2> DEFINE r == RemoveFirst(k.queue[m], u)
  <2>1. Linked(Tasks, k.queue[m], In(k, m)) /\ In(k, m) \subseteq Tasks
    BY <1>1, QueueLinked
  <2>2. SortedBy(k.queue[m], k.pri)
    BY <1>1, <1>5, <1>6 DEF Sorted, Hooked
  <2>3. /\ Linked(Tasks, r, In(k, m) \ {u})
        /\ \A f, g : SortedBy(k.queue[m], f) /\ (\A v \in In(k, m) \ {u} : g[v] = f[v])
                     => SortedBy(r, g)
    <3> DEFINE q == k.queue[m]
               A == In(k, m)
    <3>1. Linked(Tasks, q, A)
      BY <2>1
    <3> HIDE DEF q, A
    <3>2. /\ Linked(Tasks, RemoveFirst(q, u), A \ {u})
          /\ \A f, g : SortedBy(q, f) /\ (\A v \in A \ {u} : g[v] = f[v])
                       => SortedBy(RemoveFirst(q, u), g)
      BY <3>1, RemoveInOrder
    <3> QED BY <3>2, Zenon DEF q, A
  <2>4. SortedBy(r, n.pri)
    <3>1. \A v \in In(k, m) \ {u} : n.pri[v] = k.pri[v]
      BY <1>4, <2>1
    <3> QED BY <2>2, <2>3, <3>1
  <2> HIDE DEF r
  <2>5. u \in Tasks \ (In(k, m) \ {u})
    OBVIOUS
  <2> DEFINE w == queue_insert_tpri(r, u, n.pri)
             A == In(k, m) \ {u}
  <2>6. Linked(Tasks, r, A) /\ u \in Tasks \ A
    BY <2>3, <2>5
  <2> HIDE DEF A
  <2>7. Linked(Tasks, w, A \cup {u}) /\ SortedBy(w, n.pri)
    BY <1>4, <2>4, <2>6, InsertInOrder
  <2>8. n.queue[m] = w /\ A \cup {u} = In(k, m) \cup {u}
    BY <1>3, <1>6 DEF r, A
  <2> QED BY <2>7, <2>8
<1>7. AfterIn(k, u, n)
  <2>1. ASSUME NEW m \in Mutexes
        PROVE  In(n, m) = IF Hooked(k, u) /\ k.wid[u] = m THEN In(k, m) \cup {u}
                          ELSE In(k, m)
    BY <1>3, <1>6 DEF In, Linked
  <2> QED BY <2>1 DEF AfterIn
<1>8. n.queue \in [Mutexes -> Seq(Tasks)]
  <2>1. ASSUME NEW m \in Mutexes PROVE n.queue[m] \in Seq(Tasks)
    BY <1>1, <1>3, <1>6, Fields DEF Linked
  <2>2. DOMAIN n.queue = Mutexes /\ n.queue = [m \in DOMAIN n.queue |-> n.queue[m]]
    <3> DEFINE k1 == [k EXCEPT !.pri[u] = p]
    <3>1. k1.queue = k.queue
      BY <1>1 DEF KernelType
    <3>2. k.queue = [m \in Mutexes |-> k.queue[m]]
      BY <1>1, Fields
    <3>3. CASE ~Hooked(k, u)
      BY <3>1, <3>2, <3>3 DEF n, After
    <3>4. CASE Hooked(k, u)
      <4>1. n = [k1 EXCEPT !.queue[m0] = queue_insert_tpri(RemoveFirst(@, u), u, k1.pri)]
        BY <3>4 DEF n, After, gcb_change_priority
      <4>2. n.queue = [k1.queue EXCEPT
               ![m0] = queue_insert_tpri(RemoveFirst(k1.queue[m0], u), u, k1.pri)]
        BY <1>1, <4>1 DEF KernelType
      <4> QED BY <3>1, <3>2, <4>2
    <3> QED BY <3>3, <3>4
  <2> QED BY <2>1, <2>2
<1>9. n \in KernelType
  <2>1. /\ n.state \in [Tasks -> States] /\ n.bpri \in [Tasks -> Pri]
        /\ n.wid \in [Tasks -> Mutexes \cup {NULL}]
        /\ n.list \in [Tasks -> SUBSET Mutexes]
        /\ n.owner \in [Mutexes -> Tasks \cup {NULL}]
    BY <1>1, <1>3, Fields DEF Same
  <2> QED BY <1>2, <1>4, <1>8, <2>1, RecordTyped
<1>10. Waiting(n, B)
  <2>1. ASSUME NEW t \in Tasks
        PROVE  IF Waits(n, t)
               THEN /\ n.wid[t] \in Mutexes /\ n.owner[n.wid[t]] \in Tasks \ {t}
                    /\ t \notin B => t \in In(n, n.wid[t])
               ELSE n.wid[t] = NULL
    <3>1. \A m \in Mutexes : In(k, m) \subseteq In(n, m)
      BY <1>7 DEF AfterIn
    <3> QED BY <1>1, <1>3, <3>1 DEF Waiting, Waits, Same
  <2> QED BY <2>1 DEF Waiting
<1>11. Queued(n)
  <2>1. ASSUME NEW m \in Mutexes
        PROVE  IsInjective(n.queue[m]) /\ \A t \in In(n, m) : Waits(n, t) /\ n.wid[t] = m
    <3>1. \A t \in In(n, m) : t \in In(k, m) \/ (t = u /\ Waits(k, u) /\ k.wid[u] = m)
      BY <1>7 DEF AfterIn, Hooked
    <3>2. IsInjective(n.queue[m])
      BY <1>1, <1>3, <1>6 DEF Linked, Queued
    <3> QED BY <1>1, <1>3, <3>1, <3>2 DEF Queued, Waits, Same
  <2> QED BY <2>1 DEF Queued
<1>12. Sorted(Created, n)
  <2>1. ASSUME NEW m \in Mutexes, attr[m] # "TFIFO" PROVE SortedBy(n.queue[m], n.pri)
    <3>1. CASE Hooked(k, u) /\ m0 = m
      BY <1>6, <3>1
    <3>2. CASE ~(Hooked(k, u) /\ m0 = m)
      <4>1. n.queue[m] = k.queue[m]
        BY <1>3, <3>2
      <4>2. SortedBy(k.queue[m], k.pri)
        BY <1>1, <1>5, <2>1 DEF Sorted
      <4>3. u \notin In(k, m)
        BY <1>1, <2>1, <3>2 DEF Queued, Hooked
      <4>4. /\ \A i \in 1 .. Len(k.queue[m]) : k.queue[m][i] \in Tasks
            /\ \A i \in 1 .. Len(k.queue[m]) : k.queue[m][i] \in In(k, m)
        <5>1. k.queue[m] \in Seq(Tasks)
          BY <1>1, Fields
        <5> QED BY <5>1, PlacesOf DEF In
      <4>5. \A i \in 1 .. Len(k.queue[m]) : n.pri[k.queue[m][i]] = k.pri[k.queue[m][i]]
        BY <1>4, <4>3, <4>4
      <4> QED BY <4>1, <4>2, <4>5 DEF SortedBy
    <3> QED BY <3>1, <3>2
  <2> QED BY <1>5, <2>1 DEF Sorted
<1> QED BY <1>2, <1>7, <1>9, <1>10, <1>11, <1>12 DEF Orderly, n

(* The call that follows that of change_task_priority for u, if any *)
NextIs(k, u, p, n) ==
    /\ n.k = After(k, u, p)
    /\ ~(Waits(k, u) /\ attr[k.wid[u]] = "INHERIT") => n.t = NULL /\ n.p = 0
    /\ Waits(k, u) /\ attr[k.wid[u]] = "INHERIT" =>
        LET o   == k.owner[k.wid[u]]
            due == Due(n.k, o)
        IN  \/ k.pri[o] > p /\ n.t = o /\ n.p = p
            \/ k.pri[o] = k.pri[u] /\ n.t = o /\ n.p = due
            \/ /\ k.pri[o] <= p /\ (k.pri[o] # k.pri[u] \/ due = k.pri[u])
               /\ n.t = NULL /\ n.p = 0

LEMMA StepTaken ==
    ASSUME NEW k \in KernelType, NEW B, Waiting(k, B), NEW u \in Tasks,
           NEW p \in Pri
    PROVE  NextIs(k, u, p, ChangeOne(Call(k, u, p)))
<1> DEFINE k1 == [k EXCEPT !.pri[u] = p]
           m == k.wid[u]
           o == k.owner[m]
           n == ChangeOne(Call(k, u, p))
<1>1. /\ k1.pri = [k.pri EXCEPT ![u] = p] /\ k1.wid = k.wid /\ k1.owner = k.owner
      /\ k1.state = k.state /\ k.pri \in [Tasks -> Pri]
  BY Fields DEF KernelType
<1>2. Waits(k1, u) = Waits(k, u)
  BY <1>1 DEF Waits
<1>3. n = IF Waits(k1, u) /\ attr[k1.wid[u]] # "TFIFO"
          THEN mtx_chg_pri(k1, u, k.pri[u]) ELSE Call(k1, NULL, 0)
  BY DEF ChangeOne, Call
<1>4. CASE ~Hooked(k, u)
  <2>1. n = Call(k1, NULL, 0)
    BY <1>1, <1>2, <1>3, <1>4 DEF Hooked
  <2>2. n.k = k1 /\ n.t = NULL /\ n.p = 0
    BY <2>1 DEF Call
  <2> QED BY <1>4, <2>2 DEF NextIs, After, Hooked
<1>5. CASE Hooked(k, u)
  <2> DEFINE moved == gcb_change_priority(k1, m, u)
  <2>1. moved = After(k, u, p)
    BY <1>5 DEF After
  <2>2. n = mtx_chg_pri(k1, u, k.pri[u])
    BY <1>1, <1>2, <1>3, <1>5 DEF Hooked
  <2>3. k1.wid[u] = m /\ k1.owner[m] = o /\ k1.pri[u] = p
    BY <1>1
  <2> HIDE DEF k1, moved, n
  <2>4. CASE attr[m] # "INHERIT"
    <3>1. n = Call(moved, NULL, 0)
      BY <2>2, <2>3, <2>4 DEF mtx_chg_pri, moved
    <3>2. n.k = moved /\ n.t = NULL /\ n.p = 0
      BY <3>1 DEF Call
    <3> QED BY <2>1, <2>4, <3>2 DEF NextIs, n
  <2>5. CASE attr[m] = "INHERIT"
    <3>1. o \in Tasks /\ o # u /\ Waits(k, u)
      BY <1>5 DEF Waiting, Hooked
    <3>2. k1.pri[o] = k.pri[o]
      BY <1>1, <3>1
    <3>3. n = CASE k.pri[o] > p -> Call(moved, o, p)
                [] k.pri[o] <= p /\ k.pri[o] = k.pri[u] /\ Due(moved, o) # k.pri[u] ->
                      Call(moved, o, Due(moved, o))
                [] OTHER -> Call(moved, NULL, 0)
      BY <2>2, <2>3, <2>5, <3>2 DEF mtx_chg_pri, moved
    <3> DEFINE due == Due(moved, o)
    <3> HIDE DEF due
    <3>4. \/ k.pri[o] > p /\ n = Call(moved, o, p)
          \/ k.pri[o] = k.pri[u] /\ n = Call(moved, o, due)
          \/ /\ ~(k.pri[o] > p)
             /\ ~(k.pri[o] <= p /\ k.pri[o] = k.pri[u] /\ due # k.pri[u])
             /\ n = Call(moved, NULL, 0)
      <4>1. CASE k.pri[o] > p
        <5>1. k.pri[o] \in Nat /\ p \in Nat
          BY <1>1, <3>1, Priorities
        <5>2. ~(k.pri[o] <= p)
          <6> HIDE DEF o
          <6> QED BY <4>1, <5>1
        <5> QED BY <3>3, <4>1, <5>2, Zenon
      <4>2. CASE ~(k.pri[o] > p) /\ k.pri[o] <= p /\ k.pri[o] = k.pri[u] /\ due # k.pri[u]
        BY <3>3, <4>2, Zenon DEF due
      <4>3. CASE /\ ~(k.pri[o] > p)
                 /\ ~(k.pri[o] <= p /\ k.pri[o] = k.pri[u] /\ due # k.pri[u])
        BY <3>3, <4>3, Zenon DEF due
      <4> QED BY <4>1, <4>2, <4>3, Zenon
    <3> QED
      <4>1. CASE k.pri[o] > p /\ n = Call(moved, o, p)
        <5>1. n.k = moved /\ n.t = o /\ n.p = p
          BY <4>1 DEF Call
        <5> QED BY <2>1, <2>5, <3>1, <4>1, <5>1 DEF NextIs, n
      <4>2. CASE k.pri[o] = k.pri[u] /\ n = Call(moved, o, due)
        <5>1. n.k = moved /\ n.t = o /\ n.p = due
          BY <4>2 DEF Call
        <5> QED BY <2>1, <2>5, <3>1, <4>2, <5>1 DEF NextIs, n, due
      <4>3. CASE /\ ~(k.pri[o] > p)
                 /\ ~(k.pri[o] <= p /\ k.pri[o] = k.pri[u] /\ due # k.pri[u])
                 /\ n = Call(moved, NULL, 0)
        <5>1. n.k = moved /\ n.t = NULL /\ n.p = 0
          BY <4>3 DEF Call
        <5>2. k.pri[o] <= p
          <6>1. k.pri[o] \in Nat /\ p \in Nat
            BY <1>1, <3>1, Priorities
          <6> QED BY <4>3, <6>1
        <5> QED BY <2>1, <2>5, <3>1, <4>3, <5>1, <5>2 DEF NextIs, n, due
      <4> QED BY <3>4, <4>1, <4>2, <4>3
  <2> QED BY <2>4, <2>5
<1> QED BY <1>4, <1>5

-----------------------------------------------------------------------------
(* The nested calls, one after another                                     *)

Runs(c, n, g) == g[0] = c /\ \A i \in 0 .. n : i < n => g[i + 1] = NextCall(g[i])

(* change_task_priority is the sequence of the calls that NextCall makes.  *)
LEMMA CallsAre ==
    ASSUME NEW k, NEW t, NEW p
    PROVE  \E f : /\ f[0] = Call(k, t, p)
                  /\ \A n \in Nat : f[n + 1] = NextCall(f[n])
                  /\ NestedCalls(k, t, p) = f[Cardinality(Tasks)]
<1> DEFINE c == Call(k, t, p)
<1> HIDE DEF c
<1>1. \A n \in Nat : \E g : Runs(c, n, g)
  <2> DEFINE T == {n \in Nat : \E g : Runs(c, n, g)}
  <2>1. 0 \in T
    <3>1. Runs(c, 0, [i \in 0 .. 0 |-> c])
      BY DEF Runs
    <3> QED BY <3>1
  <2>2. ASSUME NEW n \in Nat, n \in T PROVE n + 1 \in T
    <3>1. PICK g : Runs(c, n, g)
      BY <2>2
    <3> DEFINE h == [i \in 0 .. n + 1 |-> IF i = n + 1 THEN NextCall(g[n]) ELSE g[i]]
    <3>2. h[0] = c
      BY <3>1 DEF Runs
    <3>3. ASSUME NEW i \in 0 .. n + 1, i < n + 1 PROVE h[i + 1] = NextCall(h[i])
      <4>1. i \in 0 .. n /\ i + 1 \in 0 .. n + 1 /\ h[i] = g[i]
        BY <3>3
      <4>2. CASE i = n
        BY <4>1, <4>2
      <4>3. CASE i < n
        BY <3>1, <4>1, <4>3 DEF Runs
      <4> QED BY <4>1, <4>2, <4>3
    <3> HIDE DEF h
    <3>4. Runs(c, n + 1, h)
      BY <3>2, <3>3 DEF Runs
    <3> QED BY <3>4
  <2> HIDE DEF T
  <2>3. Nat \subseteq T
    BY <2>1, <2>2, Induction
  <2> QED BY <2>3 DEF T
<1>2. \A n \in Nat : \A g, h : Runs(c, n, g) /\ Runs(c, n, h) => g[n] = h[n]
  <2> DEFINE T == {n \in Nat : \A g, h : Runs(c, n, g) /\ Runs(c, n, h) => g[n] = h[n]}
  <2>1. 0 \in T
    BY DEF Runs
  <2>2. ASSUME NEW n \in Nat, n \in T PROVE n + 1 \in T
    <3>1. ASSUME NEW g, NEW h, Runs(c, n + 1, g), Runs(c, n + 1, h)
          PROVE  g[n + 1] = h[n + 1]
      <4>1. Runs(c, n, g) /\ Runs(c, n, h)
        BY <3>1 DEF Runs
      <4>2. g[n] = h[n]
        BY <2>2, <4>1
      <4>3. g[n + 1] = NextCall(g[n]) /\ h[n + 1] = NextCall(h[n])
        BY <3>1 DEF Runs
      <4> QED BY <4>2, <4>3
    <3> QED BY <3>1
  <2> HIDE DEF T
  <2>3. Nat \subseteq T
    BY <2>1, <2>2, Induction
  <2> QED BY <2>3 DEF T
<1> DEFINE Of(n) == CHOOSE g : Runs(c, n, g)
           f == [n \in Nat |-> Of(n)[n]]
<1>3. \A n \in Nat : Runs(c, n, Of(n))
  BY <1>1
<1> HIDE DEF Of
<1>4. f[0] = c
  BY <1>3 DEF Runs
<1>5. ASSUME NEW n \in Nat PROVE f[n + 1] = NextCall(f[n])
  <2>1. Runs(c, n + 1, Of(n + 1)) /\ Runs(c, n, Of(n))
    BY <1>3
  <2>2. Runs(c, n, Of(n + 1)) /\ Of(n + 1)[n + 1] = NextCall(Of(n + 1)[n])
    BY <2>1 DEF Runs
  <2>3. Of(n + 1)[n] = Of(n)[n]
    BY <1>2, <2>1, <2>2
  <2> QED BY <2>2, <2>3
<1>6. f = [n \in Nat |-> f[n]]
  OBVIOUS
<1> HIDE DEF f
<1>7. f = [i \in Nat |-> IF i = 0 THEN c ELSE NextCall(f[i - 1])]
  <2>1. ASSUME NEW i \in Nat PROVE f[i] = IF i = 0 THEN c ELSE NextCall(f[i - 1])
    <3>1. CASE i # 0
      <4>1. i - 1 \in Nat /\ (i - 1) + 1 = i
        BY <3>1
      <4>2. f[(i - 1) + 1] = NextCall(f[i - 1])
        BY <1>5, <4>1
      <4> QED BY <3>1, <4>1, <4>2
    <3> QED BY <1>4, <3>1
  <2> QED BY <1>6, <2>1
<1> DEFINE calls == CHOOSE g : g = [i \in Nat |-> IF i = 0 THEN c ELSE NextCall(g[i - 1])]
<1>8. calls = [i \in Nat |-> IF i = 0 THEN c ELSE NextCall(calls[i - 1])]
  BY <1>7
<1>9. NestedCalls(k, t, p) = calls[Cardinality(Tasks)]
  BY DEF NestedCalls, c
<1> HIDE DEF calls
<1>10. calls[0] = c
  BY <1>8
<1>11. ASSUME NEW n \in Nat PROVE calls[n + 1] = NextCall(calls[n])
  <2>1. n + 1 \in Nat /\ n + 1 # 0 /\ (n + 1) - 1 = n
    OBVIOUS
  <2>2. calls[n + 1] = IF n + 1 = 0 THEN c ELSE NextCall(calls[(n + 1) - 1])
    BY <1>8, <2>1
  <2> QED BY <2>1, <2>2
<1> QED BY <1>9, <1>10, <1>11 DEF c

(* c is a call that a change of a priority, from k, comes to. *)
Underway(k, B, c) ==
    /\ Orderly(Created, c.k, B) /\ Same(k, c.k)
    /\ \A m \in Mutexes : In(k, m) \subseteq In(c.k, m)
    /\ c.t \in Tasks \cup {NULL} /\ c.p \in Pri
    /\ \A u \in Tasks \ {c.t} : Lifted(Created, c.k, u)
    /\ c.t # NULL => Lifts(Created, c.k, c.t, c.p)

LEMMA NextIsOf ==
    ASSUME NEW c, c.k \in KernelType, NEW B, Waiting(c.k, B), c.t \in Tasks,
           c.p \in Pri
    PROVE  NextIs(c.k, c.t, c.p, NextCall(c))
<1>1. NextIs(c.k, c.t, c.p, ChangeOne(Call(c.k, c.t, c.p)))
  BY StepTaken
<1>2. ChangeOne(Call(c.k, c.t, c.p)) = ChangeOne(c)
  BY DEF ChangeOne, Call
<1>3. NextCall(c) = ChangeOne(c)
  BY Priorities DEF NextCall
<1> QED BY <1>1, <1>2, <1>3

LEMMA DueLifts ==
    ASSUME Created \in CreatedType, NEW k \in KernelType, Sorted(Created, k),
           NEW t \in Tasks
    PROVE  Due(k, t) \in Pri /\ Lifts(Created, k, t, Due(k, t))
<1>1. Due(k, t) \in Pri /\ Least(Due(k, t), Claims(Created, k, t))
  BY DueIsLeast
<1>2. ASSUME NEW m \in k.list[t], Created.attr[m] = "CEILING"
      PROVE  Due(k, t) <= Created.ceil[m]
  <2>1. Created.ceil[m] \in Claims(Created, k, t)
    BY <1>2 DEF Claims, OwnClaims
  <2> QED BY <1>1, <2>1 DEF Least
<1> QED BY <1>1, <1>2 DEF Lifts

LEMMA UnderwayStep ==
    ASSUME Created \in CreatedType, NEW k, NEW B, NEW c, Underway(k, B, c)
    PROVE  /\ Underway(k, B, NextCall(c))
           /\ \A u \in Tasks : Lifted(Created, NextCall(c).k, u)
<1>1. CASE c.t = NULL
  BY <1>1, Priorities DEF NextCall, Underway
<1>2. CASE c.t # NULL
  <2> DEFINE n == NextCall(c)
             u == c.t
             o == c.k.owner[c.k.wid[u]]
  <2>1. /\ Orderly(Created, c.k, B) /\ Same(k, c.k) /\ u \in Tasks /\ c.p \in Pri
        /\ \A m \in Mutexes : In(k, m) \subseteq In(c.k, m)
        /\ \A v \in Tasks \ {u} : Lifted(Created, c.k, v)
        /\ Lifts(Created, c.k, u, c.p)
    BY <1>2 DEF Underway
  <2>2. c.k \in KernelType /\ Waiting(c.k, B)
    BY <2>1 DEF Orderly
  <2>3. NextIs(c.k, u, c.p, n)
    BY <2>1, <2>2, NextIsOf
  <2>4. n.k = After(c.k, u, c.p)
    BY <2>3 DEF NextIs
  <2>5. /\ AfterFields(c.k, u, c.p, n.k) /\ AfterIn(c.k, u, n.k)
        /\ Orderly(Created, n.k, B)
    BY <2>1, <2>4, AfterOrderly
  <2> HIDE DEF n
  <2>6. /\ Same(c.k, n.k) /\ n.k.pri = [c.k.pri EXCEPT ![u] = c.p]
        /\ c.k.pri \in [Tasks -> Pri]
    BY <2>2, <2>5, Fields DEF AfterFields
  <2>7. Same(k, n.k)
    BY <2>1, <2>6 DEF Same
  <2>8. \A m \in Mutexes : In(k, m) \subseteq In(n.k, m)
    BY <2>1, <2>5 DEF AfterIn
  <2>9. ASSUME NEW v \in Tasks PROVE Lifted(Created, n.k, v)
    <3>1. CASE v = u
      BY <2>1, <2>6, <3>1 DEF Lifted, Lifts, Same
    <3>2. CASE v # u
      BY <2>1, <2>6, <3>2 DEF Lifted, Lifts, Same
    <3> QED BY <3>1, <3>2
  <2>10. \/ n.t = NULL /\ n.p = 0
         \/ n.t \in Tasks /\ n.p \in Pri /\ Lifts(Created, n.k, n.t, n.p)
    <3>1. CASE ~(Waits(c.k, u) /\ attr[c.k.wid[u]] = "INHERIT")
      <4>1. n.t = NULL /\ n.p = 0
        BY <2>3, <3>1 DEF NextIs
      <4> QED BY <4>1
    <3>2. CASE Waits(c.k, u) /\ attr[c.k.wid[u]] = "INHERIT"
      <4>1. o \in Tasks \ {u}
        BY <2>1, <2>2, <3>2 DEF Waiting
      <4> DEFINE due == Due(n.k, o)
      <4>2. due \in Pri /\ Lifts(Created, n.k, o, due)
        BY <2>5, <4>1, DueLifts DEF Orderly
      <4> HIDE DEF due
      <4>3. \/ c.k.pri[o] > c.p /\ n.t = o /\ n.p = c.p
            \/ n.t = o /\ n.p = due
            \/ n.t = NULL /\ n.p = 0
        BY <2>3, <3>2 DEF NextIs, due
      <4>4. ASSUME c.k.pri[o] > c.p PROVE Lifts(Created, n.k, o, c.p)
        <5> HIDE DEF o, u
        <5>1. ASSUME NEW m \in n.k.list[o], Created.attr[m] = "CEILING"
              PROVE  c.p <= Created.ceil[m]
          <6>1. c.k.pri[o] <= Created.ceil[m]
            BY <2>1, <2>6, <4>1, <5>1 DEF Lifted, Lifts, Same
          <6>2. m \in Mutexes
            <7>1. n.k.list[o] \subseteq Mutexes
              BY <2>5, <4>1, Fields DEF Orderly
            <7> QED BY <5>1, <7>1
          <6>3. Created.ceil[m] \in Nat
            BY <6>2, Priorities DEF CreatedType
          <6>4. c.k.pri[o] \in Nat /\ c.p \in Nat
            BY <2>1, <2>6, <4>1, Priorities
          <6>5. c.p < c.k.pri[o]
            BY <4>4, <6>4
          <6> QED BY <6>1, <6>3, <6>4, <6>5
        <5> QED BY <5>1 DEF Lifts
      <4>5. CASE c.k.pri[o] > c.p /\ n.t = o /\ n.p = c.p
        <5>1. Lifts(Created, n.k, n.t, n.p)
          BY <4>4, <4>5
        <5> QED BY <2>1, <4>1, <4>5, <5>1
      <4>6. CASE n.t = o /\ n.p = due
        BY <4>1, <4>2, <4>6
      <4>7. CASE n.t = NULL /\ n.p = 0
        BY <4>7
      <4> QED BY <4>3, <4>5, <4>6, <4>7
    <3> QED BY <3>1, <3>2
  <2>11. n.t \in Tasks \cup {NULL} /\ n.p \in Pri
    BY <2>10, Priorities
  <2>12. \A v \in Tasks \ {n.t} : Lifted(Created, n.k, v)
    BY <2>9
  <2>13. n.t # NULL => Lifts(Created, n.k, n.t, n.p)
    BY <2>10
  <2> QED BY <2>5, <2>7, <2>8, <2>9, <2>11, <2>12, <2>13 DEF Underway, n
<1> QED BY <1>1, <1>2

(* Priorities that were in order are so after change_task_priority,        *)
(* whatever waits for what.                                                *)
Kept(k, B, n) ==
    /\ Orderly(Created, n, B) /\ Same(k, n)
    /\ \A m \in Mutexes : In(k, m) \subseteq In(n, m)

LEMMA SameRefl == \A k : Same(k, k)
  BY DEF Same

LEMMA ChangeKeeps ==
    ASSUME Created \in CreatedType, NEW B, NEW k, Orderly(Created, k, B),
           NEW t \in Tasks, NEW p \in Pri,
           \A u \in Tasks \ {t} : Lifted(Created, k, u), Lifts(Created, k, t, p)
    PROVE  \E f : /\ f[0] = Call(k, t, p)
                  /\ \A n \in Nat : f[n + 1] = NextCall(f[n]) /\ Underway(k, B, f[n])
                  /\ NestedCalls(k, t, p) = f[Cardinality(Tasks)]
<1>1. PICK f : /\ f[0] = Call(k, t, p)
               /\ \A n \in Nat : f[n + 1] = NextCall(f[n])
               /\ NestedCalls(k, t, p) = f[Cardinality(Tasks)]
  BY CallsAre
<1> DEFINE T == {n \in Nat : Underway(k, B, f[n])}
<1>2. 0 \in T
  <2>1. f[0].k = k /\ f[0].t = t /\ f[0].p = p
    BY <1>1 DEF Call
  <2>2. Underway(k, B, f[0])
    BY <2>1, SameRefl DEF Underway
  <2> QED BY <2>2
<1>3. ASSUME NEW n \in Nat, n \in T PROVE n + 1 \in T
  BY <1>1, <1>3, UnderwayStep
<1> HIDE DEF T
<1>4. Nat \subseteq T
  BY <1>2, <1>3, Induction
<1> QED BY <1>1, <1>4 DEF T

LEMMA CardTasks == Cardinality(Tasks) \in Nat
  BY Priorities, FS_CardinalityType

(* After a change of priority every task is lifted.                        *)
LEMMA ChangeIs ==
    ASSUME Created \in CreatedType, NEW B, NEW k, Orderly(Created, k, B),
           NEW t \in Tasks, NEW p \in Pri,
           \A u \in Tasks \ {t} : Lifted(Created, k, u), Lifts(Created, k, t, p)
    PROVE  /\ Kept(k, B, change_task_priority(k, t, p))
           /\ \A u \in Tasks : Lifted(Created, change_task_priority(k, t, p), u)
<1>1. PICK f : /\ f[0] = Call(k, t, p)
               /\ \A n \in Nat : f[n + 1] = NextCall(f[n]) /\ Underway(k, B, f[n])
               /\ NestedCalls(k, t, p) = f[Cardinality(Tasks)]
  BY ChangeKeeps
<1> DEFINE n == Cardinality(Tasks) - 1
<1>2. n \in Nat /\ n + 1 = Cardinality(Tasks)
  <2>1. Cardinality(Tasks) # 0
    BY Priorities, FS_EmptySet
  <2> QED BY <2>1, CardTasks
<1> HIDE DEF n
<1>3. f[n + 1] = NextCall(f[n]) /\ Underway(k, B, f[n])
  BY <1>1, <1>2
<1>4. Underway(k, B, f[n + 1]) /\ \A u \in Tasks : Lifted(Created, f[n + 1].k, u)
  BY <1>3, UnderwayStep
<1>5. change_task_priority(k, t, p) = f[n + 1].k
  BY <1>1, <1>2 DEF change_task_priority
<1> QED BY <1>4, <1>5 DEF Kept, Underway

-----------------------------------------------------------------------------
(* Changes of priority while no tasks wait in a circle                     *)

(* E[u] is the task that u waits for, if it waits; E may say of other      *)
(* tasks that they are about to wait.                                      *)
Edges(k, E) ==
    /\ E \in [Tasks -> Tasks \cup {NULL}]
    /\ \A u \in Tasks : Waits(k, u) => E[u] = k.owner[k.wid[u]]

Acyclic(E) == \A S \in SUBSET Tasks : S # {} => \E u \in S : E[u] \notin S

(* Every priority but that of o is right, and there is no circle; the      *)
(* tasks B wait for o or for each other, and are not in a queue.           *)
Calm(k, o, B, E) ==
    /\ Orderly(Created, k, B) /\ Edges(k, E) /\ Acyclic(E)
    /\ o \in Tasks /\ B \subseteq Tasks /\ \A b \in B : E[b] \in B \cup {o}
    /\ \A t \in Tasks : \A m \in k.list[t] : k.owner[m] = t
    /\ \A m \in Mutexes : k.owner[m] \notin {NULL, o} => m \in k.list[k.owner[m]]
    /\ \A u \in Tasks \ {o} : Exact(Created, k, u)

(* Only the tasks V were given another priority, or another place in the   *)
(* queue they are in.                                                      *)
Touched(k, n, V) ==
    /\ \A u \in Tasks \ V : n.pri[u] = k.pri[u]
    /\ \A m \in Mutexes : In(n, m) = In(k, m)
    /\ \A m \in Mutexes :
        (\A u \in V : ~(Waits(k, u) /\ k.wid[u] = m)) => n.queue[m] = k.queue[m]

(* V are the tasks whose priority a change of o's priority to p, from k,   *)
(* has set when it comes to call c.                                        *)
Chain(k, o, p, B, E, c, V) ==
    /\ Orderly(Created, c.k, B) /\ Same(k, c.k) /\ Touched(k, c.k, V)
    /\ c.t \in Tasks \cup {NULL} /\ c.p \in Pri /\ V \subseteq Tasks
    /\ \A u \in V : u \notin B /\ (Waits(k, u) => E[u] \notin B \cup {o})
    /\ c.t # NULL => \A u \in V : Waits(k, u) /\ E[u] \in V \cup {c.t}
    /\ \A u \in Tasks \ {o, c.t} : Exact(Created, c.k, u)
    /\ IF V = {} THEN c.t = o /\ c.p = p
       ELSE /\ o \in V /\ c.k.pri[o] = p
            /\ c.t # NULL => Least(c.p, Claims(Created, c.k, c.t))

(* The next call is for a task that no call was for, which does not wait   *)
(* for one of them.                                                        *)
LEMMA Fresh ==
    ASSUME NEW k, NEW o, NEW p, NEW B, NEW E, NEW c, NEW V,
           Calm(k, o, B, E), Chain(k, o, p, B, E, c, V), c.t # NULL
    PROVE  /\ c.t \in Tasks \ (V \cup B)
           /\ Waits(k, c.t) => E[c.t] \notin V \cup B \cup {c.t, o}
<1> DEFINE x == c.t
<1>1. /\ x \in Tasks /\ V \subseteq Tasks /\ B \subseteq Tasks /\ o \in Tasks
      /\ \A u \in V : E[u] \in V \cup {x}
      /\ \A b \in B : E[b] \in B \cup {o}
      /\ \A S \in SUBSET Tasks : S # {} => \E u \in S : E[u] \notin S
      /\ o = x \/ o \in V
  BY DEF Calm, Chain, Acyclic
<1>2. x \notin V
  <2>1. SUFFICES ASSUME x \in V PROVE FALSE
    OBVIOUS
  <2>2. \A u \in V : E[u] \in V
    BY <1>1, <2>1
  <2> QED BY <1>1, <2>1, <2>2
<1>3. x \notin B
  <2>1. SUFFICES ASSUME x \in B PROVE FALSE
    OBVIOUS
  <2> DEFINE S == V \cup B
  <2>2. S \in SUBSET Tasks /\ S # {} /\ \A u \in S : E[u] \in S
    BY <1>1, <2>1
  <2> QED BY <1>1, <2>2
<1>4. ASSUME E[x] \in V \cup B \cup {x, o} PROVE FALSE
  <2> DEFINE S == V \cup B \cup {x}
  <2>1. S \in SUBSET Tasks /\ S # {} /\ \A u \in S : E[u] \in S
    BY <1>1, <1>4
  <2> QED BY <1>1, <2>1
<1> QED BY <1>1, <1>2, <1>3, <1>4

(* Nobody but the owner has the tasks in the queue of a mutex as followers.*)
LEMMA FollowersOf ==
    ASSUME NEW a, NEW k \in KernelType, Queued(k), NEW t \in Tasks,
           \A m \in k.list[t] : k.owner[m] = t, NEW u \in Followers(a, k, t)
    PROVE  /\ Waits(k, u) /\ k.wid[u] \in k.list[t] /\ k.owner[k.wid[u]] = t
           /\ a.attr[k.wid[u]] = "INHERIT"
<1>1. PICK m \in k.list[t] : a.attr[m] = "INHERIT" /\ u \in In(k, m)
  BY DEF Followers
<1>2. m \in Mutexes
  <2>1. k.list[t] \subseteq Mutexes
    BY Fields
  <2> QED BY <2>1
<1>3. Waits(k, u) /\ k.wid[u] = m
  BY <1>1, <1>2 DEF Queued
<1> QED BY <1>1, <1>3

(* What a call does to the claims on the priorities of tasks *)
LEMMA ClaimsAfter ==
    ASSUME NEW a, NEW k \in KernelType, Queued(k), NEW n, NEW x \in Tasks, NEW p,
           Same(k, n), n.pri = [k.pri EXCEPT ![x] = p],
           \A m \in Mutexes : In(n, m) = In(k, m), NEW v \in Tasks,
           \A m \in k.list[v] : k.owner[m] = v
    PROVE  /\ Followers(a, n, v) = Followers(a, k, v)
           /\ OwnClaims(a, n, v) = OwnClaims(a, k, v)
           /\ x \notin Followers(a, k, v) => Claims(a, n, v) = Claims(a, k, v)
           /\ x \in Followers(a, k, v) =>
                /\ p \in Claims(a, n, v)
                /\ \A q \in Claims(a, n, v) : q = p \/ q \in Claims(a, k, v)
                /\ \A q \in Claims(a, k, v) : q = k.pri[x] \/ q \in Claims(a, n, v)
<1>1. k.list[v] \subseteq Mutexes /\ k.pri \in [Tasks -> Pri]
  BY Fields
<1>2. Followers(a, n, v) = Followers(a, k, v)
  BY <1>1 DEF Followers, Same
<1>3. OwnClaims(a, n, v) = OwnClaims(a, k, v)
  BY DEF OwnClaims, Same
<1>4. Followers(a, k, v) \subseteq Tasks
  BY DEF Followers
<1>5. \A u \in Tasks : n.pri[u] = IF u = x THEN p ELSE k.pri[u]
  BY <1>1
<1> QED BY <1>2, <1>3, <1>4, <1>5 DEF Claims

(* The tasks of a chain are right again, but for the one whose call comes. *)
LEMMA ChainStep ==
    ASSUME Created \in CreatedType, NEW k, NEW o, NEW p, NEW B, NEW E,
           Calm(k, o, B, E), NEW c, NEW V, Chain(k, o, p, B, E, c, V), c.t # NULL
    PROVE  Chain(k, o, p, B, E, NextCall(c), V \cup {c.t})
<1> DEFINE x == c.t
           k2 == c.k
           n == NextCall(c)
           W == V \cup {x}
           w == k2.owner[k2.wid[x]]
<1>1. /\ x \in Tasks \ (V \cup B)
      /\ Waits(k, x) => E[x] \notin V \cup B \cup {x, o}
  BY Fresh
<1>2. /\ Orderly(Created, k2, B) /\ Same(k, k2) /\ c.p \in Pri /\ V \subseteq Tasks
      /\ \A u \in Tasks \ V : k2.pri[u] = k.pri[u]
      /\ \A m \in Mutexes : In(k2, m) = In(k, m)
      /\ \A m \in Mutexes :
          (\A u \in V : ~(Waits(k, u) /\ k.wid[u] = m)) => k2.queue[m] = k.queue[m]
      /\ \A u \in V : u \notin B /\ (Waits(k, u) => E[u] \notin B \cup {o})
      /\ \A u \in V : Waits(k, u) /\ E[u] \in V \cup {x}
      /\ \A u \in Tasks \ {o, x} : Exact(Created, k2, u)
  BY DEF Chain, Touched
<1>3. IF V = {} THEN x = o /\ c.p = p
      ELSE /\ o \in V /\ k2.pri[o] = p
           /\ Least(c.p, Claims(Created, k2, x))
  BY DEF Chain
<1>4. /\ o \in Tasks /\ Edges(k, E)
      /\ \A t \in Tasks : \A m \in k2.list[t] : k2.owner[m] = t
      /\ \A m \in Mutexes : k2.owner[m] \notin {NULL, o} => m \in k2.list[k2.owner[m]]
  BY <1>2 DEF Calm, Same
<1>5. k2 \in KernelType /\ Waiting(k2, B) /\ Queued(k2)
  BY <1>2 DEF Orderly
<1>6. NextIs(k2, x, c.p, n)
  BY <1>1, <1>2, <1>5, NextIsOf
<1>7. n.k = After(k2, x, c.p)
  BY <1>6 DEF NextIs
<1>8. /\ AfterFields(k2, x, c.p, n.k) /\ AfterIn(k2, x, n.k)
      /\ Orderly(Created, n.k, B)
  BY <1>1, <1>2, <1>7, AfterOrderly
<1> HIDE DEF n
<1>9. /\ Same(k2, n.k) /\ n.k.pri = [k2.pri EXCEPT ![x] = c.p]
      /\ k2.pri \in [Tasks -> Pri]
      /\ \A m \in Mutexes : ~(Waits(k2, x) /\ k2.wid[x] = m) => n.k.queue[m] = k2.queue[m]
  BY <1>5, <1>8, Fields DEF AfterFields, Hooked
<1>10. \A m \in Mutexes : In(n.k, m) = In(k2, m)
  BY <1>1, <1>5, <1>8 DEF AfterIn, Hooked, Waiting
<1>11. Same(k, n.k)
  BY <1>2, <1>9 DEF Same
<1>12. Touched(k, n.k, W)
  <2>1. \A u \in Tasks \ W : n.k.pri[u] = k.pri[u]
    BY <1>2, <1>9
  <2>2. \A m \in Mutexes : In(n.k, m) = In(k, m)
    BY <1>2, <1>10
  <2>3. ASSUME NEW m \in Mutexes, \A u \in W : ~(Waits(k, u) /\ k.wid[u] = m)
        PROVE  n.k.queue[m] = k.queue[m]
    <3>1. ~(Waits(k2, x) /\ k2.wid[x] = m)
      BY <1>2, <2>3 DEF Same, Waits
    <3> QED BY <1>2, <1>9, <2>3, <3>1
  <2> QED BY <2>1, <2>2, <2>3 DEF Touched
<1>13. W \subseteq Tasks /\ \A u \in W : u \notin B /\ (Waits(k, u) => E[u] \notin B \cup {o})
  BY <1>1, <1>2
<1>14. Waits(k2, x) = Waits(k, x) /\ (Waits(k, x) => w = E[x])
  BY <1>1, <1>2, <1>4 DEF Same, Waits, Edges
<1>15. ASSUME NEW v \in Tasks
       PROVE  /\ x \notin Followers(Created, k2, v) =>
                    Claims(Created, n.k, v) = Claims(Created, k2, v)
              /\ x \in Followers(Created, k2, v) =>
                /\ c.p \in Claims(Created, n.k, v)
                /\ \A q \in Claims(Created, n.k, v) :
                        q = c.p \/ q \in Claims(Created, k2, v)
                /\ \A q \in Claims(Created, k2, v) :
                        q = k2.pri[x] \/ q \in Claims(Created, n.k, v)
              /\ Claims(Created, n.k, v) \subseteq Nat
              /\ Claims(Created, k2, v) \subseteq Nat
  <2>1. \A m \in k2.list[v] : k2.owner[m] = v
    BY <1>4
  <2>2. n.k \in KernelType
    BY <1>8 DEF Orderly
  <2>3. Claims(Created, n.k, v) \subseteq Nat /\ Claims(Created, k2, v) \subseteq Nat
    BY <1>5, <2>2, ClaimsTyped, Priorities
  <2> QED BY <1>1, <1>5, <1>9, <1>10, <2>1, <2>3, ClaimsAfter
<1>16. ASSUME NEW v \in Tasks, x \in Followers(Created, k2, v)
       PROVE  /\ Waits(k2, x) /\ attr[k2.wid[x]] = "INHERIT" /\ v = w
              /\ v \notin W \cup B \cup {o} /\ Exact(Created, k2, v)
  <2>1. \A m \in k2.list[v] : k2.owner[m] = v
    BY <1>4
  <2>2. /\ Waits(k2, x) /\ k2.owner[k2.wid[x]] = v
        /\ Created.attr[k2.wid[x]] = "INHERIT"
    <3>1. k2 \in KernelType /\ Queued(k2) /\ x \in Followers(Created, k2, v)
      BY <1>5, <1>16
    <3> QED BY <2>1, <3>1, FollowersOf
  <2>3. v = w /\ v \notin W \cup B \cup {o}
    BY <1>1, <1>14, <2>2
  <2> QED BY <1>2, <2>2, <2>3 DEF Created
<1>17. ASSUME NEW v \in Tasks, v # o, v # x, x \notin Followers(Created, k2, v)
       PROVE  Exact(Created, n.k, v)
  <2>1. Exact(Created, k2, v) /\ n.k.pri[v] = k2.pri[v]
    BY <1>2, <1>9, <1>17
  <2> QED BY <1>15, <1>17, <2>1 DEF Exact
<1>18. x # o => Exact(Created, n.k, x)
  <2>1. SUFFICES ASSUME x # o PROVE Exact(Created, n.k, x)
    OBVIOUS
  <2>2. Least(c.p, Claims(Created, k2, x))
    BY <1>3, <2>1
  <2>3. x \notin Followers(Created, k2, x)
    BY <1>1, <1>16
  <2>4. n.k.pri[x] = c.p
    BY <1>1, <1>9
  <2> QED BY <1>1, <1>15, <2>2, <2>3, <2>4 DEF Exact
<1>19. o \in W /\ n.k.pri[o] = p
  <2>1. CASE V = {}
    BY <1>1, <1>3, <1>9, <2>1
  <2>2. CASE V # {}
    BY <1>1, <1>3, <1>4, <1>9, <2>2
  <2> QED BY <2>1, <2>2
<1> DEFINE Goal ==
      /\ n.t \in Tasks \cup {NULL} /\ n.p \in Pri
      /\ n.t # NULL => \A u \in W : Waits(k, u) /\ E[u] \in W \cup {n.t}
      /\ \A u \in Tasks \ {o, n.t} : Exact(Created, n.k, u)
      /\ n.t # NULL => Least(n.p, Claims(Created, n.k, n.t))
<1> HIDE DEF Goal
<1>20. CASE ~(Waits(k2, x) /\ attr[k2.wid[x]] = "INHERIT")
  <2>1. n.t = NULL /\ n.p = 0
    BY <1>6, <1>20 DEF NextIs
  <2>2. \A v \in Tasks : x \notin Followers(Created, k2, v)
    BY <1>16, <1>20
  <2>3. \A v \in Tasks \ {o} : Exact(Created, n.k, v)
    BY <1>17, <1>18, <2>2
  <2>4. Goal
    BY <2>1, <2>3, Priorities DEF Goal
  <2> QED BY <1>8, <1>11, <1>12, <1>13, <1>19, <2>4 DEF Chain, n, Goal
<1>21. CASE Waits(k2, x) /\ attr[k2.wid[x]] = "INHERIT"
  <2>1. w \in Tasks \ {x} /\ x \in In(k2, k2.wid[x]) /\ k2.wid[x] \in Mutexes
    BY <1>1, <1>5, <1>21 DEF Waiting
  <2>2. w \notin W \cup B \cup {o, NULL}
    BY <1>1, <1>14, <1>21, <2>1, Priorities
  <2>3. k2.wid[x] \in k2.list[w]
    BY <1>4, <2>1, <2>2
  <2>4. x \in Followers(Created, k2, w)
    BY <1>1, <1>21, <2>1, <2>3 DEF Followers, Created
  <2>5. /\ Exact(Created, k2, w) /\ n.k.pri[w] = k2.pri[w]
        /\ k2.pri[w] \in Nat /\ c.p \in Nat /\ k2.pri[x] \in Nat
    BY <1>1, <1>2, <1>9, <1>16, <2>1, <2>4, Priorities
  <2> DEFINE due == Due(n.k, w)
  <2>6. due \in Pri /\ Least(due, Claims(Created, n.k, w))
    BY <1>8, <2>1, DueIsLeast DEF Orderly
  <2> HIDE DEF due
  <2>7. \/ k2.pri[w] > c.p /\ n.t = w /\ n.p = c.p
        \/ n.t = w /\ n.p = due
        \/ /\ k2.pri[w] <= c.p /\ (k2.pri[w] # k2.pri[x] \/ due = k2.pri[x])
           /\ n.t = NULL /\ n.p = 0
    BY <1>6, <1>21 DEF NextIs, due
  <2>8. \A v \in Tasks \ {o, w} : Exact(Created, n.k, v)
    BY <1>16, <1>17, <1>18
  <2>9. \A u \in W : Waits(k, u) /\ E[u] \in W \cup {w}
    BY <1>2, <1>14, <1>21
  <2>10. ASSUME n.t = w, n.p \in Pri, Least(n.p, Claims(Created, n.k, w))
         PROVE  Goal
    BY <2>1, <2>8, <2>9, <2>10 DEF Goal
  <2>11. ASSUME k2.pri[w] > c.p, n.t = w, n.p = c.p PROVE Goal
    <3>1. c.p \in Claims(Created, n.k, w)
      BY <1>15, <2>1, <2>4
    <3>2. ASSUME NEW q \in Claims(Created, n.k, w) PROVE c.p <= q
      <4>1. q = c.p \/ q \in Claims(Created, k2, w)
        BY <1>15, <2>1, <2>4
      <4>2. q \in Nat
        BY <1>15, <2>1
      <4>3. q \in Claims(Created, k2, w) => k2.pri[w] <= q
        BY <2>5 DEF Exact, Least
      <4>4. CASE q = c.p
        <5> HIDE DEF k2, w
        <5> QED BY <4>2, <4>4
      <4>5. CASE q \in Claims(Created, k2, w)
        <5>1. k2.pri[w] <= q /\ c.p < k2.pri[w]
          BY <2>5, <2>11, <4>3, <4>5
        <5> HIDE DEF k2, w
        <5> QED BY <2>5, <4>2, <5>1
      <4> QED BY <4>1, <4>4, <4>5
    <3>3. Least(c.p, Claims(Created, n.k, w))
      BY <3>1, <3>2 DEF Least
    <3> QED BY <1>2, <2>10, <2>11, <3>3
  <2>12. ASSUME n.t = w, n.p = due PROVE Goal
    BY <2>6, <2>10, <2>12
  <2>13. ASSUME k2.pri[w] <= c.p, k2.pri[w] # k2.pri[x] \/ due = k2.pri[x],
                n.t = NULL, n.p = 0
         PROVE  Goal
    <3>1. k2.pri[w] \in Claims(Created, n.k, w)
      <4>1. CASE k2.pri[w] # k2.pri[x]
        <5>1. k2.pri[w] \in Claims(Created, k2, w)
          BY <2>5 DEF Exact, Least
        <5> QED BY <1>15, <2>1, <2>4, <4>1, <5>1
      <4>2. CASE k2.pri[w] = k2.pri[x]
        <5>1. due = k2.pri[w]
          BY <2>13, <4>2
        <5> QED BY <2>6, <5>1 DEF Least
      <4> QED BY <4>1, <4>2
    <3>2. ASSUME NEW q \in Claims(Created, n.k, w) PROVE k2.pri[w] <= q
      <4>1. q = c.p \/ q \in Claims(Created, k2, w)
        BY <1>15, <2>1, <2>4
      <4>2. q \in Claims(Created, k2, w) => k2.pri[w] <= q
        BY <2>5 DEF Exact, Least
      <4> QED BY <2>13, <4>1, <4>2
    <3>3. Exact(Created, n.k, w)
      BY <2>5, <3>1, <3>2 DEF Exact, Least
    <3>4. \A v \in Tasks \ {o} : Exact(Created, n.k, v)
      BY <2>8, <3>3
    <3> QED BY <2>13, <3>4, Priorities DEF Goal
  <2>14. Goal
    BY <2>7, <2>11, <2>12, <2>13
  <2> QED BY <1>8, <1>11, <1>12, <1>13, <1>19, <2>14 DEF Chain, n, Goal
<1> QED BY <1>20, <1>21

(* What is left of a change of o's priority to p when it has ended: V as   *)
(* in Chain.                                                               *)
Calmed(k, o, p, B, E, n, V) ==
    /\ Orderly(Created, n, B) /\ Same(k, n) /\ Touched(k, n, V)
    /\ V \subseteq Tasks /\ o \in V /\ n.pri[o] = p
    /\ \A u \in V : u \notin B /\ (Waits(k, u) => E[u] \notin B \cup {o})
    /\ \A u \in Tasks \ {o} : Exact(Created, n, u)

(* The nested calls end, at the latest when there was one for every task:  *)
(* each is for another task.                                               *)
LEMMA CallsEnd ==
    ASSUME Created \in CreatedType, NEW k, NEW o, NEW p \in Pri, NEW B, NEW E,
           Calm(k, o, B, E)
    PROVE  /\ NestedCalls(k, o, p).t = NULL
           /\ \E V : Calmed(k, o, p, B, E, change_task_priority(k, o, p), V)
<1>1. PICK f : /\ f[0] = Call(k, o, p)
               /\ \A n \in Nat : f[n + 1] = NextCall(f[n])
               /\ NestedCalls(k, o, p) = f[Cardinality(Tasks)]
  BY CallsAre
<1> DEFINE At(n, V) ==
             /\ Chain(k, o, p, B, E, f[n], V) /\ IsFiniteSet(V)
             /\ f[n].t # NULL => Cardinality(V) = n
             /\ n > 0 => V # {}
           T == {n \in Nat : \E V : At(n, V)}
<1>2. 0 \in T
  <2>1. f[0].k = k /\ f[0].t = o /\ f[0].p = p
    BY <1>1 DEF Call
  <2>2. Touched(k, k, {})
    BY DEF Touched
  <2>3. Chain(k, o, p, B, E, f[0], {})
    BY <2>1, <2>2, SameRefl DEF Chain, Calm
  <2>4. At(0, {})
    BY <2>3, FS_EmptySet
  <2> HIDE DEF At
  <2> QED BY <2>4
<1>3. ASSUME NEW n \in Nat, n \in T PROVE n + 1 \in T
  <2>1. PICK V : At(n, V)
    BY <1>3
  <2>2. f[n + 1] = NextCall(f[n])
    BY <1>1
  <2>3. CASE f[n].t = NULL
    <3>1. f[n + 1] = f[n]
      BY <2>2, <2>3 DEF NextCall
    <3>2. V # {}
      <4>1. o # NULL
        BY Priorities DEF Calm
      <4> QED BY <2>1, <2>3, <4>1 DEF Chain
    <3>3. At(n + 1, V)
      BY <2>1, <2>3, <3>1, <3>2
    <3> HIDE DEF At
    <3> QED BY <3>3
  <2>4. CASE f[n].t # NULL
    <3> DEFINE x == f[n].t
    <3>1. x \notin V
      BY <2>1, <2>4, Fresh
    <3>2. Chain(k, o, p, B, E, f[n + 1], V \cup {x})
      BY <2>1, <2>2, <2>4, ChainStep
    <3>3. /\ IsFiniteSet(V \cup {x})
          /\ Cardinality(V \cup {x}) = n + 1
      BY <2>1, <2>4, <3>1, FS_AddElement
    <3>4. At(n + 1, V \cup {x})
      BY <3>2, <3>3
    <3> HIDE DEF At
    <3> QED BY <3>4
  <2> QED BY <2>3, <2>4
<1> DEFINE N == Cardinality(Tasks)
<1>4. N \in T
  <2> HIDE DEF T
  <2>1. Nat \subseteq T
    BY <1>2, <1>3, Induction
  <2> QED BY <2>1, CardTasks
<1>5. PICK V : At(N, V)
  BY <1>4
<1>6. N \in Nat /\ N # 0
  <2>1. Tasks # {}
    BY DEF Calm
  <2> QED BY <2>1, CardTasks, Priorities, FS_EmptySet
<1>7. V # {}
  BY <1>5, <1>6
<1>8. Chain(k, o, p, B, E, f[N], V)
  BY <1>5
<1>9. f[N].t = NULL
  <2>1. SUFFICES ASSUME f[N].t # NULL PROVE FALSE
    OBVIOUS
  <2>2. f[N].t \in Tasks \ V
    BY <1>8, <2>1, Fresh
  <2>3. V \in SUBSET Tasks /\ Cardinality(V) = Cardinality(Tasks)
    BY <1>5, <2>1 DEF Chain
  <2>4. Tasks = V
    BY <2>3, Priorities, FS_Subset
  <2> QED BY <2>2, <2>4
<1> HIDE DEF At, T, N
<1>10. \A u \in Tasks \ {o} : u \in Tasks \ {o, f[N].t}
  BY <1>9, Priorities
<1>11. Calmed(k, o, p, B, E, f[N].k, V)
  BY <1>7, <1>8, <1>10 DEF Chain, Calmed
<1>12. NestedCalls(k, o, p) = f[N] /\ change_task_priority(k, o, p) = f[N].k
  BY <1>1 DEF change_task_priority, N
<1> QED BY <1>9, <1>11, <1>12

-----------------------------------------------------------------------------
(* The inductive invariant                                                 *)

(* Whom the tasks wait for *)
Forward(k) == [u \in Tasks |-> IF Waits(k, u) THEN k.owner[k.wid[u]] ELSE NULL]

(* What holds whatever the application does: a wait queue may link a task  *)
(* that does not wait, but Next stops then.                                *)
Linking(k) ==
    \A m \in Mutexes :
        /\ IsInjective(k.queue[m])
        /\ k.queue[m] # <<>> => k.owner[m] # NULL
        /\ \A t \in In(k, m) : Waits(k, t) => k.wid[t] = m

InOrder(a, k) ==
    \A m \in Mutexes : a.attr[m] # "TFIFO" =>
        \A i, j \in 1 .. Len(k.queue[m]) :
            i < j /\ Waits(k, k.queue[m][i]) /\ Waits(k, k.queue[m][j])
            => k.pri[k.queue[m][i]] <= k.pri[k.queue[m][j]]

AllLifted(a, k) == \A t \in Tasks : Lifted(a, k, t)

Lasting(a, k) ==
    /\ k \in KernelType
    /\ Owned(a, k, {})
    /\ Waiting(k, {})
    /\ Linking(k)
    /\ InOrder(a, k)
    /\ Refused(a, k)
    /\ AllLifted(a, k)

(* What holds while no tasks have waited in a circle                       *)
AllWait(k) == \A m \in Mutexes : \A t \in In(k, m) : Waits(k, t)

AllExact(a, k) == \A t \in Tasks : Exact(a, k, t)

Peaceful(a, k) == AllWait(k) /\ Acyclic(Forward(k)) /\ AllExact(a, k)

Inv ==
    /\ Created \in CreatedType
    /\ circular \in BOOLEAN
    /\ Lasting(Created, Kernel)
    /\ ~circular => Peaceful(Created, Kernel)

-----------------------------------------------------------------------------
(* Where every step starts from, and where it must lead                    *)

(* All that holds whatever the application does, where B and R are as in   *)
(* Waiting and Owned                                                       *)
Steady(a, k, B, R) ==
    Orderly(a, k, B) /\ Owned(a, k, R) /\ Refused(a, k) /\ AllLifted(a, k)

Quiet(a, k) == Acyclic(Forward(k)) /\ AllExact(a, k)

Safe(a, k, c) == Lasting(a, k) /\ (~c => Peaceful(a, k))

(* While no task is out of place, the queues are in order. *)
LEMMA LinkingIsQueued ==
    ASSUME NEW a, NEW k \in KernelType, Linking(k), InOrder(a, k), AllWait(k)
    PROVE  Queued(k) /\ Sorted(a, k)
<1>1. Queued(k)
  BY DEF Queued, Linking, AllWait
<1>2. ASSUME NEW m \in Mutexes, a.attr[m] # "TFIFO"
      PROVE  SortedBy(k.queue[m], k.pri)
  <2>1. k.queue[m] \in Seq(Tasks)
    BY Fields
  <2>2. \A i \in 1 .. Len(k.queue[m]) : k.queue[m][i] \in In(k, m)
    BY <2>1, PlacesOf DEF In
  <2>3. \A i \in 1 .. Len(k.queue[m]) : Waits(k, k.queue[m][i])
    BY <2>2 DEF AllWait
  <2> QED BY <1>2, <2>3 DEF InOrder, SortedBy
<1> QED BY <1>1, <1>2 DEF Sorted

LEMMA Start ==
    ASSUME Inv, ~Broken
    PROVE  /\ Created \in CreatedType /\ circular \in BOOLEAN
           /\ Steady(Created, Kernel, {}, {})
           /\ ~circular => Quiet(Created, Kernel)
<1> DEFINE k == Kernel
<1>1. /\ Created \in CreatedType /\ circular \in BOOLEAN
      /\ k \in KernelType /\ Owned(Created, k, {}) /\ Waiting(k, {}) /\ Linking(k)
      /\ InOrder(Created, k) /\ Refused(Created, k) /\ AllLifted(Created, k)
  BY DEF Inv, Lasting
<1>2. AllWait(k)
  BY DEF Broken, AllWait, In, Kernel
<1>3. ~circular => Quiet(Created, k)
  BY DEF Inv, Peaceful, Quiet
<1> HIDE DEF k
<1>4. Queued(k) /\ Sorted(Created, k)
  BY <1>1, <1>2, LinkingIsQueued
<1>5. Steady(Created, k, {}, {})
  BY <1>1, <1>4 DEF Steady, Orderly
<1> QED BY <1>1, <1>3, <1>5 DEF k

LEMMA SteadyIsSafe ==
    ASSUME NEW a, NEW k, Steady(a, k, {}, {}), NEW c, ~c => Quiet(a, k)
    PROVE  Safe(a, k, c)
<1>1. /\ k \in KernelType /\ Owned(a, k, {}) /\ Waiting(k, {}) /\ Queued(k)
      /\ Sorted(a, k) /\ Refused(a, k) /\ AllLifted(a, k)
  BY DEF Steady, Orderly
<1>2. AllWait(k)
  BY <1>1 DEF Queued, AllWait
<1>3. ASSUME NEW m \in Mutexes, k.queue[m] # <<>> PROVE k.owner[m] # NULL
  <2>1. k.queue[m] \in Seq(Tasks)
    BY <1>1, Fields
  <2>2. Head(k.queue[m]) \in In(k, m) /\ In(k, m) \subseteq Tasks
    <3>1. /\ Len(k.queue[m]) \in Nat \ {0} /\ Head(k.queue[m]) = k.queue[m][1]
          /\ \A u : u \in In(k, m) <=> \E i \in 1 .. Len(k.queue[m]) : k.queue[m][i] = u
          /\ \A i \in 1 .. Len(k.queue[m]) : k.queue[m][i] \in Tasks
      BY <1>3, <2>1, PlacesOf DEF In
    <3> QED BY <3>1
  <2>3. PICK t \in Tasks : t \in In(k, m)
    BY <2>2
  <2>4. Waits(k, t) /\ k.wid[t] = m
    BY <1>1, <2>3 DEF Queued
  <2> QED BY <1>1, <2>4, Priorities DEF Waiting
<1>4. Linking(k)
  BY <1>1, <1>3 DEF Linking, Queued
<1>5. InOrder(a, k)
  BY <1>1 DEF InOrder, Sorted, SortedBy
<1> QED BY <1>1, <1>2, <1>4, <1>5 DEF Safe, Lasting, Peaceful, Quiet

(* A step to the kernel state n keeps the invariant when n is safe. *)
LEMMA Settles ==
    ASSUME Created' \in CreatedType, NEW n, Becomes(n), circular' \in BOOLEAN,
           Safe(Created', n, circular')
    PROVE  Inv'
<1>1. n \in KernelType
  BY DEF Safe, Lasting
<1>2. Kernel' = n
  BY <1>1, Fields DEF Becomes, Kernel
<1>3. Lasting(Created', Kernel') /\ (~circular' => Peaceful(Created', Kernel'))
  BY <1>2 DEF Safe
<1>4. Inv' = /\ Created' \in CreatedType
             /\ circular' \in BOOLEAN
             /\ Lasting(Created', Kernel')
             /\ ~circular' => Peaceful(Created', Kernel')
  BY DEF Inv
<1> QED BY <1>3, <1>4

(* Without some of the edges there is no circle either: F[u] may also be a *)
(* task in H, which waits for nobody, or NULL.                             *)
LEMMA FewerEdges ==
    ASSUME NEW E, Acyclic(E), NEW F, NEW H,
           \A u \in Tasks : F[u] \in {E[u], NULL} \cup H,
           \A h \in H : F[h] = NULL
    PROVE  Acyclic(F)
<1>1. SUFFICES ASSUME NEW S \in SUBSET Tasks, S # {}, \A u \in S : F[u] \in S
               PROVE  FALSE
  BY DEF Acyclic
<1>2. NULL \notin S
  BY Priorities
<1>3. ASSUME NEW u \in S PROVE E[u] \in S
  <2>1. F[u] \notin H
    BY <1>1, <1>2
  <2> QED BY <1>1, <1>2, <2>1
<1> QED BY <1>1, <1>3 DEF Acyclic

(* The priorities that a task must have at least stay the same. *)
LEMMA ClaimsKept ==
    ASSUME NEW a, NEW k, NEW b, NEW n, NEW v \in Tasks,
           n.bpri[v] = k.bpri[v], n.list[v] = k.list[v],
           \A m \in k.list[v] : /\ b.attr[m] = a.attr[m] /\ b.ceil[m] = a.ceil[m]
                                /\ In(n, m) = In(k, m),
           \A u \in Followers(a, k, v) : n.pri[u] = k.pri[u]
    PROVE  /\ Claims(b, n, v) = Claims(a, k, v)
           /\ n.pri[v] = k.pri[v] /\ Exact(a, k, v) => Exact(b, n, v)
<1>1. OwnClaims(b, n, v) = OwnClaims(a, k, v)
  BY DEF OwnClaims
<1>2. Followers(b, n, v) = Followers(a, k, v)
  BY DEF Followers
<1>3. Claims(b, n, v) = Claims(a, k, v)
  BY <1>1, <1>2 DEF Claims
<1> QED BY <1>3 DEF Exact

-----------------------------------------------------------------------------
(* What a change of one task's priority leads to                           *)

LEMMA SameSteady ==
    ASSUME NEW a, NEW k, NEW R, Owned(a, k, R), Refused(a, k), NEW n, NEW B,
           Orderly(a, n, B), Same(k, n), AllLifted(a, n)
    PROVE  Steady(a, n, B, R) /\ Forward(n) = Forward(k)
<1>1. Owned(a, n, R)
  BY DEF Owned, Same
<1>2. Refused(a, n)
  BY DEF Refused, Same
<1>3. Forward(n) = Forward(k)
  BY DEF Forward, Same, Waits
<1> QED BY <1>1, <1>2, <1>3 DEF Steady

(* reset_priority lifts the task. *)
LEMMA ResetIs ==
    ASSUME Created \in CreatedType, NEW B, NEW k, Orderly(Created, k, B),
           NEW t \in Tasks, \A u \in Tasks \ {t} : Lifted(Created, k, u)
    PROVE  Kept(k, B, reset_priority(k, t)) /\ AllLifted(Created, reset_priority(k, t))
<1>1. Due(k, t) \in Pri /\ Lifts(Created, k, t, Due(k, t))
  BY DueLifts DEF Orderly
<1>2. CASE Due(k, t) = k.pri[t]
  <2>1. reset_priority(k, t) = k
    BY <1>2 DEF reset_priority
  <2>2. Lifted(Created, k, t)
    BY <1>1, <1>2 DEF Lifted
  <2>3. AllLifted(Created, k)
    BY <2>2 DEF AllLifted
  <2> QED BY <2>1, <2>3, SameRefl DEF Kept
<1>3. CASE Due(k, t) # k.pri[t]
  <2>1. reset_priority(k, t) = change_task_priority(k, t, Due(k, t))
    BY <1>3 DEF reset_priority
  <2> QED BY <1>1, <2>1, ChangeIs DEF AllLifted
<1> QED BY <1>2, <1>3

(* The change does not come to the tasks that wait for o, and leaves the   *)
(* queues of o's mutexes as they are; nor those of B's mutexes.            *)
LEMMA Untouched ==
    ASSUME NEW k, NEW o, NEW B, NEW E, Calm(k, o, B, E), NEW p, NEW n, NEW V,
           Calmed(k, o, p, B, E, n, V), NEW m \in Mutexes,
           k.owner[m] \in B \cup {o}
    PROVE  /\ n.queue[m] = k.queue[m]
           /\ \A u \in In(k, m) : u \in Tasks /\ n.pri[u] = k.pri[u]
<1>1. k \in KernelType /\ Queued(k) /\ Edges(k, E)
  BY DEF Calm, Orderly
<1>2. /\ \A u \in V : Waits(k, u) => E[u] \notin B \cup {o}
      /\ Touched(k, n, V) /\ V \subseteq Tasks
  BY DEF Calmed
<1>3. \A u \in V : ~(Waits(k, u) /\ k.wid[u] = m)
  BY <1>1, <1>2 DEF Edges
<1>4. ASSUME NEW u \in In(k, m) PROVE u \in Tasks \ V
  <2>1. Waits(k, u) /\ k.wid[u] = m
    BY <1>1 DEF Queued
  <2>2. u \in Tasks
    BY <1>1, QueueLinked
  <2> QED BY <1>3, <2>1, <2>2
<1> QED BY <1>2, <1>3, <1>4 DEF Touched

LEMMA CalmedClaims ==
    ASSUME NEW k, NEW o, NEW B, NEW E, Calm(k, o, B, E), NEW p, NEW n, NEW V,
           Calmed(k, o, p, B, E, n, V)
    PROVE  Claims(Created, n, o) = Claims(Created, k, o)
<1>1. /\ k \in KernelType /\ o \in Tasks /\ \A m \in k.list[o] : k.owner[m] = o
  BY DEF Calm, Orderly
<1>2. Same(k, n) /\ Touched(k, n, V)
  BY DEF Calmed
<1>3. k.list[o] \subseteq Mutexes
  BY <1>1, Fields
<1>4. ASSUME NEW u \in Followers(Created, k, o) PROVE n.pri[u] = k.pri[u]
  <2>1. PICK m \in k.list[o] : u \in In(k, m)
    BY DEF Followers
  <2>2. m \in Mutexes /\ k.owner[m] \in B \cup {o}
    BY <1>1, <1>3
  <2> QED BY <2>1, <2>2, Untouched
<1>5. n.bpri[o] = k.bpri[o] /\ n.list[o] = k.list[o]
  BY <1>2 DEF Same
<1>6. \A m \in k.list[o] : In(n, m) = In(k, m)
  BY <1>2, <1>3 DEF Touched
<1> QED BY <1>1, <1>4, <1>5, <1>6, ClaimsKept

LEMMA CalmedExact ==
    ASSUME NEW k, NEW o, NEW B, NEW E, Calm(k, o, B, E), NEW p, NEW n, NEW V,
           Calmed(k, o, p, B, E, n, V), Least(p, Claims(Created, k, o))
    PROVE  AllExact(Created, n)
<1>1. n.pri[o] = p /\ \A u \in Tasks \ {o} : Exact(Created, n, u)
  BY DEF Calmed
<1>2. Exact(Created, n, o)
  BY <1>1, CalmedClaims DEF Exact
<1> QED BY <1>1, <1>2 DEF AllExact

LEMMA ResetCalms ==
    ASSUME Created \in CreatedType, NEW k, NEW o, NEW B, NEW E, Calm(k, o, B, E)
    PROVE  /\ AllExact(Created, reset_priority(k, o))
           /\ \E V : Calmed(k, o, Due(k, o), B, E, reset_priority(k, o), V)
<1> DEFINE p == Due(k, o)
           n == reset_priority(k, o)
<1>1. Orderly(Created, k, B) /\ o \in Tasks /\ k \in KernelType /\ Sorted(Created, k)
  BY DEF Calm, Orderly
<1>2. p \in Pri /\ Least(p, Claims(Created, k, o))
  BY <1>1, DueIsLeast
<1> SUFFICES \E V : Calmed(k, o, p, B, E, n, V)
  BY <1>2, CalmedExact
<1>3. CASE p = k.pri[o]
  <2>1. n = k
    BY <1>3 DEF reset_priority
  <2> DEFINE c == Call(k, o, p)
  <2>2. c.k = k /\ c.t = o /\ c.p = p /\ o # NULL
    BY <1>1, Priorities DEF Call
  <2> HIDE DEF c
  <2>3. Touched(k, k, {}) /\ Touched(k, k, {o})
    BY DEF Touched
  <2>4. Chain(k, o, p, B, E, c, {})
    BY <1>1, <1>2, <2>2, <2>3, SameRefl DEF Chain, Calm
  <2>5. o \notin B /\ (Waits(k, o) => E[o] \notin B \cup {o})
    BY <2>2, <2>4, Fresh
  <2>6. \A u \in Tasks \ {o} : Exact(Created, k, u)
    BY DEF Calm
  <2>7. Calmed(k, o, p, B, E, k, {o})
    BY <1>1, <1>3, <2>3, <2>5, <2>6, SameRefl DEF Calmed
  <2> QED BY <2>1, <2>7
<1>4. CASE p # k.pri[o]
  <2>1. n = change_task_priority(k, o, p)
    BY <1>4 DEF reset_priority
  <2>2. \E V : Calmed(k, o, p, B, E, change_task_priority(k, o, p), V)
    BY <1>2, CallsEnd
  <2> QED BY <2>1, <2>2
<1> QED BY <1>3, <1>4

(* Where a change of o's priority may start from *)
LEMMA CalmStart ==
    ASSUME NEW k, NEW B \in SUBSET Tasks, Orderly(Created, k, B), NEW o \in Tasks,
           NEW R, Owned(Created, k, R), \A m \in R : k.owner[m] \in {NULL, o},
           Acyclic(Forward(k)), \A b \in B : Forward(k)[b] \in B \cup {o},
           \A u \in Tasks \ {o} : Exact(Created, k, u)
    PROVE  Calm(k, o, B, Forward(k))
<1>1. k \in KernelType /\ Waiting(k, B)
  BY DEF Orderly
<1>2. k.owner \in [Mutexes -> Tasks \cup {NULL}] /\ k.list \in [Tasks -> SUBSET Mutexes]
  BY <1>1, Fields
<1>3. Edges(k, Forward(k))
  BY <1>1 DEF Edges, Forward, Waiting
<1>4. \A t \in Tasks : \A m \in k.list[t] : k.owner[m] = t
  BY <1>2 DEF Owned
<1>5. ASSUME NEW m \in Mutexes, k.owner[m] \notin {NULL, o}
      PROVE  m \in k.list[k.owner[m]]
  <2>1. k.owner[m] \in Tasks /\ m \notin R
    BY <1>2, <1>5
  <2> QED BY <2>1 DEF Owned
<1> QED BY <1>3, <1>4, <1>5 DEF Calm

LEMMA ForwardIs ==
    ASSUME NEW k, NEW t \in Tasks
    PROVE  Forward(k)[t] = IF Waits(k, t) THEN k.owner[k.wid[t]] ELSE NULL
  BY DEF Forward

(* The first half of an unlock and of a deletion: m is out of its owner's  *)
(* list, and the owner's priority follows.                                 *)
Freed(k, m, n) ==
    /\ Steady(Created, n, {}, {m}) /\ Forward(n) = Forward(k) /\ Same([k EXCEPT !.list = n.list], n)
    /\ \A u \in Tasks : n.list[u] = k.list[u] \ {m}
    /\ Quiet(Created, k) =>
        /\ Quiet(Created, n)
        /\ n.queue[m] = k.queue[m]
        /\ \A u \in In(k, m) : n.pri[u] = k.pri[u]

LEMMA ReleaseFrees ==
    ASSUME Created \in CreatedType, NEW k, Steady(Created, k, {}, {}),
           NEW m \in Mutexes, NEW t \in Tasks, k.owner[m] = t
    PROVE  Freed(k, m, release_mutex(k, t, m))
<1> DEFINE k1 == [k EXCEPT !.list[t] = @ \ {m}]
           n == release_mutex(k, t, m)
<1>1. /\ k \in KernelType /\ Waiting(k, {}) /\ Queued(k) /\ Sorted(Created, k)
      /\ Owned(Created, k, {}) /\ Refused(Created, k) /\ AllLifted(Created, k)
  BY DEF Steady, Orderly
<1>2. /\ k1 \in KernelType /\ Same([k EXCEPT !.list = k1.list], k1)
      /\ k1.pri = k.pri /\ k1.queue = k.queue
      /\ k1.state = k.state /\ k1.bpri = k.bpri /\ k1.wid = k.wid /\ k1.owner = k.owner
      /\ k1.list = [k.list EXCEPT ![t] = @ \ {m}]
  BY <1>1 DEF KernelType, Same
<1>3. k.list \in [Tasks -> SUBSET Mutexes]
  BY <1>1, Fields
<1>4. \A u \in Tasks : k1.list[u] = k.list[u] \ {m}
  BY <1>1, <1>2, <1>3 DEF Owned
<1>5. n = reset_priority(k1, t)
  BY DEF release_mutex
<1> HIDE DEF k1, n
<1>6. Waits(k1, t) = Waits(k, t) /\ \A m2 \in Mutexes : In(k1, m2) = In(k, m2)
  BY <1>2 DEF Waits, In
<1>7. Orderly(Created, k1, {})
  <2>1. Waiting(k1, {})
    BY <1>1, <1>2 DEF Waiting, Waits, In
  <2>2. Queued(k1)
    BY <1>1, <1>2 DEF Queued, Waits, In
  <2>3. Sorted(Created, k1)
    BY <1>1, <1>2 DEF Sorted
  <2> QED BY <1>2, <2>1, <2>2, <2>3 DEF Orderly
<1>8. Owned(Created, k1, {m})
  BY <1>1, <1>2, <1>4 DEF Owned
<1>9. Refused(Created, k1)
  BY <1>1, <1>2, <1>4 DEF Refused
<1>10. AllLifted(Created, k1)
  BY <1>1, <1>2, <1>4 DEF AllLifted, Lifted, Lifts
<1>11. Kept(k1, {}, n) /\ AllLifted(Created, n)
  BY <1>5, <1>7, <1>10, ResetIs DEF AllLifted
<1>12. Steady(Created, n, {}, {m}) /\ Forward(n) = Forward(k1)
  BY <1>8, <1>9, <1>11, SameSteady DEF Kept
<1>13. Forward(k1) = Forward(k)
  BY <1>2 DEF Forward, Waits
<1>14. ASSUME Quiet(Created, k)
       PROVE  /\ Quiet(Created, n) /\ n.queue[m] = k.queue[m]
              /\ \A u \in In(k, m) : n.pri[u] = k.pri[u]
  <2>1. Acyclic(Forward(k1)) /\ \A u \in Tasks : Exact(Created, k, u)
    BY <1>13, <1>14 DEF Quiet, AllExact
  <2>2. ASSUME NEW u \in Tasks \ {t} PROVE Exact(Created, k1, u)
    <3>1. k1.list[u] = k.list[u]
      BY <1>2, <1>3
    <3>2. \A m2 \in k.list[u] : In(k1, m2) = In(k, m2)
      BY <1>3, <1>6
    <3> QED BY <1>2, <2>1, <3>1, <3>2, ClaimsKept
  <2>3. {} \in SUBSET Tasks /\ \A m2 \in {m} : k1.owner[m2] \in {NULL, t}
    BY <1>2
  <2>4. Calm(k1, t, {}, Forward(k1))
    BY <1>7, <1>8, <2>1, <2>2, <2>3, CalmStart
  <2>5. PICK V : Calmed(k1, t, Due(k1, t), {}, Forward(k1), n, V)
    BY <1>5, <2>4, ResetCalms
  <2>6. AllExact(Created, n)
    BY <1>5, <2>4, ResetCalms
  <2>7. k1.owner[m] \in {} \cup {t}
    BY <1>2
  <2>8. n.queue[m] = k1.queue[m] /\ \A u \in In(k1, m) : n.pri[u] = k1.pri[u]
    BY <2>4, <2>5, <2>7, Untouched
  <2> QED BY <1>2, <1>6, <1>12, <1>13, <1>14, <2>6, <2>8 DEF Quiet
<1>15. Same([k EXCEPT !.list = n.list], n) /\ \A u \in Tasks : n.list[u] = k.list[u] \ {m}
  <2>1. Same(k1, n)
    BY <1>11 DEF Kept
  <2> QED BY <1>1, <1>2, <1>4, <2>1 DEF Same, KernelType
<1> QED BY <1>12, <1>13, <1>14, <1>15 DEF Freed, n

-----------------------------------------------------------------------------
(* Mutexes that are handed over                                            *)

Passed(k, R) == {m \in R : k.queue[m] # <<>>}

HeirsOf(k, R) == {Head(k.queue[m]) : m \in Passed(k, R)}

Gained(k, R, u) == {m \in Passed(k, R) : Head(k.queue[m]) = u}

Offers(k, R, u) ==
    {k.pri[u]} \cup {ceilpri[m] : m \in {x \in Gained(k, R, u) : attr[x] = "CEILING"}}

(* What make_non_wait does to the state and to the wait id of the tasks U *)
NoLonger(k, U) ==
    [u \in Tasks |-> IF u \notin U THEN k.state[u]
                     ELSE IF k.state[u] = "WAIT" THEN "READY" ELSE "SUSPEND"]

ForNothing(k, U) == [u \in Tasks |-> IF u \in U THEN NULL ELSE k.wid[u]]

LEMMA NonWaitIs ==
    ASSUME NEW k, IsRecord(k), NEW U
    PROVE  LET n == NonWait(k, U)
           IN  /\ IsRecord(n) /\ n.state = NoLonger(k, U) /\ n.wid = ForNothing(k, U)
               /\ n.bpri = k.bpri /\ n.queue = k.queue /\ n.owner = k.owner
               /\ n.list = k.list /\ n.pri = k.pri
<1>1. NonWait(k, U) = [k EXCEPT !.state = NoLonger(k, U), !.wid = ForNothing(k, U)]
  BY DEF NonWait, NoLonger, ForNothing
<1> DEFINE n == NonWait(k, U)
<1> HIDE DEF n
<1>2. n = [k EXCEPT !.state = NoLonger(k, U), !.wid = ForNothing(k, U)]
  BY <1>1 DEF n
<1>3. /\ IsRecord(n) /\ n.state = NoLonger(k, U) /\ n.wid = ForNothing(k, U)
      /\ n.bpri = k.bpri /\ n.queue = k.queue /\ n.owner = k.owner
      /\ n.list = k.list /\ n.pri = k.pri
  BY <1>2 DEF IsRecord
<1> QED BY <1>3 DEF n

LEMMA HandOverIs ==
    ASSUME NEW k \in KernelType, NEW R \in SUBSET Mutexes
    PROVE  LET n == HandOver(k, R)
           IN  /\ IsRecord(n) /\ n.bpri = k.bpri
               /\ n.state = NoLonger(k, HeirsOf(k, R))
               /\ n.wid = ForNothing(k, HeirsOf(k, R))
               /\ n.queue = [m \in Mutexes |-> IF m \in Passed(k, R) THEN Tail(k.queue[m])
                                               ELSE k.queue[m]]
               /\ n.owner = [m \in Mutexes |-> IF m \in Passed(k, R) THEN Head(k.queue[m])
                                               ELSE IF m \in R THEN NULL ELSE k.owner[m]]
               /\ n.list = [u \in Tasks |-> k.list[u] \cup Gained(k, R, u)]
               /\ n.pri = [u \in Tasks |-> Min(Offers(k, R, u))]
<1> DEFINE H == HeirsOf(k, R)
           k1 == NonWait(k, H)
           n == HandOver(k, R)
           queue == [m \in Mutexes |-> IF m \in Passed(k, R) THEN Tail(k.queue[m])
                                       ELSE k.queue[m]]
           owner == [m \in Mutexes |-> IF m \in Passed(k, R) THEN Head(k.queue[m])
                                       ELSE IF m \in R THEN NULL ELSE k.owner[m]]
           list == [u \in Tasks |-> k.list[u] \cup Gained(k, R, u)]
           pri == [u \in Tasks |-> Min(Offers(k, R, u))]
<1>1. /\ k1.state = NoLonger(k, H) /\ k1.wid = ForNothing(k, H)
      /\ k1.bpri = k.bpri /\ k1.queue = k.queue /\ k1.owner = k.owner
      /\ k1.list = k.list /\ k1.pri = k.pri /\ IsRecord(k1)
  <2>1. IsRecord(k)
    BY Fields DEF IsRecord
  <2> QED BY <2>1, NonWaitIs
<1>2. n = [k1 EXCEPT !.queue = queue, !.owner = owner, !.list = list, !.pri = pri]
  <2> HIDE DEF k1
  <2>1. /\ queue = [m \in Mutexes |-> IF m \in Passed(k, R) THEN Tail(k1.queue[m])
                                       ELSE k1.queue[m]]
        /\ owner = [m \in Mutexes |-> IF m \in Passed(k, R) THEN Head(k.queue[m])
                                       ELSE IF m \in R THEN NULL ELSE k1.owner[m]]
        /\ list = [u \in Tasks |-> k1.list[u] \cup Gained(k, R, u)]
        /\ pri = [u \in Tasks |->
                      Min({k1.pri[u]} \cup
                          {ceilpri[m] : m \in {x \in Gained(k, R, u) :
                                                  attr[x] = "CEILING"}})]
    BY <1>1 DEF Offers
  <2> HIDE DEF queue, owner, list, pri
  <2> QED BY <2>1 DEF HandOver, Passed, HeirsOf, Gained, k1, H
<1> HIDE DEF k1, queue, owner, list, pri, H, n
<1>3. /\ IsRecord(n) /\ n.bpri = k.bpri /\ n.state = k1.state /\ n.wid = k1.wid
      /\ n.queue = queue /\ n.owner = owner /\ n.list = list /\ n.pri = pri
  BY <1>1, <1>2 DEF IsRecord
<1> QED BY <1>1, <1>3 DEF n, H, queue, owner, list, pri

(* An heir of the mutexes R waited for the one it gets, at the head of its *)
(* queue.                                                                  *)
LEMMA HeirIs ==
    ASSUME NEW a, NEW k, NEW B, Orderly(a, k, B), NEW R \in SUBSET Mutexes,
           NEW m \in Passed(k, R)
    PROVE  LET h == Head(k.queue[m])
           IN  /\ m \in R /\ m \in Mutexes
               /\ h \in Tasks /\ h \in In(k, m) /\ Waits(k, h) /\ k.wid[h] = m
               /\ Linked(Tasks, Tail(k.queue[m]), In(k, m) \ {h})
               /\ a.attr[m] # "TFIFO" => /\ \A u \in In(k, m) : k.pri[h] <= k.pri[u]
                                         /\ SortedBy(Tail(k.queue[m]), k.pri)
<1>1. /\ k \in KernelType /\ Queued(k) /\ Sorted(a, k) /\ m \in Mutexes /\ m \in R
      /\ k.queue[m] # <<>>
  BY DEF Orderly, Passed
<1>2. Linked(Tasks, k.queue[m], In(k, m)) /\ k.queue[m] \in Seq(Tasks)
      /\ k.pri \in [Tasks -> Pri]
  BY <1>1, QueueLinked, Fields
<1>3. /\ Head(k.queue[m]) \in In(k, m) /\ Head(k.queue[m]) \in Tasks
      /\ Linked(Tasks, Tail(k.queue[m]), In(k, m) \ {Head(k.queue[m])})
  BY <1>1, <1>2, HeadLinked
<1>4. ASSUME a.attr[m] # "TFIFO"
      PROVE  /\ \A u \in In(k, m) : k.pri[Head(k.queue[m])] <= k.pri[u]
             /\ SortedBy(Tail(k.queue[m]), k.pri)
  <2>1. SortedBy(k.queue[m], k.pri)
    BY <1>1, <1>4 DEF Sorted
  <2> QED BY <1>1, <1>2, <2>1, HeadFirst, TailInOrder DEF In
<1> QED BY <1>1, <1>3, <1>4 DEF Queued

(* What becomes of an heir, and of another task *)
Inherits(k, R, n, u) ==
    LET m == k.wid[u]
    IN  /\ m \in Passed(k, R) /\ m \in Mutexes /\ Head(k.queue[m]) = u /\ Waits(k, u)
        /\ ~Waits(n, u) /\ n.state[u] \in {"READY", "SUSPEND"}
        /\ n.wid[u] = NULL /\ n.list[u] = k.list[u] \cup {m}
        /\ n.pri[u] = IF attr[m] = "CEILING" /\ ceilpri[m] < k.pri[u] THEN ceilpri[m]
                      ELSE k.pri[u]

Unchanged(k, n, u) ==
    /\ n.state[u] = k.state[u] /\ n.wid[u] = k.wid[u] /\ n.list[u] = k.list[u]
    /\ n.pri[u] = k.pri[u]

LEMMA MinOfTwo ==
    /\ \A x \in Nat : Min({x}) = x
    /\ \A x, y \in Nat : Min({x, y}) = IF y < x THEN y ELSE x
<1>1. ASSUME NEW x \in Nat PROVE Min({x}) = x
  <2>1. {x} \in SUBSET Nat /\ {x} # {} /\ Least(x, {x})
    BY DEF Least
  <2> QED BY <2>1, LeastIsMin
<1>2. ASSUME NEW x \in Nat, NEW y \in Nat
      PROVE  Min({x, y}) = IF y < x THEN y ELSE x
  <2> DEFINE z == IF y < x THEN y ELSE x
  <2>1. {x, y} \in SUBSET Nat /\ {x, y} # {} /\ Least(z, {x, y})
    BY DEF Least
  <2> QED BY <2>1, LeastIsMin
<1> QED BY <1>1, <1>2

LEMMA HandedTo ==
    ASSUME Created \in CreatedType, NEW k, NEW B, Orderly(Created, k, B),
           NEW R \in SUBSET Mutexes, NEW u \in Tasks
    PROVE  LET n == HandOver(k, R)
           IN  IF u \in HeirsOf(k, R) THEN Inherits(k, R, n, u) ELSE Unchanged(k, n, u)
<1> DEFINE n == HandOver(k, R)
<1>1. k \in KernelType /\ k.pri[u] \in Nat
  BY Fields, Priorities DEF Orderly
<1>2. /\ n.state = NoLonger(k, HeirsOf(k, R)) /\ n.wid = ForNothing(k, HeirsOf(k, R))
      /\ n.list = [v \in Tasks |-> k.list[v] \cup Gained(k, R, v)]
      /\ n.pri = [v \in Tasks |-> Min(Offers(k, R, v))]
  BY <1>1, HandOverIs
<1> HIDE DEF n
<1>3. CASE u \notin HeirsOf(k, R)
  <2>1. Gained(k, R, u) = {}
    BY <1>3 DEF Gained, HeirsOf
  <2>2. n.pri[u] = Min({k.pri[u]})
    <3>1. Offers(k, R, u) = {k.pri[u]}
      BY <2>1 DEF Offers
    <3> QED BY <1>2, <3>1
  <2>3. n.pri[u] = k.pri[u]
    BY <1>1, <2>2, MinOfTwo
  <2> QED BY <1>2, <1>3, <2>1, <2>3 DEF Unchanged, NoLonger, ForNothing, n
<1>4. CASE u \in HeirsOf(k, R)
  <2>1. PICK m \in Passed(k, R) : Head(k.queue[m]) = u
    BY <1>4 DEF HeirsOf
  <2>2. m \in Mutexes /\ Waits(k, u) /\ k.wid[u] = m
    BY <2>1, HeirIs
  <2>3. Gained(k, R, u) = {m}
    <3>1. ASSUME NEW x \in Gained(k, R, u) PROVE x = m
      <4>1. x \in Passed(k, R) /\ Head(k.queue[x]) = u
        BY DEF Gained
      <4>2. k.wid[u] = x
        BY <4>1, HeirIs
      <4> QED BY <2>2, <4>2
    <3> QED BY <2>1, <3>1 DEF Gained
  <2>4. n.pri[u] = IF attr[m] = "CEILING" /\ ceilpri[m] < k.pri[u] THEN ceilpri[m]
                   ELSE k.pri[u]
    <3>1. ceilpri[m] \in Nat
      BY <2>2, Priorities DEF CreatedType, Created
    <3>2. CASE attr[m] = "CEILING"
      <4>1. Offers(k, R, u) = {k.pri[u], ceilpri[m]}
        BY <2>3, <3>2 DEF Offers
      <4>2. n.pri[u] = Min({k.pri[u], ceilpri[m]})
        BY <1>2, <4>1
      <4> QED BY <1>1, <3>1, <3>2, <4>2, MinOfTwo
    <3>3. CASE attr[m] # "CEILING"
      <4>1. Offers(k, R, u) = {k.pri[u]}
        BY <2>3, <3>3 DEF Offers
      <4>2. n.pri[u] = Min({k.pri[u]})
        BY <1>2, <4>1
      <4> QED BY <1>1, <3>3, <4>2, MinOfTwo
    <3> QED BY <3>2, <3>3
  <2>5. n.state[u] \in {"READY", "SUSPEND"}
    BY <1>2, <1>4 DEF NoLonger
  <2>6. ~Waits(n, u)
    BY <2>5 DEF Waits
  <2>7. n.wid[u] = NULL /\ n.list[u] = k.list[u] \cup {m}
    BY <1>2, <1>4, <2>3 DEF ForNothing
  <2>8. k.wid[u] \in Passed(k, R) /\ Head(k.queue[k.wid[u]]) = u /\ k.wid[u] \in Mutexes
    BY <2>1, <2>2
  <2> HIDE DEF n
  <2>9. Inherits(k, R, n, u)
    BY <2>2, <2>4, <2>5, <2>6, <2>7, <2>8 DEF Inherits
  <2> QED BY <1>4, <2>9 DEF n
<1> QED BY <1>3, <1>4

(* A hand-over leaves everything in order again, *)
LEMMA HandOverSteady ==
    ASSUME Created \in CreatedType, NEW k, NEW B \in SUBSET Tasks, NEW R \in SUBSET Mutexes,
           Steady(Created, k, B, R), \A b \in B : k.wid[b] \notin R
    PROVE  Steady(Created, HandOver(k, R), B, {})
<1> DEFINE n == HandOver(k, R)
           H == HeirsOf(k, R)
           P == Passed(k, R)
<1>1. /\ Orderly(Created, k, B) /\ k \in KernelType /\ Waiting(k, B) /\ Queued(k)
      /\ Sorted(Created, k) /\ Owned(Created, k, R) /\ Refused(Created, k)
      /\ AllLifted(Created, k)
  BY DEF Steady, Orderly
<1>2. /\ IsRecord(n) /\ n.bpri = k.bpri
      /\ n.state = NoLonger(k, H) /\ n.wid = ForNothing(k, H)
      /\ n.queue = [m \in Mutexes |-> IF m \in P THEN Tail(k.queue[m]) ELSE k.queue[m]]
      /\ n.owner = [m \in Mutexes |-> IF m \in P THEN Head(k.queue[m])
                                      ELSE IF m \in R THEN NULL ELSE k.owner[m]]
      /\ n.list = [u \in Tasks |-> k.list[u] \cup Gained(k, R, u)]
      /\ n.pri = [u \in Tasks |-> Min(Offers(k, R, u))]
  BY <1>1, HandOverIs
<1>3. /\ k.state \in [Tasks -> States] /\ k.bpri \in [Tasks -> Pri]
      /\ k.pri \in [Tasks -> Pri] /\ k.wid \in [Tasks -> Mutexes \cup {NULL}]
      /\ k.list \in [Tasks -> SUBSET Mutexes]
      /\ k.owner \in [Mutexes -> Tasks \cup {NULL}]
      /\ k.queue \in [Mutexes -> Seq(Tasks)]
      /\ \A m \in Mutexes : ceilpri[m] \in Pri
      /\ Created.attr = attr /\ Created.ceil = ceilpri
  BY <1>1, Fields DEF CreatedType, Created
<1>4. ASSUME NEW u \in Tasks
      PROVE  IF u \in H THEN Inherits(k, R, n, u) ELSE Unchanged(k, n, u)
  BY <1>1, HandedTo
<1>5. ASSUME NEW m \in P
      PROVE  LET h == Head(k.queue[m])
             IN  /\ m \in R /\ m \in Mutexes
                 /\ h \in Tasks /\ h \in In(k, m) /\ Waits(k, h) /\ k.wid[h] = m
                 /\ Linked(Tasks, Tail(k.queue[m]), In(k, m) \ {h})
                 /\ attr[m] # "TFIFO" => /\ \A u \in In(k, m) : k.pri[h] <= k.pri[u]
                                         /\ SortedBy(Tail(k.queue[m]), k.pri)
                 /\ h \in H
  BY <1>1, <1>3, HeirIs DEF HeirsOf
<1> HIDE DEF n, H, P
<1>6. \A u \in H : u \in Tasks /\ k.wid[u] \in P /\ Head(k.queue[k.wid[u]]) = u
                   /\ k.wid[u] \in R
  <2>1. H \subseteq Tasks
    BY <1>5 DEF HeirsOf, H, P
  <2> QED BY <1>4, <1>5, <2>1 DEF Inherits, P
<1>7. ASSUME NEW u \in Tasks
      PROVE  /\ n.state[u] \in States /\ n.wid[u] \in Mutexes \cup {NULL}
             /\ n.list[u] \in SUBSET Mutexes /\ n.pri[u] \in Pri
  <2>1. CASE u \in H
    <3>1. Inherits(k, R, n, u)
      BY <1>4, <2>1
    <3> QED BY <1>3, <3>1 DEF Inherits, States
  <2>2. CASE u \notin H
    <3>1. Unchanged(k, n, u)
      BY <1>4, <2>2
    <3> QED BY <1>3, <3>1 DEF Unchanged
  <2> QED BY <2>1, <2>2
<1>8. ASSUME NEW m \in Mutexes
      PROVE  /\ n.queue[m] \in Seq(Tasks) /\ n.owner[m] \in Tasks \cup {NULL}
             /\ IsInjective(n.queue[m])
             /\ In(n, m) = IF m \in P THEN In(k, m) \ {Head(k.queue[m])} ELSE In(k, m)
  <2>1. CASE m \in P
    <3>1. n.queue[m] = Tail(k.queue[m]) /\ n.owner[m] = Head(k.queue[m])
      BY <1>2, <2>1
    <3>2. Linked(Tasks, Tail(k.queue[m]), In(k, m) \ {Head(k.queue[m])})
      BY <1>5, <2>1
    <3> QED BY <1>5, <2>1, <3>1, <3>2 DEF Linked, In
  <2>2. CASE m \notin P
    BY <1>1, <1>2, <1>3, <2>2 DEF Queued, In
  <2> QED BY <2>1, <2>2
<1>9. n \in KernelType
  <2>1. /\ n.state \in [Tasks -> States] /\ n.wid \in [Tasks -> Mutexes \cup {NULL}]
        /\ n.list \in [Tasks -> SUBSET Mutexes] /\ n.pri \in [Tasks -> Pri]
    <3>1. /\ n.state = [u \in Tasks |-> n.state[u]] /\ n.wid = [u \in Tasks |-> n.wid[u]]
          /\ n.list = [u \in Tasks |-> n.list[u]] /\ n.pri = [u \in Tasks |-> n.pri[u]]
      BY <1>2 DEF NoLonger, ForNothing
    <3> QED BY <1>7, <3>1
  <2>2. n.owner \in [Mutexes -> Tasks \cup {NULL}] /\ n.queue \in [Mutexes -> Seq(Tasks)]
    <3>1. /\ n.owner = [m \in Mutexes |-> n.owner[m]]
          /\ n.queue = [m \in Mutexes |-> n.queue[m]]
      BY <1>2
    <3> QED BY <1>8, <3>1
  <2>3. n.bpri \in [Tasks -> Pri]
    BY <1>2, <1>3
  <2> QED BY <1>2, <2>1, <2>2, <2>3, RecordTyped
<1>10. ASSUME NEW t \in Tasks
       PROVE  IF Waits(n, t)
              THEN /\ n.wid[t] \in Mutexes /\ n.owner[n.wid[t]] \in Tasks \ {t}
                   /\ t \notin B => t \in In(n, n.wid[t])
              ELSE n.wid[t] = NULL
  <2>1. CASE t \in H
    <3>1. Inherits(k, R, n, t)
      BY <1>4, <2>1
    <3> QED BY <3>1 DEF Inherits
  <2>2. CASE t \notin H
    <3>1. n.state[t] = k.state[t] /\ n.wid[t] = k.wid[t]
      BY <1>4, <2>2 DEF Unchanged
    <3>2. CASE ~Waits(k, t)
      BY <1>1, <3>1, <3>2 DEF Waiting, Waits
    <3>3. CASE Waits(k, t)
      <4> DEFINE m == k.wid[t]
      <4>1. /\ m \in Mutexes /\ k.owner[m] \in Tasks \ {t}
            /\ t \notin B => t \in In(k, m)
        BY <1>1, <3>3 DEF Waiting
      <4>2. CASE m \in P
        <5>1. Head(k.queue[m]) \in H /\ Head(k.queue[m]) \in Tasks
          BY <1>5, <4>2
        <5>2. n.owner[m] \in Tasks \ {t}
          BY <1>2, <2>2, <4>1, <4>2, <5>1
        <5>3. t \notin B => t \in In(n, m)
          BY <1>8, <2>2, <4>1, <4>2, <5>1
        <5> QED BY <3>1, <3>3, <4>1, <5>2, <5>3 DEF Waits
      <4>3. CASE m \notin P
        <5>1. m \notin R
          <6>1. SUFFICES ASSUME m \in R PROVE FALSE
            OBVIOUS
          <6>2. t \in In(k, m)
            BY <4>1, <6>1
          <6>3. k.queue[m] # <<>>
            <7>1. Linked(Tasks, k.queue[m], In(k, m))
              BY <1>1, <4>1, QueueLinked
            <7> QED BY <6>2, <7>1, EmptyLinked
          <6> QED BY <4>3, <6>1, <6>3 DEF P, Passed
        <5>2. n.owner[m] = k.owner[m] /\ In(n, m) = In(k, m)
          BY <1>2, <1>8, <4>1, <4>3, <5>1
        <5> QED BY <3>1, <3>3, <4>1, <5>2 DEF Waits
      <4> QED BY <4>2, <4>3
    <3> QED BY <3>2, <3>3
  <2> QED BY <2>1, <2>2
<1>11. Waiting(n, B)
  BY <1>10 DEF Waiting
<1>12. ASSUME NEW m \in Mutexes, NEW v \in In(n, m)
       PROVE  v \in In(k, m) /\ v \in Tasks \ H /\ Unchanged(k, n, v) /\ Waits(n, v)
              /\ n.wid[v] = m
  <2>1. v \in In(k, m) /\ (m \in P => v # Head(k.queue[m]))
    BY <1>8, <1>12
  <2>2. v \in Tasks /\ Waits(k, v) /\ k.wid[v] = m
    BY <1>1, <2>1, QueueLinked DEF Queued
  <2>3. v \notin H
    BY <1>6, <2>1, <2>2
  <2>4. Unchanged(k, n, v)
    BY <1>4, <2>2, <2>3
  <2> QED BY <2>1, <2>2, <2>3, <2>4 DEF Unchanged, Waits
<1>13. Queued(n)
  BY <1>8, <1>12 DEF Queued
<1>14. ASSUME NEW m \in Mutexes, attr[m] # "TFIFO" PROVE SortedBy(n.queue[m], n.pri)
  <2>1. SortedBy(n.queue[m], k.pri)
    <3>1. CASE m \in P
      BY <1>2, <1>5, <1>14, <3>1
    <3>2. CASE m \notin P
      <4>1. n.queue[m] = k.queue[m]
        BY <1>2, <3>2
      <4> QED BY <1>1, <1>3, <1>14, <4>1 DEF Sorted
    <3> QED BY <3>1, <3>2
  <2>2. \A i \in 1 .. Len(n.queue[m]) : n.queue[m][i] \in In(n, m)
    <3>1. n.queue[m] \in Seq(Tasks)
      BY <1>8
    <3> QED BY <3>1, PlacesOf DEF In
  <2>3. \A i \in 1 .. Len(n.queue[m]) : n.pri[n.queue[m][i]] = k.pri[n.queue[m][i]]
    BY <1>12, <2>2 DEF Unchanged
  <2> QED BY <2>1, <2>3 DEF SortedBy
<1>15. Orderly(Created, n, B)
  BY <1>3, <1>9, <1>11, <1>13, <1>14 DEF Orderly, Sorted
<1>16. ASSUME NEW m \in Mutexes, NEW t \in Tasks
       PROVE  m \in n.list[t] <=> n.owner[m] = t
  <2>1. m \in n.list[t] <=> m \in k.list[t] \/ (m \in P /\ Head(k.queue[m]) = t)
    BY <1>2 DEF Gained, P
  <2>2. m \in k.list[t] <=> k.owner[m] = t /\ m \notin R
    BY <1>1 DEF Owned
  <2>3. t # NULL
    BY Priorities
  <2>4. CASE m \in P
    BY <1>2, <1>5, <2>1, <2>2, <2>4
  <2>5. CASE m \notin P
    BY <1>2, <2>1, <2>2, <2>3, <2>5
  <2> QED BY <2>4, <2>5
<1>17. ASSUME NEW m \in Mutexes, n.owner[m] # NULL
       PROVE  Created.exists[m] /\ n.state[n.owner[m]] # "DORMANT"
  <2>1. CASE m \in P
    <3> DEFINE h == Head(k.queue[m])
    <3>1. n.owner[m] = h /\ h \in H /\ h \in Tasks /\ Waits(k, h) /\ k.wid[h] = m
      BY <1>2, <1>5, <2>1
    <3>2. k.owner[m] # NULL
      BY <1>1, <3>1, Priorities DEF Waiting
    <3>3. Inherits(k, R, n, h)
      BY <1>4, <3>1
    <3> QED BY <1>1, <3>1, <3>2, <3>3 DEF Owned, Inherits
  <2>2. CASE m \notin P
    <3> DEFINE o == k.owner[m]
    <3>1. n.owner[m] = o /\ o \in Tasks
      BY <1>2, <1>3, <1>17, <2>2
    <3>2. Created.exists[m] /\ k.state[o] # "DORMANT"
      BY <1>1, <3>1, Priorities DEF Owned
    <3>3. n.state[o] # "DORMANT"
      BY <1>4, <3>1, <3>2 DEF Inherits, Unchanged
    <3> QED BY <3>1, <3>2, <3>3
  <2> QED BY <2>1, <2>2
<1>18. Owned(Created, n, {})
  BY <1>16, <1>17 DEF Owned
<1>19. Refused(Created, n)
  <2>1. ASSUME NEW t \in Tasks, NEW m \in Mutexes, Created.attr[m] = "CEILING",
               m \in n.list[t] \/ n.wid[t] = m
        PROVE  n.bpri[t] >= Created.ceil[m]
    <3>1. m \in k.list[t] \/ k.wid[t] = m
      <4>1. CASE t \in H
        BY <1>4, <2>1, <4>1, Priorities DEF Inherits
      <4>2. CASE t \notin H
        BY <1>4, <2>1, <4>2 DEF Unchanged
      <4> QED BY <4>1, <4>2
    <3> QED BY <1>1, <1>2, <2>1, <3>1 DEF Refused
  <2> QED BY <2>1 DEF Refused
<1>20. AllLifted(Created, n)
  <2>1. ASSUME NEW t \in Tasks, NEW m \in n.list[t], Created.attr[m] = "CEILING"
        PROVE  n.pri[t] <= Created.ceil[m]
    <3>1. \A x \in k.list[t] : attr[x] = "CEILING" => k.pri[t] <= ceilpri[x]
      BY <1>1, <1>3 DEF AllLifted, Lifted, Lifts
    <3>2. m \in Mutexes /\ ceilpri[m] \in Nat /\ k.pri[t] \in Nat
      BY <1>3, <1>7, <2>1, Priorities
    <3>3. CASE t \notin H
      BY <1>3, <1>4, <2>1, <3>1, <3>3 DEF Unchanged
    <3>4. CASE t \in H
      <4> DEFINE x == k.wid[t]
      <4>1. /\ x \in Mutexes /\ n.list[t] = k.list[t] \cup {x}
            /\ n.pri[t] = IF attr[x] = "CEILING" /\ ceilpri[x] < k.pri[t] THEN ceilpri[x]
                          ELSE k.pri[t]
        BY <1>4, <3>4 DEF Inherits
      <4>2. ceilpri[x] \in Nat
        BY <1>3, <4>1, Priorities
      <4>3. n.pri[t] <= k.pri[t]
        BY <3>2, <4>1, <4>2
      <4>4. CASE m = x
        BY <1>3, <2>1, <3>2, <4>1, <4>2, <4>4
      <4>5. CASE m \in k.list[t]
        <5>1. k.pri[t] <= ceilpri[m] /\ n.pri[t] \in Nat
          BY <1>3, <1>7, <2>1, <3>1, <4>5, Priorities
        <5> QED BY <1>3, <3>2, <4>3, <5>1
      <4> QED BY <2>1, <4>1, <4>4, <4>5
    <3> QED BY <3>3, <3>4
  <2> QED BY <2>1 DEF AllLifted, Lifted, Lifts
<1> QED BY <1>15, <1>18, <1>19, <1>20 DEF Steady, n

(* it lets go of nobody else, *)
LEMMA HandOverLeaves ==
    ASSUME Created \in CreatedType, NEW k, NEW B, Orderly(Created, k, B),
           NEW R \in SUBSET Mutexes
    PROVE  LET n == HandOver(k, R)
           IN  /\ \A m \in Mutexes :
                    /\ In(n, m) \subseteq In(k, m)
                    /\ m \notin R => /\ n.queue[m] = k.queue[m] /\ In(n, m) = In(k, m)
                                     /\ n.owner[m] = k.owner[m]
                    /\ m \in R => n.owner[m] = IF k.queue[m] = <<>> THEN NULL
                                               ELSE Head(k.queue[m])
               /\ \A u \in Tasks : u \notin HeirsOf(k, R) => Unchanged(k, n, u)
               /\ n.bpri = k.bpri
<1> DEFINE n == HandOver(k, R)
<1>1. k \in KernelType /\ Queued(k)
  BY DEF Orderly
<1>2. /\ n.queue = [m \in Mutexes |-> IF m \in Passed(k, R) THEN Tail(k.queue[m])
                                      ELSE k.queue[m]]
      /\ n.owner = [m \in Mutexes |-> IF m \in Passed(k, R) THEN Head(k.queue[m])
                                      ELSE IF m \in R THEN NULL ELSE k.owner[m]]
      /\ n.bpri = k.bpri
  BY <1>1, HandOverIs
<1>3. \A u \in Tasks : u \notin HeirsOf(k, R) => Unchanged(k, n, u)
  BY HandedTo
<1> HIDE DEF n
<1>4. ASSUME NEW m \in Mutexes
      PROVE  /\ In(n, m) \subseteq In(k, m)
             /\ m \notin R => n.queue[m] = k.queue[m] /\ In(n, m) = In(k, m)
                              /\ n.owner[m] = k.owner[m]
             /\ m \in R => n.owner[m] = IF k.queue[m] = <<>> THEN NULL
                                        ELSE Head(k.queue[m])
  <2>1. CASE m \in Passed(k, R)
    <3>1. Linked(Tasks, Tail(k.queue[m]), In(k, m) \ {Head(k.queue[m])})
      BY <2>1, HeirIs
    <3>2. In(n, m) \subseteq In(k, m)
      BY <1>2, <2>1, <3>1 DEF Linked, In
    <3> QED BY <1>2, <2>1, <3>2 DEF Passed
  <2>2. CASE m \notin Passed(k, R)
    BY <1>2, <2>2 DEF Passed, In
  <2> QED BY <2>1, <2>2
<1> QED BY <1>2, <1>3, <1>4 DEF n

(* and every priority is right after it that was right before. *)
LEMMA HandOverQuiet ==
    ASSUME Created \in CreatedType, NEW k, NEW B \in SUBSET Tasks, NEW R \in SUBSET Mutexes,
           Steady(Created, k, B, R), \A b \in B : k.wid[b] \notin R,
           Acyclic(Forward(k))
    PROVE  /\ Acyclic(Forward(HandOver(k, R)))
           /\ \A v \in Tasks : Exact(Created, k, v) => Exact(Created, HandOver(k, R), v)
<1> DEFINE n == HandOver(k, R)
           H == HeirsOf(k, R)
<1>1. /\ Orderly(Created, k, B) /\ k \in KernelType /\ Waiting(k, B) /\ Queued(k)
      /\ Owned(Created, k, R) /\ Acyclic(Forward(k))
  BY DEF Steady, Orderly
<1>2. /\ \A m \in Mutexes : In(n, m) \subseteq In(k, m)
      /\ \A m \in Mutexes : m \notin R => In(n, m) = In(k, m) /\ n.owner[m] = k.owner[m]
      /\ \A m \in R : n.owner[m] = IF k.queue[m] = <<>> THEN NULL ELSE Head(k.queue[m])
      /\ n.bpri = k.bpri
  BY <1>1, HandOverLeaves
<1>3. ASSUME NEW u \in Tasks
      PROVE  IF u \in H THEN Inherits(k, R, n, u) ELSE Unchanged(k, n, u)
  BY <1>1, HandedTo
<1>4. Steady(Created, n, B, {})
  BY HandOverSteady
<1>5. H \subseteq Tasks
  <2>1. ASSUME NEW m \in Passed(k, R) PROVE Head(k.queue[m]) \in Tasks
    BY <1>1, HeirIs
  <2> QED BY <2>1 DEF HeirsOf
<1>6. n \in KernelType /\ Waiting(n, B) /\ Queued(n)
  BY <1>4 DEF Steady, Orderly
<1>7. \A u \in Tasks : /\ n.pri[u] \in Nat /\ k.pri[u] \in Nat
                       /\ n.list[u] \subseteq Mutexes /\ k.list[u] \subseteq Mutexes
  BY <1>1, <1>6, Fields, Priorities
<1>8. \A m \in Mutexes : k.queue[m] # <<>> /\ m \in R => Head(k.queue[m]) \in H
  BY DEF HeirsOf, Passed
<1> HIDE DEF n, H
<1>9. Acyclic(Forward(n))
  <2>1. ASSUME NEW u \in Tasks PROVE Forward(n)[u] \in {Forward(k)[u], NULL} \cup H
    <3>1. CASE u \in H
      BY <1>3, <3>1, ForwardIs DEF Inherits
    <3>2. CASE u \notin H
      <4>1. n.state[u] = k.state[u] /\ n.wid[u] = k.wid[u]
        BY <1>3, <3>2 DEF Unchanged
      <4>2. Waits(n, u) = Waits(k, u)
        BY <4>1 DEF Waits
      <4>3. Waits(k, u) => k.wid[u] \in Mutexes
        BY <1>1 DEF Waiting
      <4>4. Waits(k, u) => n.owner[k.wid[u]] \in {k.owner[k.wid[u]], NULL} \cup H
        BY <1>2, <1>8, <4>3
      <4> QED BY <4>1, <4>2, <4>4, ForwardIs
    <3> QED BY <3>1, <3>2
  <2>2. ASSUME NEW h \in H PROVE Forward(n)[h] = NULL
    BY <1>3, <1>5, ForwardIs DEF Inherits
  <2> QED BY <1>1, <2>1, <2>2, FewerEdges
<1>10. ASSUME NEW v \in Tasks, Exact(Created, k, v) PROVE Exact(Created, n, v)
  <2>1. Exact(Created, k, v)
    BY <1>10
  <2>2. ASSUME NEW m \in k.list[v] PROVE m \in Mutexes /\ m \notin R /\ In(n, m) = In(k, m)
    BY <1>1, <1>2, <1>7 DEF Owned
  <2>3. ASSUME NEW m \in Mutexes, NEW u \in In(n, m)
        PROVE  u \in Tasks /\ n.pri[u] = k.pri[u] /\ u \in In(k, m)
    <3>1. Waits(n, u) /\ u \in Tasks
      BY <1>6, <2>3, QueueLinked DEF Queued
    <3>2. u \notin H
      BY <1>3, <3>1 DEF Inherits
    <3> QED BY <1>2, <1>3, <2>3, <3>1, <3>2 DEF Unchanged
  <2>4. ASSUME NEW u \in Followers(Created, k, v) PROVE n.pri[u] = k.pri[u]
    BY <2>2, <2>3 DEF Followers
  <2>5. CASE v \notin H
    <3>1. n.list[v] = k.list[v] /\ n.pri[v] = k.pri[v]
      BY <1>3, <2>5 DEF Unchanged
    <3> QED BY <1>2, <2>1, <2>2, <2>4, <3>1, ClaimsKept
  <2>6. CASE v \in H
    <3> DEFINE m == k.wid[v]
               x == n.pri[v]
    <3>1. /\ m \in Mutexes /\ m \in R /\ Head(k.queue[m]) = v
          /\ n.list[v] = k.list[v] \cup {m}
          /\ x = IF attr[m] = "CEILING" /\ ceilpri[m] < k.pri[v] THEN ceilpri[m]
                 ELSE k.pri[v]
          /\ k.queue[m] # <<>>
      BY <1>3, <2>6 DEF Inherits, Passed
    <3>2. /\ Created.attr = attr /\ Created.ceil = ceilpri /\ ceilpri[m] \in Nat
      BY <3>1, Priorities DEF CreatedType, Created
    <3>3. Claims(Created, k, v) \subseteq Claims(Created, n, v)
      <4>1. OwnClaims(Created, k, v) \subseteq OwnClaims(Created, n, v)
        BY <1>2, <3>1 DEF OwnClaims
      <4>2. ASSUME NEW u \in Followers(Created, k, v)
            PROVE  u \in Followers(Created, n, v)
        BY <2>2, <3>1 DEF Followers
      <4>3. ASSUME NEW u \in Followers(Created, k, v)
            PROVE  k.pri[u] \in {n.pri[w] : w \in Followers(Created, n, v)}
        BY <2>4, <4>2
      <4> QED BY <4>1, <4>3 DEF Claims
    <3>4. x \in Claims(Created, n, v)
      <4>1. k.pri[v] \in Claims(Created, n, v)
        BY <2>1, <3>3 DEF Exact, Least
      <4>2. attr[m] = "CEILING" => ceilpri[m] \in Claims(Created, n, v)
        BY <3>1, <3>2 DEF Claims, OwnClaims
      <4> QED BY <3>1, <4>1, <4>2
    <3>5. \A q \in Claims(Created, k, v) : x <= q
      <4>1. x <= k.pri[v] /\ x \in Nat /\ k.pri[v] \in Nat
        BY <1>7, <3>1, <3>2
      <4>2. \A q \in Claims(Created, k, v) : k.pri[v] <= q /\ q \in Nat
        BY <1>1, <2>1, ClaimsTyped, Priorities DEF Exact, Least
      <4> HIDE DEF x
      <4> QED BY <4>1, <4>2
    <3>6. ASSUME NEW q \in Claims(Created, n, v) PROVE x <= q
      <4>1. CASE q \in OwnClaims(Created, n, v)
        <5>1. \/ q \in OwnClaims(Created, k, v)
              \/ attr[m] = "CEILING" /\ q = ceilpri[m]
          BY <1>2, <3>1, <3>2, <4>1 DEF OwnClaims
        <5>2. CASE q \in OwnClaims(Created, k, v)
          BY <3>5, <5>2 DEF Claims
        <5>3. CASE attr[m] = "CEILING" /\ q = ceilpri[m]
          BY <1>7, <3>1, <3>2, <5>3
        <5> QED BY <5>1, <5>2, <5>3
      <4>2. CASE q \notin OwnClaims(Created, n, v)
        <5>1. PICK u \in Followers(Created, n, v) : q = n.pri[u]
          BY <4>2 DEF Claims
        <5>2. PICK y \in n.list[v] : attr[y] = "INHERIT" /\ u \in In(n, y)
          BY <3>2, <5>1 DEF Followers
        <5>3. y \in Mutexes
          BY <1>7, <5>2
        <5>4. u \in Tasks /\ q = k.pri[u] /\ u \in In(k, y)
          BY <2>3, <5>1, <5>2, <5>3
        <5>5. CASE y \in k.list[v]
          <6>1. u \in Followers(Created, k, v)
            BY <3>2, <5>2, <5>4, <5>5 DEF Followers
          <6>2. q \in Claims(Created, k, v)
            BY <5>4, <6>1 DEF Claims
          <6> QED BY <3>5, <6>2
        <5>6. CASE y = m
          <6>1. m \in Passed(k, R)
            BY <3>1 DEF Passed
          <6>2. attr[m] = "INHERIT"
            BY <5>2, <5>6
          <6>3. k.pri[v] <= k.pri[u]
            <7>1. Created.attr[m] # "TFIFO"
              BY <3>2, <6>2
            <7>2. \A w \in In(k, m) : k.pri[Head(k.queue[m])] <= k.pri[w]
              <8>1. Orderly(Created, k, B) /\ R \in SUBSET Mutexes /\ m \in Passed(k, R)
                BY <1>1, <6>1
              <8> HIDE DEF m, x
              <8> QED BY <7>1, <8>1, HeirIs
            <7> QED BY <3>1, <5>4, <5>6, <7>2
          <6>4. x = k.pri[v]
            BY <3>1, <6>2
          <6> QED BY <5>4, <6>3, <6>4
        <5> QED BY <3>1, <5>2, <5>5, <5>6
      <4> QED BY <4>1, <4>2
    <3> QED BY <3>4, <3>6 DEF Exact, Least
  <2> QED BY <2>5, <2>6
<1> QED BY <1>9, <1>10 DEF n

-----------------------------------------------------------------------------
(* The end of a wait                                                       *)

(* t is out of the queue of the mutex it waits for; and it does not wait   *)
(* any more, unless it is in B.                                            *)
Parted(k, t, B, n) ==
    /\ IsRecord(n) /\ n.bpri = k.bpri /\ n.pri = k.pri /\ n.list = k.list
    /\ n.owner = k.owner
    /\ n.queue = [k.queue EXCEPT ![k.wid[t]] = RemoveFirst(@, t)]
    /\ \/ B = {t} /\ n.state = k.state /\ n.wid = k.wid
       \/ B = {} /\ n.state = NoLonger(k, {t}) /\ n.wid = ForNothing(k, {t})

LEMMA CancelParts ==
    ASSUME NEW k \in KernelType, NEW t
    PROVE  Parted(k, t, {t}, wait_cancel(k, t)) /\ Parted(k, t, {}, wait_release(k, t))
<1> DEFINE n == wait_cancel(k, t)
           queue == [k.queue EXCEPT ![k.wid[t]] = RemoveFirst(@, t)]
<1> HIDE DEF n
<1>1. n = [k EXCEPT !.queue = queue]
  BY DEF n, wait_cancel
<1> HIDE DEF queue
<1>2. IsRecord(k)
  BY Fields DEF IsRecord
<1>3. /\ IsRecord(n) /\ n.bpri = k.bpri /\ n.pri = k.pri /\ n.list = k.list
      /\ n.owner = k.owner /\ n.queue = queue /\ n.state = k.state /\ n.wid = k.wid
  BY <1>1, <1>2 DEF IsRecord
<1> DEFINE r == NonWait(n, {t})
<1>4. /\ IsRecord(r) /\ r.state = NoLonger(n, {t}) /\ r.wid = ForNothing(n, {t})
      /\ r.bpri = n.bpri /\ r.queue = n.queue /\ r.owner = n.owner
      /\ r.list = n.list /\ r.pri = n.pri
  BY <1>3, NonWaitIs
<1>5. wait_release(k, t) = r
  BY DEF wait_release, n
<1> HIDE DEF r
<1>6. NoLonger(n, {t}) = NoLonger(k, {t}) /\ ForNothing(n, {t}) = ForNothing(k, {t})
  BY <1>3 DEF NoLonger, ForNothing
<1> QED BY <1>3, <1>4, <1>5, <1>6 DEF Parted, n, queue

(* Who the task t waits for, and what that task need not have any more     *)
LEMMA PartedIs ==
    ASSUME Created \in CreatedType, NEW k, Steady(Created, k, {}, {}),
           NEW t \in Tasks, Waits(k, t), NEW B, NEW n, Parted(k, t, B, n)
    PROVE  /\ Steady(Created, n, B, {}) /\ B \subseteq Tasks
           /\ \A u \in Tasks \ {t} : n.state[u] = k.state[u] /\ n.wid[u] = k.wid[u]
           /\ \A m \in Mutexes :
                /\ In(n, m) = In(k, m) \ {t}
                /\ m # k.wid[t] => n.queue[m] = k.queue[m]
           /\ t \notin B => n.wid[t] = NULL /\ n.state[t] \in {"READY", "SUSPEND"}
           /\ t \in B => Waits(n, t) /\ n.wid[t] = k.wid[t]
<1> DEFINE w == k.wid[t]
<1>1. /\ k \in KernelType /\ Waiting(k, {}) /\ Queued(k) /\ Sorted(Created, k)
      /\ Owned(Created, k, {}) /\ Refused(Created, k) /\ AllLifted(Created, k)
  BY DEF Steady, Orderly
<1>2. /\ k.state \in [Tasks -> States] /\ k.bpri \in [Tasks -> Pri]
      /\ k.pri \in [Tasks -> Pri] /\ k.wid \in [Tasks -> Mutexes \cup {NULL}]
      /\ k.list \in [Tasks -> SUBSET Mutexes]
      /\ k.owner \in [Mutexes -> Tasks \cup {NULL}]
      /\ k.queue \in [Mutexes -> Seq(Tasks)]
      /\ Created.attr = attr /\ Created.ceil = ceilpri
  BY <1>1, Fields DEF Created
<1>3. /\ IsRecord(n) /\ n.bpri = k.bpri /\ n.pri = k.pri /\ n.list = k.list
      /\ n.owner = k.owner
      /\ n.queue = [k.queue EXCEPT ![w] = RemoveFirst(k.queue[w], t)]
      /\ \/ B = {t} /\ n.state = k.state /\ n.wid = k.wid
         \/ B = {} /\ n.state = NoLonger(k, {t}) /\ n.wid = ForNothing(k, {t})
  BY DEF Parted
<1>4. w \in Mutexes /\ k.owner[w] \in Tasks \ {t} /\ t \in In(k, w)
  BY <1>1 DEF Waiting
<1>5. ASSUME NEW m \in Mutexes
      PROVE  /\ n.queue[m] \in Seq(Tasks) /\ IsInjective(n.queue[m])
             /\ In(n, m) = In(k, m) \ {t}
             /\ m # w => n.queue[m] = k.queue[m]
             /\ attr[m] # "TFIFO" => SortedBy(n.queue[m], n.pri)
  <2>1. CASE m = w
    <3>1. n.queue[m] = RemoveFirst(k.queue[m], t)
      BY <1>2, <1>3, <2>1
    <3>2. Linked(Tasks, k.queue[m], In(k, m))
      BY <1>1, QueueLinked
    <3>3. /\ Linked(Tasks, n.queue[m], In(k, m) \ {t})
          /\ \A f, g : SortedBy(k.queue[m], f) /\ (\A u \in In(k, m) \ {t} : g[u] = f[u])
                       => SortedBy(n.queue[m], g)
      BY <3>1, <3>2, RemoveInOrder
    <3>4. attr[m] # "TFIFO" => SortedBy(k.queue[m], k.pri)
      BY <1>1, <1>2 DEF Sorted
    <3> QED BY <1>3, <2>1, <3>3, <3>4 DEF Linked, In
  <2>2. CASE m # w
    <3>1. n.queue[m] = k.queue[m]
      BY <1>2, <1>3, <2>2
    <3>2. t \notin In(k, m)
      BY <1>1, <2>2 DEF Queued
    <3>3. In(n, m) = In(k, m) \ {t}
      BY <3>1, <3>2 DEF In
    <3>4. attr[m] # "TFIFO" => SortedBy(n.queue[m], n.pri)
      BY <1>1, <1>2, <1>3, <3>1 DEF Sorted
    <3> QED BY <1>1, <1>2, <3>1, <3>3, <3>4 DEF Queued
  <2> QED BY <2>1, <2>2
<1>6. ASSUME NEW u \in Tasks
      PROVE  /\ n.state[u] \in States /\ n.wid[u] \in Mutexes \cup {NULL}
             /\ u # t \/ u \in B => n.state[u] = k.state[u] /\ n.wid[u] = k.wid[u]
             /\ u = t /\ u \notin B => n.wid[u] = NULL /\ n.state[u] \in {"READY", "SUSPEND"}
  BY <1>2, <1>3 DEF NoLonger, ForNothing, States
<1>7. n \in KernelType
  <2>1. n.state \in [Tasks -> States] /\ n.wid \in [Tasks -> Mutexes \cup {NULL}]
    <3>1. n.state = [u \in Tasks |-> n.state[u]] /\ n.wid = [u \in Tasks |-> n.wid[u]]
      BY <1>2, <1>3 DEF NoLonger, ForNothing
    <3> QED BY <1>6, <3>1
  <2>2. n.queue \in [Mutexes -> Seq(Tasks)]
    <3>1. n.queue = [m \in Mutexes |-> n.queue[m]]
      BY <1>2, <1>3
    <3> QED BY <1>5, <3>1
  <2> QED BY <1>2, <1>3, <2>1, <2>2, RecordTyped
<1>8. \A u \in Tasks : u # t \/ u \in B => Waits(n, u) = Waits(k, u)
  BY <1>6 DEF Waits
<1>9. t \notin B => ~Waits(n, t)
  BY <1>6 DEF Waits
<1> HIDE DEF w
<1>10. Waiting(n, B)
  <2>1. ASSUME NEW u \in Tasks
        PROVE  IF Waits(n, u)
               THEN /\ n.wid[u] \in Mutexes /\ n.owner[n.wid[u]] \in Tasks \ {u}
                    /\ u \notin B => u \in In(n, n.wid[u])
               ELSE n.wid[u] = NULL
    <3>1. CASE u = t /\ u \notin B
      BY <1>6, <1>9, <3>1
    <3>2. CASE ~(u = t /\ u \notin B)
      <4>1. /\ n.wid[u] = k.wid[u] /\ Waits(n, u) = Waits(k, u)
            /\ u \notin B => u # t
        BY <1>6, <1>8, <3>2
      <4>2. IF Waits(k, u)
            THEN k.wid[u] \in Mutexes /\ k.owner[k.wid[u]] \in Tasks \ {u}
                 /\ u \in In(k, k.wid[u])
            ELSE k.wid[u] = NULL
        BY <1>1 DEF Waiting
      <4> QED BY <1>3, <1>5, <4>1, <4>2
    <3> QED BY <3>1, <3>2
  <2> QED BY <2>1 DEF Waiting
<1>11. Queued(n)
  <2>1. ASSUME NEW m \in Mutexes, NEW u \in In(n, m) PROVE Waits(n, u) /\ n.wid[u] = m
    <3>1. u \in In(k, m) /\ u # t
      BY <1>5, <2>1
    <3>2. Waits(k, u) /\ k.wid[u] = m /\ u \in Tasks
      BY <1>1, <3>1, QueueLinked DEF Queued
    <3> QED BY <1>6, <1>8, <3>1, <3>2
  <2> QED BY <1>5, <2>1 DEF Queued
<1>12. Sorted(Created, n)
  BY <1>2, <1>5 DEF Sorted
<1>13. Owned(Created, n, {})
  <2>1. \A u \in Tasks : k.state[u] # "DORMANT" => n.state[u] # "DORMANT"
    BY <1>6
  <2> QED BY <1>1, <1>2, <1>3, <2>1 DEF Owned
<1>14. Refused(Created, n)
  <2>1. ASSUME NEW u \in Tasks, NEW m \in Mutexes, n.wid[u] = m PROVE k.wid[u] = m
    BY <1>6, <2>1, Priorities
  <2> QED BY <1>1, <1>3, <2>1 DEF Refused
<1>15. AllLifted(Created, n)
  BY <1>1, <1>3 DEF AllLifted, Lifted, Lifts
<1>16. B \subseteq Tasks /\ Steady(Created, n, B, {})
  BY <1>3, <1>7, <1>10, <1>11, <1>12, <1>13, <1>14, <1>15 DEF Steady, Orderly
<1>17. t \in B => Waits(n, t)
  BY <1>8
<1> QED BY <1>5, <1>6, <1>16, <1>17 DEF w

(* Only the owner may now have a priority that nothing lends to it, and    *)
(* only when it has just that of t.                                        *)
LEMMA PartedCalm ==
    ASSUME Created \in CreatedType, NEW k, Steady(Created, k, {}, {}),
           NEW t \in Tasks, Waits(k, t), NEW B, NEW n, Parted(k, t, B, n),
           Quiet(Created, k)
    PROVE  LET o == k.owner[k.wid[t]]
           IN  /\ Calm(n, o, B, Forward(n)) /\ Acyclic(Forward(n))
               /\ attr[k.wid[t]] # "INHERIT" \/ k.pri[o] # k.pri[t] => AllExact(Created, n)
<1> DEFINE w == k.wid[t]
           o == k.owner[w]
<1>1. /\ k \in KernelType /\ Waiting(k, {}) /\ Queued(k) /\ Owned(Created, k, {})
      /\ Acyclic(Forward(k)) /\ AllExact(Created, k)
  BY DEF Steady, Orderly, Quiet
<1>2. w \in Mutexes /\ o \in Tasks \ {t} /\ t \in In(k, w)
  BY <1>1 DEF Waiting
<1>3. /\ Steady(Created, n, B, {}) /\ B \subseteq Tasks
      /\ \A u \in Tasks \ {t} : n.state[u] = k.state[u] /\ n.wid[u] = k.wid[u]
      /\ \A m \in Mutexes : In(n, m) = In(k, m) \ {t}
      /\ t \notin B => n.wid[t] = NULL /\ n.state[t] \in {"READY", "SUSPEND"}
      /\ t \in B => Waits(n, t) /\ n.wid[t] = w
  BY PartedIs
<1>4. /\ n.bpri = k.bpri /\ n.pri = k.pri /\ n.list = k.list /\ n.owner = k.owner
      /\ B \subseteq {t}
  BY DEF Parted
<1>5. Orderly(Created, n, B) /\ n \in KernelType /\ Owned(Created, n, {})
  BY <1>3 DEF Steady, Orderly
<1> HIDE DEF w, o
<1>6. Acyclic(Forward(n))
  <2>1. ASSUME NEW u \in Tasks PROVE Forward(n)[u] \in {Forward(k)[u], NULL} \cup {}
    <3>1. CASE u # t
      BY <1>3, <1>4, <3>1, ForwardIs DEF Waits
    <3>2. CASE u = t /\ t \notin B
      <4>1. ~Waits(n, t)
        BY <1>3, <3>2 DEF Waits
      <4> QED BY <3>2, <4>1, ForwardIs
    <3>3. CASE u = t /\ t \in B
      BY <1>3, <1>4, <3>3, ForwardIs DEF w
    <3> QED BY <3>1, <3>2, <3>3
  <2>2. \A h \in {} : Forward(n)[h] = NULL
    OBVIOUS
  <2> QED BY <1>1, <2>1, <2>2, FewerEdges
<1>7. ASSUME NEW m \in Mutexes, m # w PROVE In(n, m) = In(k, m)
  <2>1. t \notin In(k, m)
    BY <1>1, <1>7 DEF Queued, w
  <2> QED BY <1>3, <2>1
<1>8. \A u \in Tasks : k.list[u] \subseteq Mutexes
  BY <1>1, Fields
<1>9. ASSUME NEW u \in Tasks \ {o} PROVE Exact(Created, n, u)
  <2>1. Exact(Created, k, u) /\ n.bpri[u] = k.bpri[u] /\ n.list[u] = k.list[u]
        /\ n.pri[u] = k.pri[u]
    BY <1>1, <1>4 DEF AllExact
  <2>2. \A m \in k.list[u] : m \in Mutexes /\ k.owner[m] = u
    BY <1>1, <1>8 DEF Owned
  <2>3. \A m \in k.list[u] : In(n, m) = In(k, m)
    BY <1>7, <2>2 DEF o
  <2>4. \A v \in Followers(Created, k, u) : n.pri[v] = k.pri[v]
    BY <1>4
  <2> QED BY <2>1, <2>3, <2>4, ClaimsKept
<1>10. ASSUME NEW b \in B PROVE Forward(n)[b] \in B \cup {o}
  BY <1>2, <1>3, <1>4, ForwardIs DEF o
<1>11. B \in SUBSET Tasks /\ o \in Tasks /\ \A m \in {} : n.owner[m] \in {NULL, o}
  BY <1>2, <1>3
<1>12. Calm(n, o, B, Forward(n))
  BY <1>5, <1>6, <1>9, <1>10, <1>11, CalmStart
<1>13. ASSUME attr[w] # "INHERIT" \/ k.pri[o] # k.pri[t] PROVE Exact(Created, n, o)
  <2>1. Exact(Created, k, o) /\ n.bpri[o] = k.bpri[o] /\ n.list[o] = k.list[o]
        /\ n.pri[o] = k.pri[o] /\ Created.attr = attr
    BY <1>1, <1>2, <1>4 DEF AllExact, Created
  <2>2. OwnClaims(Created, n, o) = OwnClaims(Created, k, o)
    BY <2>1 DEF OwnClaims
  <2>3. Followers(Created, n, o) = Followers(Created, k, o) \ {t}
    BY <1>3, <1>8, <2>1, <1>2 DEF Followers
  <2>4. Claims(Created, n, o) \subseteq Claims(Created, k, o)
    BY <1>4, <2>2, <2>3 DEF Claims
  <2>5. n.pri[o] \in Claims(Created, n, o)
    <3>1. k.pri[o] \in Claims(Created, k, o)
      BY <2>1 DEF Exact, Least
    <3>2. CASE k.pri[o] \in OwnClaims(Created, k, o)
      BY <2>1, <2>2, <3>2 DEF Claims
    <3>3. CASE k.pri[o] \notin OwnClaims(Created, k, o)
      <4>1. PICK u \in Followers(Created, k, o) : k.pri[o] = k.pri[u]
        BY <3>1, <3>3 DEF Claims
      <4>2. u # t
        <5>1. SUFFICES ASSUME u = t PROVE FALSE
          OBVIOUS
        <5>2. PICK m \in k.list[o] : attr[m] = "INHERIT" /\ t \in In(k, m)
          BY <2>1, <4>1, <5>1 DEF Followers
        <5>3. m = w
          BY <1>1, <1>2, <1>8, <5>2 DEF Queued, w
        <5> QED BY <1>13, <4>1, <5>1, <5>2, <5>3
      <4>3. u \in Followers(Created, n, o)
        BY <2>3, <4>1, <4>2
      <4> QED BY <1>4, <4>1, <4>3 DEF Claims
    <3> QED BY <3>2, <3>3
  <2> QED BY <2>1, <2>4, <2>5 DEF Exact, Least
<1>14. attr[w] # "INHERIT" \/ k.pri[o] # k.pri[t] => AllExact(Created, n)
  BY <1>9, <1>13 DEF AllExact
<1> QED BY <1>6, <1>12, <1>14 DEF o, w

(* mtx_rel_wai puts that right. *)
LEMMA RelWaiIs ==
    ASSUME Created \in CreatedType, NEW k, Steady(Created, k, {}, {}),
           NEW t \in Tasks, Waits(k, t), NEW B, NEW n, Parted(k, t, B, n)
    PROVE  LET r == mtx_rel_wai(n, t, k.wid[t])
           IN  /\ Steady(Created, r, B, {}) /\ Same(n, r)
               /\ Quiet(Created, k) =>
                    /\ Quiet(Created, r)
                    /\ \A m \in Mutexes :
                        /\ In(r, m) = In(n, m)
                        /\ n.owner[m] \in B =>
                            /\ r.queue[m] = n.queue[m]
                            /\ \A u \in In(n, m) : r.pri[u] = n.pri[u]
<1> DEFINE w == k.wid[t]
           o == k.owner[w]
           r == mtx_rel_wai(n, t, w)
<1>1. w \in Mutexes /\ o \in Tasks
  BY DEF Steady, Orderly, Waiting
<1>2. Steady(Created, n, B, {})
  BY PartedIs
<1>3. n.owner = k.owner /\ n.pri = k.pri
  BY DEF Parted
<1>4. r = IF attr[w] = "INHERIT" /\ k.pri[o] = k.pri[t] THEN reset_priority(n, o) ELSE n
  BY <1>3 DEF mtx_rel_wai
<1>5. Quiet(Created, k) =>
        /\ Calm(n, o, B, Forward(n)) /\ Acyclic(Forward(n))
        /\ attr[w] # "INHERIT" \/ k.pri[o] # k.pri[t] => AllExact(Created, n)
  BY PartedCalm
<1> HIDE DEF w, o, r
<1>6. CASE ~(attr[w] = "INHERIT" /\ k.pri[o] = k.pri[t])
  <2>1. r = n
    BY <1>4, <1>6
  <2>2. Quiet(Created, k) => Quiet(Created, n)
    BY <1>5, <1>6 DEF Quiet
  <2> QED BY <1>2, <2>1, <2>2, SameRefl DEF r, w
<1>7. CASE attr[w] = "INHERIT" /\ k.pri[o] = k.pri[t]
  <2>1. r = reset_priority(n, o)
    BY <1>4, <1>7
  <2>2. /\ Orderly(Created, n, B) /\ Owned(Created, n, {}) /\ Refused(Created, n)
        /\ AllLifted(Created, n)
    BY <1>2 DEF Steady
  <2>3. Kept(n, B, r) /\ AllLifted(Created, r)
    BY <1>1, <2>1, <2>2, ResetIs DEF AllLifted
  <2>4. Steady(Created, r, B, {}) /\ Forward(r) = Forward(n) /\ Same(n, r)
    BY <2>2, <2>3, SameSteady DEF Kept
  <2>5. ASSUME Quiet(Created, k)
        PROVE  /\ Quiet(Created, r)
               /\ \A m \in Mutexes :
                   /\ In(r, m) = In(n, m)
                   /\ n.owner[m] \in B =>
                       /\ r.queue[m] = n.queue[m]
                       /\ \A u \in In(n, m) : r.pri[u] = n.pri[u]
    <3>1. Calm(n, o, B, Forward(n)) /\ Acyclic(Forward(n))
      BY <1>5, <2>5
    <3>2. AllExact(Created, r)
      BY <2>1, <3>1, ResetCalms
    <3>3. PICK V : Calmed(n, o, Due(n, o), B, Forward(n), r, V)
      BY <2>1, <3>1, ResetCalms
    <3>4. Quiet(Created, r)
      BY <2>4, <3>1, <3>2 DEF Quiet
    <3>5. \A m \in Mutexes : In(r, m) = In(n, m)
      BY <3>3 DEF Calmed, Touched
    <3>6. ASSUME NEW m \in Mutexes, n.owner[m] \in B
          PROVE  r.queue[m] = n.queue[m] /\ \A u \in In(n, m) : r.pri[u] = n.pri[u]
      BY <3>1, <3>3, <3>6, Untouched
    <3> QED BY <3>4, <3>5, <3>6
  <2> QED BY <2>4, <2>5 DEF r, w
<1> QED BY <1>6, <1>7

-----------------------------------------------------------------------------
(* The termination of a task                                               *)

Buried(k, t, n) ==
    /\ IsRecord(n)
    /\ n.state = [k.state EXCEPT ![t] = "DORMANT"] /\ n.wid = [k.wid EXCEPT ![t] = NULL]
    /\ n.bpri = [k.bpri EXCEPT ![t] = 0] /\ n.pri = [k.pri EXCEPT ![t] = 0]
    /\ n.list = [k.list EXCEPT ![t] = {}]
    /\ n.owner = k.owner /\ n.queue = k.queue

LEMMA DormantIs ==
    ASSUME NEW k, IsRecord(k), NEW t
    PROVE  Buried(k, t, make_dormant(k, t))
<1> DEFINE n == make_dormant(k, t)
<1> HIDE DEF n
<1>1. n = [k EXCEPT !.state[t] = "DORMANT", !.bpri[t] = 0, !.pri[t] = 0,
                    !.wid[t] = NULL, !.list[t] = {}]
  BY DEF n, make_dormant
<1> QED BY <1>1 DEF IsRecord, Buried, n

(* A task that has no mutex can go, *)
LEMMA BuriedIs ==
    ASSUME Created \in CreatedType, NEW k, NEW t \in Tasks, NEW B \in SUBSET {t},
           Steady(Created, k, B, {}), k.list[t] = {}, NEW n, Buried(k, t, n)
    PROVE  /\ Lasting(Created, n)
           /\ /\ \A m \in Mutexes : t \notin In(k, m)
              /\ Acyclic(Forward(k)) /\ \A u \in Tasks \ {t} : Exact(Created, k, u)
              => Peaceful(Created, n)
<1>1. /\ k \in KernelType /\ Waiting(k, B) /\ Queued(k) /\ Sorted(Created, k)
      /\ Owned(Created, k, {}) /\ Refused(Created, k) /\ AllLifted(Created, k)
  BY DEF Steady, Orderly
<1>2. /\ k.state \in [Tasks -> States] /\ k.bpri \in [Tasks -> Pri]
      /\ k.pri \in [Tasks -> Pri] /\ k.wid \in [Tasks -> Mutexes \cup {NULL}]
      /\ k.list \in [Tasks -> SUBSET Mutexes]
      /\ k.owner \in [Mutexes -> Tasks \cup {NULL}]
      /\ k.queue \in [Mutexes -> Seq(Tasks)]
      /\ \A m \in Mutexes : Created.ceil[m] \in Nat
  BY <1>1, Fields, Priorities DEF CreatedType
<1>3. /\ n.state = [k.state EXCEPT ![t] = "DORMANT"] /\ n.wid = [k.wid EXCEPT ![t] = NULL]
      /\ n.bpri = [k.bpri EXCEPT ![t] = 0] /\ n.pri = [k.pri EXCEPT ![t] = 0]
      /\ n.list = [k.list EXCEPT ![t] = {}]
      /\ n.owner = k.owner /\ n.queue = k.queue /\ IsRecord(n)
  BY DEF Buried
<1>4. n \in KernelType
  <2>1. /\ n.state \in [Tasks -> States] /\ n.bpri \in [Tasks -> Pri]
        /\ n.pri \in [Tasks -> Pri] /\ n.wid \in [Tasks -> Mutexes \cup {NULL}]
        /\ n.list \in [Tasks -> SUBSET Mutexes]
    BY <1>2, <1>3, Priorities DEF States
  <2> QED BY <1>2, <1>3, <2>1, RecordTyped
<1>5. /\ n.state[t] = "DORMANT" /\ n.wid[t] = NULL /\ n.bpri[t] = 0 /\ n.pri[t] = 0
      /\ n.list[t] = {} /\ ~Waits(n, t)
  BY <1>2, <1>3 DEF Waits
<1>6. ASSUME NEW u \in Tasks \ {t}
      PROVE  /\ n.state[u] = k.state[u] /\ n.wid[u] = k.wid[u] /\ n.bpri[u] = k.bpri[u]
             /\ n.pri[u] = k.pri[u] /\ n.list[u] = k.list[u] /\ Waits(n, u) = Waits(k, u)
  BY <1>2, <1>3 DEF Waits
<1>7. \A m \in Mutexes : k.owner[m] # t /\ In(n, m) = In(k, m)
  BY <1>1, <1>3 DEF Owned, In
<1>8. Owned(Created, n, {})
  <2>1. ASSUME NEW m \in Mutexes, NEW u \in Tasks PROVE m \in n.list[u] <=> n.owner[m] = u
    <3>1. CASE u = t
      BY <1>3, <1>5, <1>7, <3>1
    <3>2. CASE u # t
      BY <1>1, <1>3, <1>6, <3>2 DEF Owned
    <3> QED BY <3>1, <3>2
  <2>2. ASSUME NEW m \in Mutexes, n.owner[m] # NULL
        PROVE  Created.exists[m] /\ n.state[n.owner[m]] # "DORMANT"
    <3>1. n.owner[m] = k.owner[m] /\ k.owner[m] \in Tasks \ {t}
      BY <1>2, <1>3, <1>7, <2>2
    <3> QED BY <1>1, <1>6, <2>2, <3>1 DEF Owned
  <2> QED BY <2>1, <2>2 DEF Owned
<1>9. Waiting(n, {})
  <2>1. ASSUME NEW u \in Tasks
        PROVE  IF Waits(n, u)
               THEN /\ n.wid[u] \in Mutexes /\ n.owner[n.wid[u]] \in Tasks \ {u}
                    /\ u \in In(n, n.wid[u])
               ELSE n.wid[u] = NULL
    <3>1. CASE u = t
      BY <1>5, <3>1
    <3>2. CASE u # t
      <4>1. u \notin B /\ n.wid[u] = k.wid[u] /\ Waits(n, u) = Waits(k, u)
        BY <1>6, <3>2
      <4>2. IF Waits(k, u)
            THEN k.wid[u] \in Mutexes /\ k.owner[k.wid[u]] \in Tasks \ {u}
                 /\ u \in In(k, k.wid[u])
            ELSE k.wid[u] = NULL
        BY <1>1, <4>1 DEF Waiting
      <4> QED BY <1>3, <1>7, <4>1, <4>2
    <3> QED BY <3>1, <3>2
  <2> QED BY <2>1 DEF Waiting
<1>10. ASSUME NEW m \in Mutexes, n.queue[m] # <<>> PROVE n.owner[m] # NULL
  <2>1. Linked(Tasks, k.queue[m], In(k, m))
    BY <1>1, QueueLinked
  <2>2. PICK u \in Tasks : u \in In(k, m)
    <3>1. k.queue[m] # <<>>
      BY <1>3, <1>10
    <3>2. Head(k.queue[m]) \in In(k, m) /\ Head(k.queue[m]) \in Tasks
      BY <2>1, <3>1, HeadLinked
    <3> QED BY <3>2
  <2>3. Waits(k, u) /\ k.wid[u] = m
    BY <1>1, <2>2 DEF Queued
  <2> QED BY <1>1, <1>3, <2>3, Priorities DEF Waiting
<1>11. Linking(n)
  <2>1. ASSUME NEW m \in Mutexes, NEW u \in In(n, m), Waits(n, u) PROVE n.wid[u] = m
    <3>1. u \in In(k, m) /\ u \in Tasks \ {t}
      BY <1>1, <1>5, <1>7, <2>1, QueueLinked
    <3> QED BY <1>1, <1>6, <3>1 DEF Queued
  <2> QED BY <1>1, <1>3, <1>10, <2>1 DEF Linking, Queued
<1>12. InOrder(Created, n)
  <2>1. ASSUME NEW m \in Mutexes, Created.attr[m] # "TFIFO",
               NEW i \in 1 .. Len(n.queue[m]), NEW j \in 1 .. Len(n.queue[m]), i < j,
               Waits(n, n.queue[m][i]), Waits(n, n.queue[m][j])
        PROVE  n.pri[n.queue[m][i]] <= n.pri[n.queue[m][j]]
    <3> DEFINE q == k.queue[m]
    <3>1. n.queue[m] = q /\ SortedBy(q, k.pri) /\ q \in Seq(Tasks)
      BY <1>1, <1>2, <1>3, <2>1 DEF Sorted
    <3>2. q[i] \in Tasks \ {t} /\ q[j] \in Tasks \ {t}
      BY <1>5, <2>1, <3>1, PlacesOf
    <3> QED BY <1>6, <2>1, <3>1, <3>2 DEF SortedBy
  <2> QED BY <2>1 DEF InOrder
<1>13. Refused(Created, n)
  <2>1. ASSUME NEW u \in Tasks, NEW m \in Mutexes, Created.attr[m] = "CEILING",
               m \in n.list[u] \/ n.wid[u] = m
        PROVE  n.bpri[u] >= Created.ceil[m]
    <3>1. u # t
      BY <1>5, <2>1, Priorities
    <3> QED BY <1>1, <1>6, <2>1, <3>1 DEF Refused
  <2> QED BY <2>1 DEF Refused
<1>14. AllLifted(Created, n)
  <2>1. ASSUME NEW u \in Tasks, NEW m \in n.list[u], Created.attr[m] = "CEILING"
        PROVE  n.pri[u] <= Created.ceil[m]
    BY <1>1, <1>5, <1>6, <2>1 DEF AllLifted, Lifted, Lifts
  <2> QED BY <2>1 DEF AllLifted, Lifted, Lifts
<1>15. Lasting(Created, n)
  BY <1>4, <1>8, <1>9, <1>11, <1>12, <1>13, <1>14 DEF Lasting
<1>16. ASSUME \A m \in Mutexes : t \notin In(k, m), Acyclic(Forward(k)),
              \A u \in Tasks \ {t} : Exact(Created, k, u)
       PROVE  Peaceful(Created, n)
  <2>1. AllWait(n)
    <3>1. ASSUME NEW m \in Mutexes, NEW u \in In(n, m) PROVE Waits(n, u)
      <4>1. u \in In(k, m) /\ u \in Tasks \ {t}
        BY <1>1, <1>7, <1>16, <3>1, QueueLinked
      <4> QED BY <1>1, <1>6, <4>1 DEF Queued
    <3> QED BY <3>1 DEF AllWait
  <2>2. Acyclic(Forward(n))
    <3>1. ASSUME NEW u \in Tasks PROVE Forward(n)[u] \in {Forward(k)[u], NULL} \cup {}
      <4>1. CASE u = t
        BY <1>5, <4>1, ForwardIs
      <4>2. CASE u # t
        <5>1. /\ Forward(n)[u] = IF Waits(n, u) THEN n.owner[n.wid[u]] ELSE NULL
              /\ Forward(k)[u] = IF Waits(k, u) THEN k.owner[k.wid[u]] ELSE NULL
          BY ForwardIs
        <5>2. n.wid[u] = k.wid[u] /\ Waits(n, u) = Waits(k, u)
          BY <1>6, <4>2
        <5> QED BY <1>3, <5>1, <5>2
      <4> QED BY <4>1, <4>2
    <3>2. \A h \in {} : Forward(n)[h] = NULL
      OBVIOUS
    <3> QED BY <1>16, <3>1, <3>2, FewerEdges
  <2>3. Exact(Created, n, t)
    <3>1. Claims(Created, n, t) = {0}
      BY <1>5 DEF Claims, OwnClaims, Followers
    <3> QED BY <1>5, <3>1 DEF Exact, Least
  <2>4. ASSUME NEW u \in Tasks \ {t} PROVE Exact(Created, n, u)
    <3>1. \A m \in k.list[u] : m \in Mutexes /\ In(n, m) = In(k, m)
      BY <1>2, <1>7
    <3>2. \A v \in Followers(Created, k, u) : n.pri[v] = k.pri[v]
      BY <1>6, <1>16, <3>1 DEF Followers
    <3> QED BY <1>6, <1>16, <3>1, <3>2, ClaimsKept
  <2> QED BY <2>1, <2>2, <2>3, <2>4 DEF Peaceful, AllExact
<1> QED BY <1>15, <1>16

(* and its mutexes go to others when it does. *)
Passes(k, n) ==
    \A m \in Mutexes :
        /\ k.owner[m] # NULL /\ n.owner[m] \notin {NULL, k.owner[m]}
        /\ attr[m] # "TFIFO"
        => \A u \in In(k, m) : k.pri[n.owner[m]] <= k.pri[u]

LEMMA HeadPasses ==
    ASSUME NEW k, NEW B, Orderly(Created, k, B), NEW m \in Mutexes,
           k.queue[m] # <<>>, attr[m] # "TFIFO"
    PROVE  \A u \in In(k, m) : k.pri[Head(k.queue[m])] <= k.pri[u]
<1>1. k.queue[m] \in Seq(Tasks) /\ k.pri \in [Tasks -> Pri]
  BY Fields DEF Orderly
<1>2. SortedBy(k.queue[m], k.pri)
  BY DEF Orderly, Sorted, Created
<1> QED BY <1>1, <1>2, HeadFirst DEF In

Cancelled(k, t) ==
    IF Waits(k, t) THEN mtx_rel_wai(wait_cancel(k, t), t, k.wid[t]) ELSE k

LEMMA CancelledIs ==
    ASSUME Created \in CreatedType, NEW k, Steady(Created, k, {}, {}), NEW t \in Tasks
    PROVE  LET r == Cancelled(k, t)
           IN  /\ \E B \in SUBSET {t} : /\ Steady(Created, r, B, {})
                                        /\ \A b \in B : k.owner[r.wid[b]] # t
               /\ r.list = k.list /\ r.owner = k.owner
               /\ Quiet(Created, k) =>
                    /\ Quiet(Created, r)
                    /\ \A m \in Mutexes : /\ t \notin In(r, m)
                                          /\ k.owner[m] = t => r.queue[m] = k.queue[m]
<1> DEFINE r == Cancelled(k, t)
<1>1. k \in KernelType /\ Waiting(k, {}) /\ Queued(k)
  BY DEF Steady, Orderly
<1>2. CASE ~Waits(k, t)
  <2>1. r = k
    BY <1>2 DEF Cancelled
  <2>2. \A m \in Mutexes : t \notin In(k, m)
    BY <1>1, <1>2 DEF Queued
  <2>3. {} \in SUBSET {t} /\ \A b \in {} : k.owner[k.wid[b]] # t
    OBVIOUS
  <2> HIDE DEF r
  <2>4. \E B \in SUBSET {t} : Steady(Created, r, B, {}) /\ \A b \in B : k.owner[r.wid[b]] # t
    BY <2>1, <2>3
  <2> QED BY <2>1, <2>2, <2>4 DEF r
<1>3. CASE Waits(k, t)
  <2> DEFINE n == wait_cancel(k, t)
             w == k.wid[t]
  <2>1. r = mtx_rel_wai(n, t, w)
    BY <1>3 DEF Cancelled
  <2>2. w \in Mutexes /\ k.owner[w] \in Tasks \ {t}
    BY <1>1, <1>3 DEF Waiting
  <2>3. Parted(k, t, {t}, n)
    BY <1>1, CancelParts
  <2> HIDE DEF n
  <2>4. /\ Steady(Created, r, {t}, {}) /\ Same(n, r)
        /\ Quiet(Created, k) =>
             /\ Quiet(Created, r)
             /\ \A m \in Mutexes : /\ In(r, m) = In(n, m)
                                   /\ n.owner[m] \in {t} => r.queue[m] = n.queue[m]
    BY <1>3, <2>1, <2>3, RelWaiIs
  <2>5. /\ \A m \in Mutexes : In(n, m) = In(k, m) \ {t}
        /\ \A m \in Mutexes : m # w => n.queue[m] = k.queue[m]
        /\ n.wid[t] = w
    BY <1>3, <2>3, PartedIs
  <2>6. n.owner = k.owner /\ n.list = k.list
    BY <2>3 DEF Parted
  <2>7. r.list = k.list /\ r.owner = k.owner /\ r.wid[t] = w
    BY <2>4, <2>5, <2>6 DEF Same
  <2> HIDE DEF r, w
  <2>8. \E B \in SUBSET {t} : Steady(Created, r, B, {}) /\ \A b \in B : k.owner[r.wid[b]] # t
    <3>1. {t} \in SUBSET {t} /\ \A b \in {t} : k.owner[r.wid[b]] # t
      BY <2>2, <2>7
    <3> QED BY <2>4, <3>1
  <2>9. ASSUME Quiet(Created, k), NEW m \in Mutexes
        PROVE  t \notin In(r, m) /\ (k.owner[m] = t => r.queue[m] = k.queue[m])
    BY <2>2, <2>4, <2>5, <2>6, <2>9
  <2> QED BY <2>4, <2>7, <2>8, <2>9 DEF r
<1> QED BY <1>2, <1>3

LEMMA TerminationIs ==
    ASSUME Created \in CreatedType, NEW k, Steady(Created, k, {}, {}), NEW t \in Tasks
    PROVE  LET n == make_dormant(_ter_tsk(k, t), t)
           IN  /\ Lasting(Created, n)
               /\ Quiet(Created, k) => Peaceful(Created, n) /\ Passes(k, n)
<1> DEFINE r == Cancelled(k, t)
           R == r.list[t]
           h == HandOver(r, R)
           n == make_dormant(h, t)
           s == [r EXCEPT !.list[t] = {}]
           g == HandOver(s, R)
           gone == make_dormant(_ter_tsk(k, t), t)
<1>1. gone = n
  BY DEF _ter_tsk, signal_all_mutex, Cancelled
<1>2. /\ r.list = k.list /\ r.owner = k.owner
      /\ Quiet(Created, k) =>
           /\ Quiet(Created, r)
           /\ \A m \in Mutexes : /\ t \notin In(r, m)
                                 /\ k.owner[m] = t => r.queue[m] = k.queue[m]
  BY CancelledIs
<1>3. PICK B \in SUBSET {t} : /\ Steady(Created, r, B, {})
                              /\ \A b \in B : k.owner[r.wid[b]] # t
  BY CancelledIs
<1> HIDE DEF r
<1>4. /\ r \in KernelType /\ Waiting(r, B) /\ Queued(r) /\ Sorted(Created, r)
      /\ Owned(Created, r, {}) /\ Refused(Created, r) /\ AllLifted(Created, r)
      /\ Orderly(Created, r, B)
  BY <1>3 DEF Steady, Orderly
<1>5. /\ r.list \in [Tasks -> SUBSET Mutexes] /\ R \in SUBSET Mutexes
      /\ r.owner \in [Mutexes -> Tasks \cup {NULL}]
  BY <1>4, Fields
<1>6. /\ s \in KernelType /\ s.list = [r.list EXCEPT ![t] = {}]
      /\ s.state = r.state /\ s.bpri = r.bpri /\ s.pri = r.pri /\ s.wid = r.wid
      /\ s.owner = r.owner /\ s.queue = r.queue
  BY <1>4 DEF KernelType
<1> HIDE DEF s
<1>7. \A m \in Mutexes : In(s, m) = In(r, m)
  BY <1>6 DEF In
<1>8. Orderly(Created, s, B)
  <2>1. Waiting(s, B)
    BY <1>4, <1>6 DEF Waiting, Waits, In
  <2>2. Queued(s)
    BY <1>4, <1>6 DEF Queued, Waits, In
  <2>3. Sorted(Created, s)
    BY <1>4, <1>6 DEF Sorted
  <2> QED BY <1>6, <2>1, <2>2, <2>3 DEF Orderly
<1>9. \A m \in Mutexes : m \in R <=> r.owner[m] = t
  BY <1>4 DEF Owned
<1>10. \A u \in Tasks : s.list[u] = IF u = t THEN {} ELSE r.list[u]
  BY <1>5, <1>6
<1> HIDE DEF R
<1>11. Owned(Created, s, R)
  <2>1. ASSUME NEW m \in Mutexes, NEW u \in Tasks
        PROVE  m \in s.list[u] <=> s.owner[m] = u /\ m \notin R
    <3>1. m \in r.list[u] <=> r.owner[m] = u
      BY <1>4 DEF Owned
    <3> QED BY <1>6, <1>9, <1>10, <3>1
  <2>2. ASSUME NEW m \in Mutexes, s.owner[m] # NULL
        PROVE  Created.exists[m] /\ s.state[s.owner[m]] # "DORMANT"
    BY <1>4, <1>6, <2>2 DEF Owned
  <2> QED BY <2>1, <2>2 DEF Owned
<1>12. Refused(Created, s)
  BY <1>4, <1>6, <1>10 DEF Refused
<1>13. AllLifted(Created, s)
  <2>1. ASSUME NEW u \in Tasks, NEW m \in s.list[u], Created.attr[m] = "CEILING"
        PROVE  s.pri[u] <= Created.ceil[m]
    <3>1. m \in r.list[u]
      BY <1>10, <2>1
    <3> QED BY <1>4, <1>6, <2>1, <3>1 DEF AllLifted, Lifted, Lifts
  <2> QED BY <2>1 DEF AllLifted, Lifted, Lifts
<1>14. Steady(Created, s, B, R)
  BY <1>8, <1>11, <1>12, <1>13 DEF Steady
<1>15. \A b \in B : s.wid[b] \notin R
  <2>1. ASSUME NEW b \in B, s.wid[b] \in R PROVE FALSE
    <3>1. r.owner[r.wid[b]] = t
      BY <1>5, <1>6, <1>9, <2>1
    <3> QED BY <1>2, <1>3, <3>1
  <2> QED BY <2>1
<1>16. B \in SUBSET Tasks
  OBVIOUS
<1>17. Steady(Created, g, B, {})
  BY <1>5, <1>14, <1>15, <1>16, HandOverSteady
<1>18. /\ \A m \in Mutexes :
            /\ In(g, m) \subseteq In(s, m)
            /\ m \notin R => g.owner[m] = s.owner[m]
            /\ m \in R => g.owner[m] = IF s.queue[m] = <<>> THEN NULL ELSE Head(s.queue[m])
       /\ \A u \in Tasks : u \notin HeirsOf(s, R) => Unchanged(s, g, u)
  BY <1>5, <1>8, HandOverLeaves
<1>19. t \notin HeirsOf(s, R)
  <2>1. SUFFICES ASSUME t \in HeirsOf(s, R) PROVE FALSE
    OBVIOUS
  <2>2. PICK m \in Passed(s, R) : Head(s.queue[m]) = t
    BY <2>1 DEF HeirsOf
  <2>3. m \in R /\ m \in Mutexes /\ Waits(s, t) /\ s.wid[t] = m
    <3>1. R \in SUBSET Mutexes /\ Orderly(Created, s, B) /\ m \in Passed(s, R)
      BY <1>5, <1>8
    <3>2. /\ m \in R /\ m \in Mutexes
          /\ Waits(s, Head(s.queue[m])) /\ s.wid[Head(s.queue[m])] = m
      BY <3>1, HeirIs
    <3> QED BY <2>2, <3>2
  <2>4. r.owner[m] = t /\ s.owner[m] \in Tasks \ {t}
    BY <1>8, <1>9, <2>3 DEF Orderly, Waiting
  <2> QED BY <1>6, <2>4
<1>20. g.list[t] = {}
  BY <1>10, <1>18, <1>19 DEF Unchanged
<1>21. Buried(g, t, n)
  <2>1. Passed(r, R) = Passed(s, R)
    BY <1>6 DEF Passed
  <2>2. HeirsOf(r, R) = HeirsOf(s, R) /\ \A u \in Tasks : Gained(r, R, u) = Gained(s, R, u)
    BY <1>6, <2>1 DEF HeirsOf, Gained
  <2>3. \A u \in Tasks : Offers(r, R, u) = Offers(s, R, u)
    BY <1>6, <2>2 DEF Offers
  <2>4. NoLonger(r, HeirsOf(r, R)) = NoLonger(s, HeirsOf(s, R))
        /\ ForNothing(r, HeirsOf(r, R)) = ForNothing(s, HeirsOf(s, R))
    BY <1>6, <2>2 DEF NoLonger, ForNothing
  <2>5. /\ IsRecord(h) /\ h.bpri = r.bpri
        /\ h.state = NoLonger(r, HeirsOf(r, R)) /\ h.wid = ForNothing(r, HeirsOf(r, R))
        /\ h.queue = [m \in Mutexes |-> IF m \in Passed(r, R) THEN Tail(r.queue[m])
                                        ELSE r.queue[m]]
        /\ h.owner = [m \in Mutexes |-> IF m \in Passed(r, R) THEN Head(r.queue[m])
                                        ELSE IF m \in R THEN NULL ELSE r.owner[m]]
        /\ h.list = [u \in Tasks |-> r.list[u] \cup Gained(r, R, u)]
        /\ h.pri = [u \in Tasks |-> Min(Offers(r, R, u))]
    BY <1>4, <1>5, HandOverIs
  <2>6. /\ g.bpri = s.bpri
        /\ g.state = NoLonger(s, HeirsOf(s, R)) /\ g.wid = ForNothing(s, HeirsOf(s, R))
        /\ g.queue = [m \in Mutexes |-> IF m \in Passed(s, R) THEN Tail(s.queue[m])
                                        ELSE s.queue[m]]
        /\ g.owner = [m \in Mutexes |-> IF m \in Passed(s, R) THEN Head(s.queue[m])
                                        ELSE IF m \in R THEN NULL ELSE s.owner[m]]
        /\ g.list = [u \in Tasks |-> s.list[u] \cup Gained(s, R, u)]
        /\ g.pri = [u \in Tasks |-> Min(Offers(s, R, u))]
    BY <1>5, <1>6, HandOverIs
  <2> HIDE DEF h, g, n
  <2>7. /\ h.state = g.state /\ h.wid = g.wid /\ h.bpri = g.bpri
        /\ h.queue = g.queue /\ h.owner = g.owner
    BY <1>6, <2>1, <2>4, <2>5, <2>6
  <2>8. h.pri = g.pri
    BY <2>3, <2>5, <2>6
  <2>9. [h.list EXCEPT ![t] = {}] = [g.list EXCEPT ![t] = {}]
    <3>1. ASSUME NEW u \in Tasks, u # t PROVE h.list[u] = g.list[u]
      BY <1>10, <2>2, <2>5, <2>6, <3>1
    <3>2. h.list = [u \in Tasks |-> h.list[u]] /\ g.list = [u \in Tasks |-> g.list[u]]
      BY <2>5, <2>6
    <3> QED BY <3>1, <3>2
  <2>10. Buried(h, t, n)
    BY <2>5, DormantIs DEF n
  <2> QED BY <2>7, <2>8, <2>9, <2>10 DEF Buried
<1> HIDE DEF h, g, n
<1>22. Lasting(Created, n)
  BY <1>17, <1>20, <1>21, BuriedIs
<1>23. ASSUME Quiet(Created, k) PROVE Peaceful(Created, n) /\ Passes(k, n)
  <2>1. /\ Acyclic(Forward(r)) /\ AllExact(Created, r)
        /\ \A m \in Mutexes : t \notin In(r, m)
        /\ \A m \in Mutexes : k.owner[m] = t => r.queue[m] = k.queue[m]
    BY <1>2, <1>23 DEF Quiet
  <2>2. Forward(s) = Forward(r)
    BY <1>6 DEF Forward, Waits
  <2>3. /\ Acyclic(Forward(g))
        /\ \A u \in Tasks : Exact(Created, s, u) => Exact(Created, g, u)
    BY <1>5, <1>14, <1>15, <1>16, <2>1, <2>2, HandOverQuiet DEF g
  <2>4. ASSUME NEW u \in Tasks \ {t} PROVE Exact(Created, s, u)
    <3>1. s.list[u] = r.list[u] /\ s.bpri[u] = r.bpri[u] /\ s.pri[u] = r.pri[u]
      BY <1>6, <1>10
    <3>2. \A m \in r.list[u] : In(s, m) = In(r, m)
      BY <1>5, <1>7
    <3>3. Exact(Created, r, u) /\ \A v \in Followers(Created, r, u) : s.pri[v] = r.pri[v]
      BY <1>6, <2>1 DEF AllExact
    <3> QED BY <3>1, <3>2, <3>3, ClaimsKept
  <2>5. \A m \in Mutexes : t \notin In(g, m)
    BY <1>7, <1>18, <2>1
  <2>6. Peaceful(Created, n)
    BY <1>17, <1>20, <1>21, <2>3, <2>4, <2>5, BuriedIs
  <2>7. ASSUME NEW m \in Mutexes, k.owner[m] # NULL, n.owner[m] \notin {NULL, k.owner[m]},
               attr[m] # "TFIFO", NEW u \in In(k, m)
        PROVE  k.pri[n.owner[m]] <= k.pri[u]
    <3>1. n.owner[m] = g.owner[m]
      BY <1>21 DEF Buried
    <3>2. m \in R
      BY <1>2, <1>6, <1>18, <2>7, <3>1
    <3>3. s.queue[m] = k.queue[m]
      BY <1>2, <1>6, <1>9, <2>1, <3>2
    <3>4. k.queue[m] # <<>> /\ n.owner[m] = Head(k.queue[m])
      BY <1>18, <2>7, <3>1, <3>2, <3>3
    <3> QED BY <2>7, <3>4, HeadPasses DEF Steady
  <2>8. Passes(k, n)
    BY <2>7 DEF Passes
  <2> QED BY <2>6, <2>8
<1> QED BY <1>1, <1>22, <1>23

-----------------------------------------------------------------------------
(* The steps, one action after another                                     *)

LEMMA EmptyUnowned ==
    ASSUME NEW a, NEW k, NEW B, Orderly(a, k, B), NEW m \in Mutexes,
           k.owner[m] \notin Tasks
    PROVE  k.queue[m] = <<>> /\ In(k, m) = {} /\ \A u \in Tasks : k.wid[u] # m
<1>1. k \in KernelType /\ Waiting(k, B) /\ Queued(k)
  BY DEF Orderly
<1>2. Linked(Tasks, k.queue[m], In(k, m)) /\ In(k, m) \subseteq Tasks
  BY <1>1, QueueLinked
<1>3. \A u \in Tasks : k.wid[u] # m
  BY <1>1, Priorities DEF Waiting
<1>4. In(k, m) = {}
  BY <1>1, <1>2, <1>3 DEF Queued
<1> QED BY <1>2, <1>3, <1>4, EmptyLinked

(* n differs from k only in priorities of tasks that are in no queue and   *)
(* in states, b from a only in mutexes that nobody has.                    *)
Alike(a, k, b, n) ==
    /\ n \in KernelType /\ b \in CreatedType
    /\ n.owner = k.owner /\ n.wid = k.wid /\ n.list = k.list /\ n.queue = k.queue
    /\ \A u \in Tasks : Waits(n, u) = Waits(k, u)
    /\ \A u \in Tasks : k.state[u] # "DORMANT" => n.state[u] # "DORMANT"
    /\ \A u \in Tasks : Waits(k, u) => n.pri[u] = k.pri[u]
    /\ \A m \in Mutexes : k.owner[m] # NULL =>
          b.exists[m] = a.exists[m] /\ b.attr[m] = a.attr[m] /\ b.ceil[m] = a.ceil[m]

LEMMA AlikeIs ==
    ASSUME NEW a, NEW k, Orderly(a, k, {}), Owned(a, k, {}), NEW b, NEW n,
           Alike(a, k, b, n)
    PROVE  /\ Orderly(b, n, {}) /\ Owned(b, n, {}) /\ Forward(n) = Forward(k)
           /\ \A u \in Tasks :
                /\ Exact(a, k, u) /\ n.bpri[u] = k.bpri[u] /\ n.pri[u] = k.pri[u]
                   => Exact(b, n, u)
                /\ Lifted(a, k, u) /\ n.pri[u] = k.pri[u] => Lifted(b, n, u)
<1>1. /\ k \in KernelType /\ Waiting(k, {}) /\ Queued(k) /\ Sorted(a, k)
  BY DEF Orderly
<1>2. /\ n \in KernelType /\ b \in CreatedType
      /\ n.owner = k.owner /\ n.wid = k.wid /\ n.list = k.list /\ n.queue = k.queue
      /\ \A u \in Tasks : Waits(n, u) = Waits(k, u)
      /\ \A u \in Tasks : k.state[u] # "DORMANT" => n.state[u] # "DORMANT"
      /\ \A u \in Tasks : Waits(k, u) => n.pri[u] = k.pri[u]
      /\ \A m \in Mutexes : k.owner[m] # NULL =>
            b.exists[m] = a.exists[m] /\ b.attr[m] = a.attr[m] /\ b.ceil[m] = a.ceil[m]
  BY DEF Alike
<1>3. \A m \in Mutexes : In(n, m) = In(k, m) /\ In(k, m) \subseteq Tasks
  BY <1>1, <1>2, QueueLinked DEF In
<1>4. \A u \in Tasks : \A m \in k.list[u] : m \in Mutexes /\ k.owner[m] = u
  <2>1. \A u \in Tasks : k.list[u] \subseteq Mutexes
    BY <1>1, Fields
  <2> QED BY <2>1 DEF Owned
<1>5. k.owner \in [Mutexes -> Tasks \cup {NULL}]
  BY <1>1, Fields
<1>6. Waiting(n, {})
  BY <1>1, <1>2, <1>3 DEF Waiting
<1>7. Queued(n)
  BY <1>1, <1>2, <1>3 DEF Queued
<1>8. ASSUME NEW m \in Mutexes, b.attr[m] # "TFIFO" PROVE SortedBy(n.queue[m], n.pri)
  <2>1. CASE k.owner[m] = NULL
    <3>1. n.queue[m] = <<>>
      BY <1>2, <2>1, EmptyUnowned, Priorities
    <3> QED BY <3>1 DEF SortedBy
  <2>2. CASE k.owner[m] # NULL
    <3>1. SortedBy(k.queue[m], k.pri) /\ k.queue[m] \in Seq(Tasks)
      BY <1>1, <1>2, <1>8, <2>2, Fields DEF Sorted
    <3>2. \A i \in 1 .. Len(k.queue[m]) : k.queue[m][i] \in In(k, m)
      BY <3>1, PlacesOf DEF In
    <3>3. \A i \in 1 .. Len(k.queue[m]) : n.pri[k.queue[m][i]] = k.pri[k.queue[m][i]]
      BY <1>1, <1>2, <1>3, <3>2 DEF Queued
    <3> QED BY <1>2, <3>1, <3>3 DEF SortedBy
  <2> QED BY <2>1, <2>2
<1>9. Orderly(b, n, {})
  BY <1>2, <1>6, <1>7, <1>8 DEF Orderly, Sorted
<1>10. Owned(b, n, {})
  BY <1>2, <1>5 DEF Owned
<1>11. Forward(n) = Forward(k)
  BY <1>2 DEF Forward
<1>12. ASSUME NEW u \in Tasks, Exact(a, k, u), n.bpri[u] = k.bpri[u], n.pri[u] = k.pri[u]
       PROVE  Exact(b, n, u)
  <2>1. \A m \in k.list[u] : /\ b.attr[m] = a.attr[m] /\ b.ceil[m] = a.ceil[m]
                             /\ In(n, m) = In(k, m)
    BY <1>2, <1>3, <1>4, Priorities
  <2>2. \A v \in Followers(a, k, u) : n.pri[v] = k.pri[v]
    BY <1>1, <1>2, <1>3, <1>4 DEF Followers, Queued
  <2> QED BY <1>2, <1>12, <2>1, <2>2, ClaimsKept
<1>13. ASSUME NEW u \in Tasks, Lifted(a, k, u), n.pri[u] = k.pri[u]
       PROVE  Lifted(b, n, u)
  BY <1>2, <1>4, <1>13, Priorities DEF Lifted, Lifts
<1> QED BY <1>9, <1>10, <1>11, <1>12, <1>13

(* The kernel's fields are the variables. *)
LEMMA KernelFields ==
    /\ Kernel.state = state /\ Kernel.bpri = bpriority /\ Kernel.pri = priority
    /\ Kernel.wid = wid /\ Kernel.list = mtxlist /\ Kernel.owner = mtxtsk
    /\ Kernel.queue = wait_queue
    /\ Created.exists = exists /\ Created.attr = attr /\ Created.ceil = ceilpri
  BY DEF Kernel, Created

(* A step that creates nothing *)
LEMMA StepSettles ==
    ASSUME Inv, UNCHANGED <<created, circular>>, NEW n, Becomes(n),
           Safe(Created, n, circular)
    PROVE  Inv'
<1>1. Created' = Created /\ circular' = circular
  BY DEF Created, created
<1>2. Created' \in CreatedType /\ circular' \in BOOLEAN
  BY <1>1 DEF Inv
<1> QED BY <1>1, <1>2, Settles

(* tk_sta_tsk *)
LEMMA StartStep ==
    ASSUME Inv, ~Broken, NEW t \in Tasks, NEW p \in Pri, tk_sta_tsk(t, p)
    PROVE  Inv' /\ mtxtsk' = mtxtsk
<1> DEFINE k == Kernel
           n == [Kernel EXCEPT !.state[t] = "READY", !.bpri[t] = p, !.pri[t] = p]
<1>1. /\ Created \in CreatedType /\ Steady(Created, k, {}, {})
      /\ ~circular => Quiet(Created, k)
  BY Start
<1>2. k.state[t] = "DORMANT" /\ k.owner = mtxtsk /\ Becomes(n) /\ UNCHANGED <<created, circular>>
  BY KernelFields DEF tk_sta_tsk
<1> HIDE DEF k
<1>3. n = [k EXCEPT !.state[t] = "READY", !.bpri[t] = p, !.pri[t] = p]
  BY DEF k
<1> HIDE DEF n
<1>4. /\ k \in KernelType /\ Waiting(k, {}) /\ Queued(k) /\ Owned(Created, k, {})
      /\ Orderly(Created, k, {}) /\ Refused(Created, k) /\ AllLifted(Created, k)
  BY <1>1 DEF Steady, Orderly
<1>5. /\ k.state \in [Tasks -> States] /\ k.bpri \in [Tasks -> Pri]
      /\ k.pri \in [Tasks -> Pri] /\ k.list \in [Tasks -> SUBSET Mutexes]
  BY <1>4, Fields
<1>6. /\ IsRecord(n) /\ n.state = [k.state EXCEPT ![t] = "READY"]
      /\ n.bpri = [k.bpri EXCEPT ![t] = p] /\ n.pri = [k.pri EXCEPT ![t] = p]
      /\ n.wid = k.wid /\ n.list = k.list /\ n.owner = k.owner /\ n.queue = k.queue
  <2>1. IsRecord(k)
    BY <1>4, Fields DEF IsRecord
  <2> QED BY <1>3, <2>1 DEF IsRecord
<1>7. n \in KernelType
  <2>1. /\ n.state \in [Tasks -> States] /\ n.bpri \in [Tasks -> Pri]
        /\ n.pri \in [Tasks -> Pri]
    BY <1>5, <1>6 DEF States
  <2>2. /\ n.wid \in [Tasks -> Mutexes \cup {NULL}] /\ n.list \in [Tasks -> SUBSET Mutexes]
        /\ n.owner \in [Mutexes -> Tasks \cup {NULL}] /\ n.queue \in [Mutexes -> Seq(Tasks)]
    BY <1>4, <1>6, Fields
  <2> QED BY <1>6, <2>1, <2>2, RecordTyped
<1>8. ~Waits(k, t) /\ k.wid[t] = NULL /\ k.list[t] = {}
  <2>1. ~Waits(k, t)
    BY <1>2 DEF Waits
  <2>2. k.list[t] = {}
    BY <1>2, <1>4, <1>5, Priorities DEF Owned
  <2> QED BY <1>4, <2>1, <2>2 DEF Waiting
<1>9. /\ n.state[t] = "READY" /\ n.bpri[t] = p /\ n.pri[t] = p
      /\ \A u \in Tasks : u # t => /\ n.state[u] = k.state[u] /\ n.bpri[u] = k.bpri[u]
                                   /\ n.pri[u] = k.pri[u]
  BY <1>5, <1>6
<1>10. \A u \in Tasks : Waits(n, u) = Waits(k, u)
  BY <1>8, <1>9 DEF Waits
<1>11. Alike(Created, k, Created, n)
  BY <1>1, <1>6, <1>7, <1>8, <1>9, <1>10 DEF Alike
<1>12. /\ Orderly(Created, n, {}) /\ Owned(Created, n, {}) /\ Forward(n) = Forward(k)
       /\ \A u \in Tasks :
            /\ Exact(Created, k, u) /\ n.bpri[u] = k.bpri[u] /\ n.pri[u] = k.pri[u]
               => Exact(Created, n, u)
            /\ Lifted(Created, k, u) /\ n.pri[u] = k.pri[u] => Lifted(Created, n, u)
  BY <1>4, <1>11, AlikeIs
<1>13. AllLifted(Created, n)
  <2>1. Lifted(Created, n, t)
    BY <1>6, <1>8 DEF Lifted, Lifts
  <2> QED BY <1>4, <1>9, <1>12, <2>1 DEF AllLifted
<1>14. Refused(Created, n)
  <2>1. ASSUME NEW u \in Tasks, NEW m \in Mutexes, Created.attr[m] = "CEILING",
               m \in n.list[u] \/ n.wid[u] = m
        PROVE  n.bpri[u] >= Created.ceil[m]
    <3>1. u # t
      BY <1>6, <1>8, <2>1, Priorities
    <3> QED BY <1>4, <1>6, <1>9, <2>1, <3>1 DEF Refused
  <2> QED BY <2>1 DEF Refused
<1>15. Steady(Created, n, {}, {})
  BY <1>12, <1>13, <1>14 DEF Steady
<1>16. ASSUME Quiet(Created, k) PROVE Quiet(Created, n)
  <2>1. Exact(Created, n, t)
    <3>1. Claims(Created, n, t) = {p}
      BY <1>6, <1>8, <1>9 DEF Claims, OwnClaims, Followers
    <3> QED BY <1>9, <3>1, Priorities DEF Exact, Least
  <2>2. AllExact(Created, n)
    BY <1>9, <1>12, <1>16, <2>1 DEF AllExact, Quiet
  <2> QED BY <1>12, <1>16, <2>2 DEF Quiet
<1>17. Safe(Created, n, circular)
  BY <1>1, <1>15, <1>16, SteadyIsSafe
<1>18. mtxtsk' = mtxtsk
  BY <1>2, <1>6 DEF Becomes
<1> QED BY <1>2, <1>17, <1>18, StepSettles

(* tk_sus_tsk and tk_rsm_tsk *)
LEMMA SuspendStep ==
    ASSUME Inv, ~Broken, NEW t \in Tasks, tk_sus_tsk(t) \/ tk_rsm_tsk(t)
    PROVE  Inv'
<1> DEFINE k == Kernel
           n == [Kernel EXCEPT !.state = state']
<1>1. /\ Created \in CreatedType /\ Steady(Created, k, {}, {})
      /\ ~circular => Quiet(Created, k)
  BY Start
<1>2. /\ state' = [state EXCEPT ![t] = state'[t]]
      /\ state'[t] \in States \ {"DORMANT"}
      /\ state[t] \in {"WAIT", "WAITSUS"} <=> state'[t] \in {"WAIT", "WAITSUS"}
      /\ UNCHANGED <<bpriority, priority, wid, mtxlist, created, mtxtsk, wait_queue,
                     circular>>
  <2>1. state \in [Tasks -> States]
    BY <1>1, KernelFields, Fields DEF Steady, Orderly
  <2> QED BY <2>1 DEF tk_sus_tsk, tk_rsm_tsk, States
<1>3. UNCHANGED <<created, circular>>
  BY <1>2
<1>4. n.state = state' /\ n.bpri = bpriority /\ n.pri = priority /\ n.wid = wid
      /\ n.list = mtxlist /\ n.owner = mtxtsk /\ n.queue = wait_queue /\ IsRecord(n)
  BY DEF Kernel, IsRecord
<1>5. Becomes(n)
  BY <1>2, <1>4 DEF Becomes
<1>6. /\ n.bpri = k.bpri /\ n.pri = k.pri /\ n.wid = k.wid
      /\ n.list = k.list /\ n.owner = k.owner /\ n.queue = k.queue
      /\ n.state = [k.state EXCEPT ![t] = n.state[t]]
      /\ n.state[t] \in States \ {"DORMANT"}
      /\ k.state[t] \in {"WAIT", "WAITSUS"} <=> n.state[t] \in {"WAIT", "WAITSUS"}
  BY <1>2, <1>4, KernelFields
<1> HIDE DEF k, n
<1>7. /\ k \in KernelType /\ Owned(Created, k, {})
      /\ Orderly(Created, k, {}) /\ Refused(Created, k) /\ AllLifted(Created, k)
  BY <1>1 DEF Steady, Orderly
<1>8. k.state \in [Tasks -> States]
  BY <1>7, Fields
<1>9. n \in KernelType
  <2>1. n.state \in [Tasks -> States]
    BY <1>6, <1>8
  <2>2. /\ n.wid \in [Tasks -> Mutexes \cup {NULL}] /\ n.list \in [Tasks -> SUBSET Mutexes]
        /\ n.owner \in [Mutexes -> Tasks \cup {NULL}] /\ n.queue \in [Mutexes -> Seq(Tasks)]
        /\ n.bpri \in [Tasks -> Pri] /\ n.pri \in [Tasks -> Pri]
    BY <1>6, <1>7, Fields
  <2> QED BY <1>4, <2>1, <2>2, RecordTyped
<1>10. ASSUME NEW u \in Tasks
       PROVE  /\ Waits(n, u) = Waits(k, u)
              /\ k.state[u] # "DORMANT" => n.state[u] # "DORMANT"
  <2>1. CASE u = t
    BY <1>6, <2>1 DEF Waits
  <2>2. CASE u # t
    <3>1. n.state[u] = k.state[u]
      BY <1>6, <1>8, <2>2
    <3> QED BY <3>1 DEF Waits
  <2> QED BY <2>1, <2>2
<1>11. Alike(Created, k, Created, n)
  BY <1>1, <1>6, <1>9, <1>10 DEF Alike
<1>12. /\ Orderly(Created, n, {}) /\ Owned(Created, n, {}) /\ Forward(n) = Forward(k)
       /\ \A u \in Tasks : /\ Exact(Created, k, u) => Exact(Created, n, u)
                           /\ Lifted(Created, k, u) => Lifted(Created, n, u)
  BY <1>6, <1>7, <1>11, AlikeIs
<1>13. Refused(Created, n)
  BY <1>6, <1>7 DEF Refused
<1>14. Steady(Created, n, {}, {})
  BY <1>7, <1>12, <1>13 DEF Steady, AllLifted
<1>15. Quiet(Created, k) => Quiet(Created, n)
  BY <1>12 DEF Quiet, AllExact
<1>16. Safe(Created, n, circular)
  BY <1>1, <1>14, <1>15, SteadyIsSafe
<1> QED BY <1>3, <1>5, <1>16, StepSettles

(* tk_ext_tsk and tk_ter_tsk *)
LEMMA TerminateStep ==
    ASSUME Inv, ~Broken, NEW t \in Tasks, tk_ext_tsk(t) \/ tk_ter_tsk(t)
    PROVE  Inv' /\ (~circular => \E n : Becomes(n) /\ Passes(Kernel, n))
<1> DEFINE k == Kernel
           n == make_dormant(_ter_tsk(k, t), t)
<1>1. /\ Created \in CreatedType /\ Steady(Created, k, {}, {})
      /\ ~circular => Quiet(Created, k)
  BY Start
<1>2. Becomes(n) /\ UNCHANGED <<created, circular>>
  BY DEF tk_ext_tsk, tk_ter_tsk
<1> HIDE DEF k
<1>3. /\ Lasting(Created, n)
      /\ Quiet(Created, k) => Peaceful(Created, n) /\ Passes(k, n)
  BY <1>1, TerminationIs
<1> HIDE DEF n
<1>4. Safe(Created, n, circular)
  BY <1>1, <1>3 DEF Safe
<1>5. Inv'
  BY <1>2, <1>4, StepSettles
<1>6. ~circular => Becomes(n) /\ Passes(Kernel, n)
  BY <1>1, <1>2, <1>3 DEF k
<1> QED BY <1>5, <1>6

(* The end of a wait without the mutex *)
LEMMA EndWaitStep ==
    ASSUME Inv, ~Broken, NEW t \in Tasks, EndWait(t)
    PROVE  Inv' /\ mtxtsk' = mtxtsk
<1> DEFINE k == Kernel
           n == wait_release(k, t)
           r == mtx_rel_wai(n, t, k.wid[t])
<1>1. /\ Created \in CreatedType /\ Steady(Created, k, {}, {})
      /\ ~circular => Quiet(Created, k)
  BY Start
<1>2. Waits(k, t) /\ k.owner = mtxtsk /\ Becomes(r) /\ UNCHANGED <<created, circular>>
  BY KernelFields DEF EndWait
<1> HIDE DEF k
<1>3. Parted(k, t, {}, n)
  BY <1>1, CancelParts DEF Steady, Orderly
<1> HIDE DEF n
<1>4. /\ Steady(Created, r, {}, {}) /\ Same(n, r)
      /\ Quiet(Created, k) => Quiet(Created, r)
  BY <1>1, <1>2, <1>3, RelWaiIs
<1> HIDE DEF r
<1>5. Safe(Created, r, circular)
  BY <1>1, <1>4, SteadyIsSafe
<1>6. mtxtsk' = mtxtsk
  BY <1>2, <1>3, <1>4 DEF Becomes, Parted, Same
<1> QED BY <1>2, <1>5, <1>6, StepSettles

(* tk_chg_pri *)
LEMMA ChangeStep ==
    ASSUME Inv, ~Broken, NEW t \in Tasks, NEW p \in Pri, tk_chg_pri(t, p)
    PROVE  Inv' /\ mtxtsk' = mtxtsk
<1> DEFINE k == Kernel
           s == [k EXCEPT !.bpri[t] = p]
           n == change_task_priority(s, t, Due(s, t))
<1>1. /\ Created \in CreatedType /\ Steady(Created, k, {}, {})
      /\ ~circular => Quiet(Created, k)
  BY Start
<1>2. /\ Becomes(n) /\ UNCHANGED <<created, circular>>
      /\ k.owner = mtxtsk /\ \A c \in Ceilings(t) : p >= c
  BY KernelFields DEF tk_chg_pri
<1>3. \A m \in Mutexes : /\ Created.attr[m] = "CEILING"
                         /\ m \in k.list[t] \/ k.wid[t] = m
                         => p >= Created.ceil[m]
  <2>1. ASSUME NEW m \in Mutexes, attr[m] = "CEILING", m \in mtxlist[t] \/ wid[t] = m
        PROVE  ceilpri[m] \in Ceilings(t)
    BY <2>1, Priorities DEF Ceilings
  <2> QED BY <1>2, <2>1, KernelFields
<1> HIDE DEF k
<1>4. /\ k \in KernelType /\ Owned(Created, k, {})
      /\ Orderly(Created, k, {}) /\ Refused(Created, k) /\ AllLifted(Created, k)
  BY <1>1 DEF Steady, Orderly
<1>5. k.bpri \in [Tasks -> Pri]
  BY <1>4, Fields
<1>6. /\ s \in KernelType /\ s.bpri = [k.bpri EXCEPT ![t] = p]
      /\ s.state = k.state /\ s.pri = k.pri /\ s.wid = k.wid /\ s.list = k.list
      /\ s.owner = k.owner /\ s.queue = k.queue
  BY <1>4 DEF KernelType
<1> HIDE DEF s
<1>7. Alike(Created, k, Created, s)
  BY <1>1, <1>6 DEF Alike, Waits
<1>8. s.bpri[t] = p /\ \A u \in Tasks : u # t => s.bpri[u] = k.bpri[u]
  BY <1>5, <1>6
<1>9. /\ Orderly(Created, s, {}) /\ Owned(Created, s, {}) /\ Forward(s) = Forward(k)
      /\ \A u \in Tasks : /\ u # t /\ Exact(Created, k, u) => Exact(Created, s, u)
                          /\ Lifted(Created, s, u)
  BY <1>4, <1>6, <1>7, <1>8, AlikeIs DEF AllLifted
<1>10. Refused(Created, s)
  <2>1. ASSUME NEW u \in Tasks, NEW m \in Mutexes, Created.attr[m] = "CEILING",
               m \in s.list[u] \/ s.wid[u] = m
        PROVE  s.bpri[u] >= Created.ceil[m]
    <3>1. CASE u = t
      BY <1>3, <1>6, <1>8, <2>1, <3>1
    <3>2. CASE u # t
      BY <1>4, <1>6, <1>8, <2>1, <3>2 DEF Refused
    <3> QED BY <3>1, <3>2
  <2> QED BY <2>1 DEF Refused
<1> DEFINE q == Due(s, t)
<1>11. q \in Pri /\ Lifts(Created, s, t, q) /\ Least(q, Claims(Created, s, t))
  BY <1>1, <1>9, DueLifts, DueIsLeast DEF Orderly
<1> HIDE DEF q
<1>12. n = change_task_priority(s, t, q)
  BY DEF q
<1> HIDE DEF n
<1>13. Kept(s, {}, n) /\ AllLifted(Created, n)
  BY <1>1, <1>9, <1>11, <1>12, ChangeIs DEF AllLifted
<1>14. Steady(Created, n, {}, {}) /\ Forward(n) = Forward(s)
  BY <1>9, <1>10, <1>13, SameSteady DEF Kept
<1>15. ASSUME Quiet(Created, k) PROVE Quiet(Created, n)
  <2>1. Acyclic(Forward(s)) /\ \A u \in Tasks \ {t} : Exact(Created, s, u)
    BY <1>9, <1>15 DEF Quiet, AllExact
  <2>2. {} \in SUBSET Tasks /\ \A m \in {} : s.owner[m] \in {NULL, t}
    OBVIOUS
  <2>3. Calm(s, t, {}, Forward(s))
    BY <1>9, <2>1, <2>2, CalmStart
  <2>4. PICK V : Calmed(s, t, q, {}, Forward(s), n, V)
    BY <1>1, <1>11, <1>12, <2>3, CallsEnd
  <2>5. AllExact(Created, n)
    BY <1>11, <2>3, <2>4, CalmedExact
  <2> QED BY <1>14, <2>1, <2>5 DEF Quiet
<1>16. Safe(Created, n, circular)
  BY <1>1, <1>14, <1>15, SteadyIsSafe
<1>17. mtxtsk' = mtxtsk
  BY <1>2, <1>6, <1>13 DEF Becomes, Kept, Same
<1> QED BY <1>2, <1>16, <1>17, StepSettles

(* tk_cre_mtx *)
LEMMA CreateStep ==
    ASSUME Inv, ~Broken, NEW m \in Mutexes, NEW mtxatr \in Attributes, NEW ceil \in Pri,
           tk_cre_mtx(m, mtxatr, ceil)
    PROVE  Inv'
<1> DEFINE k == Kernel
           a == Created
           b == [exists |-> exists', attr |-> attr', ceil |-> ceilpri']
<1>1. /\ a \in CreatedType /\ Steady(a, k, {}, {}) /\ circular \in BOOLEAN
      /\ ~circular => Quiet(a, k)
  BY Start
<1>2. /\ ~a.exists[m] /\ b.exists = [a.exists EXCEPT ![m] = TRUE]
      /\ b.attr = [a.attr EXCEPT ![m] = mtxatr] /\ b.ceil = [a.ceil EXCEPT ![m] = ceil]
      /\ circular' = circular
      /\ UNCHANGED <<state, bpriority, priority, wid, mtxlist, mtxtsk, wait_queue>>
  BY DEF tk_cre_mtx, Created
<1>3. Created' = b
  BY DEF Created
<1>4. Becomes(k)
  BY <1>2, KernelFields DEF Becomes
<1>5. b = [exists |-> b.exists, attr |-> b.attr, ceil |-> b.ceil]
  OBVIOUS
<1> HIDE DEF k, a, b
<1>6. /\ k \in KernelType /\ Orderly(a, k, {}) /\ Owned(a, k, {})
      /\ Refused(a, k) /\ AllLifted(a, k)
  BY <1>1 DEF Steady, Orderly
<1>7. /\ a.exists \in [Mutexes -> BOOLEAN] /\ a.attr \in [Mutexes -> Attributes]
      /\ a.ceil \in [Mutexes -> Pri]
  BY <1>1 DEF CreatedType
<1>8. b \in CreatedType
  <2>1. b.exists \in [Mutexes -> BOOLEAN]
    BY <1>2, <1>7
  <2>2. b.attr \in [Mutexes -> Attributes]
    BY <1>2, <1>7
  <2>3. b.ceil \in [Mutexes -> Pri]
    BY <1>2, <1>7
  <2> QED BY <1>5, <2>1, <2>2, <2>3 DEF CreatedType
<1>9. k.owner[m] = NULL
  BY <1>2, <1>6 DEF Owned
<1>10. \A x \in Mutexes : x # m =>
          b.exists[x] = a.exists[x] /\ b.attr[x] = a.attr[x] /\ b.ceil[x] = a.ceil[x]
  BY <1>2, <1>7
<1>11. Alike(a, k, b, k)
  BY <1>6, <1>8, <1>9, <1>10 DEF Alike
<1>12. /\ Orderly(b, k, {}) /\ Owned(b, k, {})
       /\ \A u \in Tasks : /\ Exact(a, k, u) => Exact(b, k, u)
                           /\ Lifted(a, k, u) => Lifted(b, k, u)
  BY <1>6, <1>11, AlikeIs
<1>13. Refused(b, k)
  <2>1. ASSUME NEW u \in Tasks PROVE m \notin k.list[u] /\ k.wid[u] # m
    BY <1>6, <1>9, EmptyUnowned, Priorities DEF Owned
  <2>2. ASSUME NEW u \in Tasks, NEW x \in Mutexes, b.attr[x] = "CEILING",
               x \in k.list[u] \/ k.wid[u] = x
        PROVE  k.bpri[u] >= b.ceil[x]
    <3>1. x # m
      BY <2>1, <2>2
    <3>2. b.attr[x] = a.attr[x] /\ b.ceil[x] = a.ceil[x]
      BY <1>10, <3>1
    <3> QED BY <1>6, <2>2, <3>2 DEF Refused
  <2> QED BY <2>2 DEF Refused
<1>14. Steady(b, k, {}, {})
  BY <1>6, <1>12, <1>13 DEF Steady, AllLifted
<1>15. Quiet(a, k) => Quiet(b, k)
  BY <1>12 DEF Quiet, AllExact
<1>16. Safe(b, k, circular)
  BY <1>1, <1>14, <1>15, SteadyIsSafe
<1> QED BY <1>1, <1>2, <1>3, <1>4, <1>8, <1>16, Settles

(* tk_unl_mtx *)
LEMMA UnlockStep ==
    ASSUME Inv, ~Broken, NEW t \in Tasks, NEW m \in Mutexes, tk_unl_mtx(t, m)
    PROVE  Inv' /\ (~circular => \E n : Becomes(n) /\ Passes(Kernel, n))
<1> DEFINE k == Kernel
           f == release_mutex(k, t, m)
           n == HandOver(f, {m})
<1>1. /\ Created \in CreatedType /\ Steady(Created, k, {}, {})
      /\ ~circular => Quiet(Created, k)
  BY Start
<1>2. k.owner[m] = t /\ Becomes(n) /\ UNCHANGED <<created, circular>>
  BY KernelFields DEF tk_unl_mtx
<1> HIDE DEF k
<1>3. Freed(k, m, f)
  BY <1>1, <1>2, ReleaseFrees
<1> HIDE DEF f
<1>4. Steady(Created, f, {}, {m}) /\ Orderly(Created, f, {})
  BY <1>3 DEF Freed, Steady
<1>5. {} \in SUBSET Tasks /\ {m} \in SUBSET Mutexes /\ \A b \in {} : f.wid[b] \notin {m}
  OBVIOUS
<1>6. Steady(Created, n, {}, {})
  BY <1>1, <1>4, <1>5, HandOverSteady
<1>7. ASSUME Quiet(Created, k)
      PROVE  /\ Quiet(Created, f) /\ f.queue[m] = k.queue[m] /\ f.owner = k.owner
  <2>1. f.owner = k.owner
    <3>1. k \in KernelType
      BY <1>1 DEF Steady, Orderly
    <3> QED BY <1>3, <3>1 DEF Freed, Same, KernelType
  <2> QED BY <1>3, <1>7, <2>1 DEF Freed
<1>8. ASSUME Quiet(Created, k) PROVE Quiet(Created, n)
  <2>1. /\ Acyclic(Forward(n))
        /\ \A v \in Tasks : Exact(Created, f, v) => Exact(Created, n, v)
    BY <1>1, <1>4, <1>5, <1>7, <1>8, HandOverQuiet DEF Quiet
  <2> QED BY <1>7, <1>8, <2>1 DEF Quiet, AllExact
<1>9. ASSUME Quiet(Created, k) PROVE Passes(k, n)
  <2>1. \A x \in Mutexes :
            /\ x \notin {m} => n.owner[x] = f.owner[x]
            /\ x \in {m} => n.owner[x] = IF f.queue[x] = <<>> THEN NULL ELSE Head(f.queue[x])
    BY <1>1, <1>4, <1>5, HandOverLeaves
  <2>2. ASSUME NEW x \in Mutexes, n.owner[x] \notin {NULL, k.owner[x]}, attr[x] # "TFIFO"
        PROVE  \A u \in In(k, x) : k.pri[n.owner[x]] <= k.pri[u]
    <3>1. x = m /\ k.queue[m] # <<>> /\ n.owner[x] = Head(k.queue[m])
      BY <1>7, <1>9, <2>1, <2>2
    <3> QED BY <1>1, <2>2, <3>1, HeadPasses DEF Steady
  <2> QED BY <2>2 DEF Passes
<1> HIDE DEF n
<1>10. Safe(Created, n, circular)
  BY <1>1, <1>6, <1>8, SteadyIsSafe
<1>11. Inv'
  BY <1>2, <1>10, StepSettles
<1>12. ~circular => Becomes(n) /\ Passes(Kernel, n)
  BY <1>1, <1>2, <1>9 DEF k
<1> QED BY <1>11, <1>12

(* What the deletion of m leaves of f *)
Deleted(f, m, n) ==
    /\ IsRecord(n) /\ n.bpri = f.bpri /\ n.pri = f.pri /\ n.list = f.list
    /\ n.state = NoLonger(f, In(f, m)) /\ n.wid = ForNothing(f, In(f, m))
    /\ n.queue = [f.queue EXCEPT ![m] = <<>>] /\ n.owner = [f.owner EXCEPT ![m] = NULL]

LEMMA DeleteFields ==
    ASSUME NEW f \in KernelType, NEW m
    PROVE  Deleted(f, m, [wait_delete(f, m) EXCEPT !.owner[m] = NULL])
<1> DEFINE r == NonWait(f, In(f, m))
           d == wait_delete(f, m)
           n == [d EXCEPT !.owner[m] = NULL]
<1>1. IsRecord(f)
  BY Fields DEF IsRecord
<1>2. /\ IsRecord(r) /\ r.state = NoLonger(f, In(f, m)) /\ r.wid = ForNothing(f, In(f, m))
      /\ r.bpri = f.bpri /\ r.queue = f.queue /\ r.owner = f.owner
      /\ r.list = f.list /\ r.pri = f.pri
  BY <1>1, NonWaitIs
<1>3. d = [r EXCEPT !.queue[m] = <<>>]
  BY DEF wait_delete, In
<1> HIDE DEF r, d
<1>4. /\ IsRecord(d) /\ d.state = r.state /\ d.wid = r.wid
      /\ d.bpri = r.bpri /\ d.queue = [r.queue EXCEPT ![m] = <<>>] /\ d.owner = r.owner
      /\ d.list = r.list /\ d.pri = r.pri
  BY <1>2, <1>3 DEF IsRecord
<1>5. n = [d EXCEPT !.owner[m] = NULL]
  OBVIOUS
<1> HIDE DEF n
<1>6. /\ IsRecord(n) /\ n.state = d.state /\ n.wid = d.wid
      /\ n.bpri = d.bpri /\ n.queue = d.queue /\ n.owner = [d.owner EXCEPT ![m] = NULL]
      /\ n.list = d.list /\ n.pri = d.pri
  BY <1>4, <1>5 DEF IsRecord
<1> QED BY <1>2, <1>4, <1>6 DEF Deleted, n, d

LEMMA DeletedIs ==
    ASSUME NEW a \in CreatedType, NEW f, NEW m \in Mutexes, Steady(a, f, {}, {m}),
           NEW n, Deleted(f, m, n), NEW b \in CreatedType,
           \A x \in Mutexes : x # m =>
               b.exists[x] = a.exists[x] /\ b.attr[x] = a.attr[x] /\ b.ceil[x] = a.ceil[x]
    PROVE  Steady(b, n, {}, {}) /\ (Quiet(a, f) => Quiet(b, n))
<1> DEFINE W == In(f, m)
<1>1. /\ f \in KernelType /\ Waiting(f, {}) /\ Queued(f) /\ Sorted(a, f)
      /\ Owned(a, f, {m}) /\ Refused(a, f) /\ AllLifted(a, f) /\ Orderly(a, f, {})
  BY DEF Steady, Orderly
<1>2. /\ f.state \in [Tasks -> States] /\ f.bpri \in [Tasks -> Pri]
      /\ f.pri \in [Tasks -> Pri] /\ f.wid \in [Tasks -> Mutexes \cup {NULL}]
      /\ f.list \in [Tasks -> SUBSET Mutexes]
      /\ f.owner \in [Mutexes -> Tasks \cup {NULL}]
      /\ f.queue \in [Mutexes -> Seq(Tasks)]
  BY <1>1, Fields
<1>3. /\ IsRecord(n) /\ n.bpri = f.bpri /\ n.pri = f.pri /\ n.list = f.list
      /\ n.state = NoLonger(f, W) /\ n.wid = ForNothing(f, W)
      /\ n.queue = [f.queue EXCEPT ![m] = <<>>] /\ n.owner = [f.owner EXCEPT ![m] = NULL]
  BY DEF Deleted
<1>4. ASSUME NEW u \in Tasks PROVE u \in W <=> Waits(f, u) /\ f.wid[u] = m
  BY <1>1 DEF Waiting, Queued
<1> HIDE DEF W
<1>5. ASSUME NEW u \in Tasks
      PROVE  /\ n.state[u] \in States /\ n.wid[u] \in Mutexes \cup {NULL}
             /\ u \notin W => n.state[u] = f.state[u] /\ n.wid[u] = f.wid[u]
             /\ u \in W => n.state[u] \in {"READY", "SUSPEND"} /\ n.wid[u] = NULL
             /\ f.state[u] # "DORMANT" => n.state[u] # "DORMANT"
  BY <1>2, <1>3 DEF NoLonger, ForNothing, States
<1>6. ASSUME NEW u \in Tasks PROVE Waits(n, u) <=> Waits(f, u) /\ u \notin W
  BY <1>5 DEF Waits
<1>7. ASSUME NEW x \in Mutexes, x # m
      PROVE  /\ n.queue[x] = f.queue[x] /\ n.owner[x] = f.owner[x] /\ In(n, x) = In(f, x)
  BY <1>2, <1>3, <1>7 DEF In
<1>8. n.queue[m] = <<>> /\ n.owner[m] = NULL
  BY <1>2, <1>3
<1>9. /\ In(n, m) = {} /\ IsInjective(n.queue[m]) /\ n.queue[m] \in Seq(Tasks)
      /\ SortedBy(n.queue[m], n.pri)
  BY <1>8 DEF In, ToSet, IsInjective, SortedBy
<1>10. n \in KernelType
  <2>1. n.state \in [Tasks -> States] /\ n.wid \in [Tasks -> Mutexes \cup {NULL}]
    <3>1. n.state = [u \in Tasks |-> n.state[u]] /\ n.wid = [u \in Tasks |-> n.wid[u]]
      BY <1>3 DEF NoLonger, ForNothing
    <3> QED BY <1>5, <3>1
  <2>2. n.owner \in [Mutexes -> Tasks \cup {NULL}] /\ n.queue \in [Mutexes -> Seq(Tasks)]
    BY <1>2, <1>3, <1>8, <1>9
  <2> QED BY <1>2, <1>3, <2>1, <2>2, RecordTyped
<1>11. Waiting(n, {})
  <2>1. ASSUME NEW u \in Tasks
        PROVE  IF Waits(n, u)
               THEN /\ n.wid[u] \in Mutexes /\ n.owner[n.wid[u]] \in Tasks \ {u}
                    /\ u \in In(n, n.wid[u])
               ELSE n.wid[u] = NULL
    <3>1. IF Waits(f, u)
          THEN f.wid[u] \in Mutexes /\ f.owner[f.wid[u]] \in Tasks \ {u}
               /\ u \in In(f, f.wid[u])
          ELSE f.wid[u] = NULL
      BY <1>1 DEF Waiting
    <3>2. CASE u \in W
      BY <1>5, <1>6, <3>2
    <3>3. CASE u \notin W
      <4>1. n.wid[u] = f.wid[u] /\ Waits(n, u) = Waits(f, u)
        BY <1>5, <3>3 DEF Waits
      <4>2. CASE ~Waits(f, u)
        BY <3>1, <4>1, <4>2
      <4>3. CASE Waits(f, u)
        <5>1. f.wid[u] # m
          BY <1>4, <3>3, <4>3
        <5> QED BY <1>7, <3>1, <4>1, <4>3, <5>1
      <4> QED BY <4>2, <4>3
    <3> QED BY <3>2, <3>3
  <2> QED BY <2>1 DEF Waiting
<1>12. Queued(n)
  <2>1. ASSUME NEW x \in Mutexes
        PROVE  IsInjective(n.queue[x]) /\ \A u \in In(n, x) : Waits(n, u) /\ n.wid[u] = x
    <3>1. CASE x = m
      BY <1>9, <3>1
    <3>2. CASE x # m
      <4>1. ASSUME NEW u \in In(n, x) PROVE Waits(n, u) /\ n.wid[u] = x
        <5>1. u \in Tasks /\ Waits(f, u) /\ f.wid[u] = x
          BY <1>1, <1>7, <3>2, <4>1, QueueLinked DEF Queued
        <5>2. u \notin W
          BY <1>4, <3>2, <5>1
        <5> QED BY <1>5, <1>6, <5>1, <5>2
      <4> QED BY <1>1, <1>7, <3>2, <4>1 DEF Queued
    <3> QED BY <3>1, <3>2
  <2> QED BY <2>1 DEF Queued
<1>13. Sorted(b, n)
  BY <1>1, <1>3, <1>7, <1>9 DEF Sorted
<1>14. Owned(b, n, {})
  <2>1. ASSUME NEW x \in Mutexes, NEW u \in Tasks PROVE x \in n.list[u] <=> n.owner[x] = u
    <3>1. x \in f.list[u] <=> f.owner[x] = u /\ x # m
      BY <1>1 DEF Owned
    <3> QED BY <1>3, <1>7, <1>8, <3>1, Priorities
  <2>2. ASSUME NEW x \in Mutexes, n.owner[x] # NULL
        PROVE  b.exists[x] /\ n.state[n.owner[x]] # "DORMANT"
    <3>1. x # m /\ n.owner[x] = f.owner[x] /\ f.owner[x] \in Tasks
      BY <1>2, <1>7, <1>8, <2>2
    <3> QED BY <1>1, <1>5, <2>2, <3>1 DEF Owned
  <2> QED BY <2>1, <2>2 DEF Owned
<1>15. ASSUME NEW u \in Tasks, NEW x \in f.list[u]
       PROVE  /\ x \in Mutexes /\ x # m /\ b.attr[x] = a.attr[x] /\ b.ceil[x] = a.ceil[x]
              /\ In(n, x) = In(f, x)
  <2>1. x \in Mutexes
    <3>1. f.list[u] \subseteq Mutexes
      BY <1>2
    <3> QED BY <3>1
  <2>2. x # m
    BY <1>1, <2>1 DEF Owned
  <2> QED BY <1>7, <2>1, <2>2
<1>16. Refused(b, n)
  <2>1. ASSUME NEW u \in Tasks, NEW x \in Mutexes, b.attr[x] = "CEILING",
               x \in n.list[u] \/ n.wid[u] = x
        PROVE  n.bpri[u] >= b.ceil[x]
    <3>1. x # m /\ (x \in f.list[u] \/ f.wid[u] = x)
      <4>1. CASE x \in n.list[u]
        BY <1>3, <1>15, <4>1
      <4>2. CASE n.wid[u] = x
        <5>1. u \notin W /\ f.wid[u] = x
          BY <1>5, <4>2, Priorities
        <5>2. Waits(f, u)
          BY <1>1, <5>1, Priorities DEF Waiting
        <5> QED BY <1>4, <5>1, <5>2
      <4> QED BY <2>1, <4>1, <4>2
    <3> QED BY <1>1, <1>3, <2>1, <3>1 DEF Refused
  <2> QED BY <2>1 DEF Refused
<1>17. AllLifted(b, n)
  BY <1>1, <1>3, <1>15 DEF AllLifted, Lifted, Lifts
<1>18. Steady(b, n, {}, {})
  BY <1>10, <1>11, <1>12, <1>13, <1>14, <1>16, <1>17 DEF Steady, Orderly
<1>19. ASSUME Quiet(a, f) PROVE Quiet(b, n)
  <2>1. Acyclic(Forward(f)) /\ \A u \in Tasks : Exact(a, f, u)
    BY <1>19 DEF Quiet, AllExact
  <2>2. ASSUME NEW u \in Tasks PROVE Forward(n)[u] \in {Forward(f)[u], NULL} \cup {}
    <3>1. /\ Forward(n)[u] = IF Waits(n, u) THEN n.owner[n.wid[u]] ELSE NULL
          /\ Forward(f)[u] = IF Waits(f, u) THEN f.owner[f.wid[u]] ELSE NULL
      BY ForwardIs
    <3>2. CASE ~Waits(n, u)
      BY <3>1, <3>2
    <3>3. CASE Waits(n, u)
      <4>1. Waits(f, u) /\ n.wid[u] = f.wid[u] /\ f.wid[u] # m /\ f.wid[u] \in Mutexes
        BY <1>1, <1>4, <1>5, <1>6, <3>3 DEF Waiting
      <4> QED BY <1>7, <3>1, <3>3, <4>1
    <3> QED BY <3>2, <3>3
  <2>3. \A h \in {} : Forward(n)[h] = NULL
    OBVIOUS
  <2>4. Acyclic(Forward(n))
    BY <2>1, <2>2, <2>3, FewerEdges
  <2>5. ASSUME NEW u \in Tasks PROVE Exact(b, n, u)
    <3>1. \A x \in f.list[u] : /\ b.attr[x] = a.attr[x] /\ b.ceil[x] = a.ceil[x]
                               /\ In(n, x) = In(f, x)
      BY <1>15
    <3> QED BY <1>3, <2>1, <3>1, ClaimsKept
  <2> QED BY <2>4, <2>5 DEF Quiet, AllExact
<1> QED BY <1>18, <1>19

(* tk_del_mtx *)
LEMMA DeleteStep ==
    ASSUME Inv, ~Broken, NEW m \in Mutexes, tk_del_mtx(m)
    PROVE  Inv' /\ \A x \in Mutexes : mtxtsk'[x] \in {NULL, mtxtsk[x]}
<1> DEFINE k == Kernel
           a == Created
           o == k.owner[m]
           f == IF o = NULL THEN k ELSE release_mutex(k, o, m)
           n == [wait_delete(f, m) EXCEPT !.owner[m] = NULL]
           b == [exists |-> exists', attr |-> attr', ceil |-> ceilpri']
<1>1. /\ a \in CreatedType /\ Steady(a, k, {}, {}) /\ circular \in BOOLEAN
      /\ ~circular => Quiet(a, k)
  BY Start
<1>2. /\ b.exists = [a.exists EXCEPT ![m] = FALSE]
      /\ b.attr = [a.attr EXCEPT ![m] = "TFIFO"] /\ b.ceil = [a.ceil EXCEPT ![m] = 0]
      /\ circular' = circular
  BY DEF tk_del_mtx, Created
<1>3. Becomes(n)
  BY KernelFields DEF tk_del_mtx
<1>4. Created' = b
  BY DEF Created
<1>5. b = [exists |-> b.exists, attr |-> b.attr, ceil |-> b.ceil]
  OBVIOUS
<1>6. mtxtsk = k.owner
  BY KernelFields
<1> HIDE DEF k, a, b
<1>7. a = Created
  BY DEF a
<1>8. k \in KernelType /\ Owned(a, k, {}) /\ o \in Tasks \cup {NULL}
      /\ k.owner \in [Mutexes -> Tasks \cup {NULL}]
  BY <1>1, Fields DEF Steady, Orderly
<1>9. Steady(a, f, {}, {m}) /\ (Quiet(a, k) => Quiet(a, f)) /\ f.owner = k.owner
  <2>1. CASE o = NULL
    <3>1. Owned(a, k, {m})
      BY <1>8, <2>1, Priorities DEF Owned
    <3> QED BY <1>1, <2>1, <3>1 DEF Steady
  <2>2. CASE o # NULL
    <3> DEFINE r == release_mutex(k, o, m)
    <3>1. o \in Tasks
      BY <1>8, <2>2
    <3>2. Freed(k, m, r)
      BY <1>1, <1>7, <3>1, ReleaseFrees
    <3> HIDE DEF r
    <3>3. r.owner = k.owner
      BY <1>8, <3>2 DEF Freed, Same, KernelType
    <3>4. f = r
      BY <2>2 DEF r
    <3> QED BY <1>7, <3>2, <3>3, <3>4 DEF Freed
  <2> QED BY <2>1, <2>2
<1> HIDE DEF f, o
<1>10. f \in KernelType
  BY <1>9 DEF Steady, Orderly
<1>11. Deleted(f, m, n)
  BY <1>10, DeleteFields
<1> HIDE DEF n
<1>12. /\ a.exists \in [Mutexes -> BOOLEAN] /\ a.attr \in [Mutexes -> Attributes]
       /\ a.ceil \in [Mutexes -> Pri]
  BY <1>1 DEF CreatedType
<1>13. b \in CreatedType
  <2>1. b.exists \in [Mutexes -> BOOLEAN] /\ b.attr \in [Mutexes -> Attributes]
    BY <1>2, <1>12 DEF Attributes
  <2>2. b.ceil \in [Mutexes -> Pri]
    BY <1>2, <1>12, Priorities
  <2> QED BY <1>5, <2>1, <2>2 DEF CreatedType
<1>14. \A x \in Mutexes : x # m =>
          b.exists[x] = a.exists[x] /\ b.attr[x] = a.attr[x] /\ b.ceil[x] = a.ceil[x]
  BY <1>2, <1>12
<1>15. Steady(b, n, {}, {}) /\ (Quiet(a, f) => Quiet(b, n))
  BY <1>1, <1>9, <1>11, <1>13, <1>14, DeletedIs
<1>16. Safe(b, n, circular)
  BY <1>1, <1>9, <1>15, SteadyIsSafe
<1>17. Inv'
  BY <1>1, <1>2, <1>3, <1>4, <1>13, <1>16, Settles
<1>18. \A x \in Mutexes : mtxtsk'[x] \in {NULL, mtxtsk[x]}
  <2>1. mtxtsk' = [mtxtsk EXCEPT ![m] = NULL]
    BY <1>3, <1>6, <1>9, <1>11 DEF Becomes, Deleted
  <2> QED BY <1>6, <1>8, <2>1
<1> QED BY <1>17, <1>18

-----------------------------------------------------------------------------
(* t gets the free mutex m. *)
Taken(k, t, m, n) ==
    /\ n \in KernelType /\ n.state = k.state /\ n.bpri = k.bpri /\ n.pri = k.pri
    /\ n.wid = k.wid /\ n.queue = k.queue
    /\ n.owner = [k.owner EXCEPT ![m] = t]
    /\ n.list = [k.list EXCEPT ![t] = k.list[t] \cup {m}]

LEMMA TakenIs ==
    ASSUME Created \in CreatedType, NEW k, Steady(Created, k, {}, {}),
           NEW t \in Tasks, NEW m \in Mutexes, k.owner[m] = NULL,
           k.state[t] # "DORMANT", exists[m],
           attr[m] = "CEILING" => k.bpri[t] >= ceilpri[m],
           NEW n, Taken(k, t, m, n)
    PROVE  /\ Orderly(Created, n, {}) /\ Owned(Created, n, {}) /\ Refused(Created, n)
           /\ Forward(n) = Forward(k)
           /\ \A u \in Tasks \ {t} : /\ Lifted(Created, n, u)
                                     /\ Exact(Created, k, u) => Exact(Created, n, u)
           /\ \A p : Lifts(Created, k, t, p) /\ (attr[m] = "CEILING" => p <= ceilpri[m])
                     => Lifts(Created, n, t, p)
           /\ Claims(Created, n, t) = Claims(Created, k, t) \cup
                    (IF attr[m] = "CEILING" THEN {ceilpri[m]} ELSE {})
<1>1. /\ k \in KernelType /\ Waiting(k, {}) /\ Queued(k) /\ Sorted(Created, k)
      /\ Owned(Created, k, {}) /\ Orderly(Created, k, {}) /\ Refused(Created, k)
      /\ AllLifted(Created, k)
  BY DEF Steady, Orderly
<1>2. /\ n \in KernelType /\ n.state = k.state /\ n.bpri = k.bpri /\ n.pri = k.pri
      /\ n.wid = k.wid /\ n.queue = k.queue
      /\ n.owner = [k.owner EXCEPT ![m] = t]
      /\ n.list = [k.list EXCEPT ![t] = k.list[t] \cup {m}]
  BY DEF Taken
<1>3. /\ k.owner \in [Mutexes -> Tasks \cup {NULL}]
      /\ k.list \in [Tasks -> SUBSET Mutexes]
  BY <1>1, Fields
<1>4. /\ n.owner[m] = t /\ \A x \in Mutexes : x # m => n.owner[x] = k.owner[x]
      /\ n.list[t] = k.list[t] \cup {m}
      /\ \A u \in Tasks : u # t => n.list[u] = k.list[u]
  BY <1>2, <1>3
<1>5. t # NULL
  BY Priorities
<1>6. In(k, m) = {} /\ \A u \in Tasks : k.wid[u] # m
  BY <1>1, <1>5, EmptyUnowned, Priorities
<1>7. \A u \in Tasks : Waits(n, u) = Waits(k, u)
  BY <1>2 DEF Waits
<1>8. \A x \in Mutexes : In(n, x) = In(k, x) /\ In(k, x) \subseteq Tasks
  BY <1>1, <1>2, QueueLinked DEF In
<1>9. Waiting(n, {})
  BY <1>1, <1>2, <1>4, <1>6, <1>7, <1>8 DEF Waiting
<1>10. Queued(n)
  BY <1>1, <1>2, <1>7, <1>8 DEF Queued
<1>11. Orderly(Created, n, {})
  BY <1>1, <1>2, <1>9, <1>10 DEF Orderly, Sorted
<1>12. Owned(Created, n, {})
  <2>1. Created.exists[m]
    BY DEF Created
  <2>2. ASSUME NEW x \in Mutexes, NEW u \in Tasks
        PROVE  x \in n.list[u] <=> n.owner[x] = u
    <3>1. x \in k.list[u] <=> k.owner[x] = u
      BY <1>1 DEF Owned
    <3>2. k.owner[m] # u
      BY Priorities
    <3> QED BY <1>4, <3>1, <3>2
  <2>3. ASSUME NEW x \in Mutexes, n.owner[x] # NULL
        PROVE  Created.exists[x] /\ n.state[n.owner[x]] # "DORMANT"
    BY <1>1, <1>2, <1>4, <2>1, <2>3 DEF Owned
  <2> QED BY <2>2, <2>3 DEF Owned
<1>13. Refused(Created, n)
  <2>1. Created.attr[m] = "CEILING" => k.bpri[t] >= Created.ceil[m]
    BY DEF Created
  <2>2. ASSUME NEW u \in Tasks, NEW x \in Mutexes, Created.attr[x] = "CEILING",
               x \in n.list[u] \/ n.wid[u] = x
        PROVE  n.bpri[u] >= Created.ceil[x]
    <3>1. CASE u = t /\ x = m
      BY <1>2, <2>1, <2>2, <3>1
    <3>2. CASE ~(u = t /\ x = m)
      <4>1. x \in k.list[u] \/ k.wid[u] = x
        BY <1>2, <1>4, <2>2, <3>2
      <4> QED BY <1>1, <1>2, <2>2, <4>1 DEF Refused
    <3> QED BY <3>1, <3>2
  <2> QED BY <2>2 DEF Refused
<1>14. Forward(n) = Forward(k)
  <2>1. ASSUME NEW u \in Tasks, Waits(k, u) PROVE n.owner[n.wid[u]] = k.owner[k.wid[u]]
    BY <1>1, <1>2, <1>4, <1>6, <2>1 DEF Waiting
  <2> QED BY <1>7, <2>1 DEF Forward
<1>15. ASSUME NEW u \in Tasks \ {t}
       PROVE  /\ Lifted(Created, n, u)
              /\ Exact(Created, k, u) => Exact(Created, n, u)
  <2>1. Lifted(Created, n, u)
    BY <1>1, <1>2, <1>4 DEF AllLifted, Lifted, Lifts
  <2>2. n.bpri[u] = k.bpri[u] /\ n.list[u] = k.list[u] /\ k.list[u] \subseteq Mutexes
    BY <1>2, <1>3, <1>4
  <2>3. Exact(Created, k, u) => Exact(Created, n, u)
    BY <1>2, <1>8, <2>2, ClaimsKept
  <2> QED BY <2>1, <2>3
<1>16. ASSUME NEW p, Lifts(Created, k, t, p), attr[m] = "CEILING" => p <= ceilpri[m]
       PROVE  Lifts(Created, n, t, p)
  BY <1>4, <1>16 DEF Lifts, Created
<1>17. Claims(Created, n, t) = Claims(Created, k, t) \cup
                    (IF attr[m] = "CEILING" THEN {ceilpri[m]} ELSE {})
  <2>1. Followers(Created, n, t) = Followers(Created, k, t)
    <3>1. k.list[t] \subseteq Mutexes
      BY <1>3
    <3> QED BY <1>4, <1>6, <1>8, <3>1 DEF Followers
  <2>2. OwnClaims(Created, n, t) = OwnClaims(Created, k, t) \cup
                    (IF attr[m] = "CEILING" THEN {ceilpri[m]} ELSE {})
    <3>1. Created.attr[m] = attr[m] /\ Created.ceil[m] = ceilpri[m]
      BY DEF Created
    <3> QED BY <1>2, <1>4, <3>1 DEF OwnClaims
  <2> QED BY <1>2, <2>1, <2>2 DEF Claims
<1> QED BY <1>11, <1>12, <1>13, <1>14, <1>15, <1>16, <1>17

(* tk_loc_mtx when the mutex is free *)
LEMMA TakeStep ==
    ASSUME Inv, ~Broken, NEW t \in Tasks, NEW m \in Mutexes, Take(t, m)
    PROVE  /\ Inv'
           /\ mtxtsk[m] = NULL
           /\ \A x \in Mutexes : x # m => mtxtsk'[x] = mtxtsk[x]
<1> DEFINE k == Kernel
           own == [Kernel EXCEPT !.owner[m] = t, !.list[t] = @ \cup {m}]
           up == attr[m] = "CEILING" /\ priority[t] > ceilpri[m]
           n == IF up THEN change_task_priority(own, t, ceilpri[m]) ELSE own
<1>1. /\ Created \in CreatedType /\ Steady(Created, k, {}, {})
      /\ ~circular => Quiet(Created, k)
  BY Start
<1>2. /\ k.state[t] # "DORMANT" /\ k.owner[m] = NULL /\ exists[m]
      /\ attr[m] = "CEILING" => k.bpri[t] >= ceilpri[m]
      /\ Becomes(n) /\ UNCHANGED <<created, circular>>
      /\ up <=> attr[m] = "CEILING" /\ k.pri[t] > ceilpri[m]
  BY KernelFields DEF Take, MayLock, Dispatched, Running
<1>3. mtxtsk[m] = NULL /\ \A x \in Mutexes : k.owner[x] = mtxtsk[x]
  BY <1>2, KernelFields
<1>4. own = [k EXCEPT !.owner[m] = t, !.list[t] = @ \cup {m}]
  OBVIOUS
<1> HIDE DEF k
<1>5. k \in KernelType /\ AllLifted(Created, k) /\ ceilpri[m] \in Pri
  BY <1>1, KernelFields DEF Steady, Orderly, CreatedType
<1>6. Taken(k, t, m, own)
  <2>1. /\ own.state = k.state /\ own.bpri = k.bpri /\ own.pri = k.pri
        /\ own.wid = k.wid /\ own.queue = k.queue
        /\ own.owner = [k.owner EXCEPT ![m] = t]
        /\ own.list = [k.list EXCEPT ![t] = k.list[t] \cup {m}]
        /\ IsRecord(own)
    <3>1. IsRecord(k)
      BY <1>5, Fields DEF IsRecord
    <3> HIDE DEF own
    <3> QED BY <1>4, <3>1 DEF IsRecord
  <2> HIDE DEF own
  <2>2. own.owner \in [Mutexes -> Tasks \cup {NULL}] /\ own.list \in [Tasks -> SUBSET Mutexes]
    BY <1>5, <2>1, Fields
  <2>3. own \in KernelType
    BY <1>5, <2>1, <2>2, Fields, RecordTyped
  <2> QED BY <2>1, <2>3 DEF Taken
<1> HIDE DEF own
<1>7. /\ Orderly(Created, own, {}) /\ Owned(Created, own, {}) /\ Refused(Created, own)
      /\ Forward(own) = Forward(k)
      /\ \A u \in Tasks \ {t} : /\ Lifted(Created, own, u)
                                /\ Exact(Created, k, u) => Exact(Created, own, u)
      /\ \A p : Lifts(Created, k, t, p) /\ (attr[m] = "CEILING" => p <= ceilpri[m])
                => Lifts(Created, own, t, p)
      /\ Claims(Created, own, t) = Claims(Created, k, t) \cup
               (IF attr[m] = "CEILING" THEN {ceilpri[m]} ELSE {})
  BY <1>1, <1>2, <1>6, TakenIs
<1>8. /\ own.pri = k.pri /\ own.owner = [k.owner EXCEPT ![m] = t]
      /\ k.pri[t] \in Pri /\ k.pri[t] \in Nat /\ ceilpri[m] \in Nat
      /\ k.owner \in [Mutexes -> Tasks \cup {NULL}]
  BY <1>5, <1>6, Fields, Priorities DEF Taken
<1>9. Lifts(Created, k, t, k.pri[t])
  BY <1>5 DEF AllLifted, Lifted
<1>10. CASE up
  <2> DEFINE p == ceilpri[m]
  <2>1. n = change_task_priority(own, t, p) /\ p < k.pri[t] /\ attr[m] = "CEILING"
    BY <1>2, <1>8, <1>10
  <2>2. Lifts(Created, k, t, p)
    <3>1. \A x \in k.list[t] : Created.ceil[x] \in Nat
      BY <1>1, <1>5, Fields, Priorities DEF CreatedType
    <3> QED BY <1>8, <1>9, <2>1, <3>1 DEF Lifts
  <2>3. Lifts(Created, own, t, p)
    BY <1>7, <1>8, <2>2
  <2> HIDE DEF n
  <2>4. Kept(own, {}, n) /\ AllLifted(Created, n)
    BY <1>1, <1>5, <1>7, <2>1, <2>3, ChangeIs DEF AllLifted
  <2>5. Steady(Created, n, {}, {}) /\ Forward(n) = Forward(own) /\ n.owner = own.owner
    BY <1>7, <2>4, SameSteady DEF Kept, Same
  <2>6. ASSUME Quiet(Created, k) PROVE Quiet(Created, n)
    <3>1. Acyclic(Forward(own)) /\ \A u \in Tasks \ {t} : Exact(Created, own, u)
      BY <1>7, <2>6 DEF Quiet, AllExact
    <3>2. {} \in SUBSET Tasks /\ \A x \in {} : own.owner[x] \in {NULL, t}
      OBVIOUS
    <3>3. Calm(own, t, {}, Forward(own))
      BY <1>7, <3>1, <3>2, CalmStart
    <3>4. PICK V : Calmed(own, t, p, {}, Forward(own), n, V)
      BY <1>1, <1>5, <2>1, <3>3, CallsEnd
    <3>5. Least(p, Claims(Created, own, t))
      <4>1. Least(k.pri[t], Claims(Created, k, t)) /\ Claims(Created, k, t) \subseteq Nat
        BY <1>1, <1>5, <2>6, ClaimsTyped, Priorities DEF Quiet, AllExact, Exact
      <4>2. Claims(Created, own, t) = Claims(Created, k, t) \cup {p}
        BY <1>7, <2>1
      <4> QED BY <1>8, <2>1, <4>1, <4>2 DEF Least
    <3>6. AllExact(Created, n)
      BY <3>3, <3>4, <3>5, CalmedExact
    <3> QED BY <2>5, <3>1, <3>6 DEF Quiet
  <2>7. Safe(Created, n, circular)
    BY <1>1, <2>5, <2>6, SteadyIsSafe
  <2>8. Inv'
    BY <1>2, <2>7, StepSettles
  <2>9. mtxtsk' = own.owner
    BY <1>2, <2>5 DEF Becomes
  <2> QED BY <1>3, <1>8, <2>8, <2>9
<1>11. CASE ~up
  <2>1. n = own /\ (attr[m] = "CEILING" => k.pri[t] <= ceilpri[m])
    BY <1>2, <1>8, <1>11
  <2> HIDE DEF n
  <2>2. Lifted(Created, own, t)
    BY <1>7, <1>8, <1>9, <2>1 DEF Lifted
  <2>3. Steady(Created, n, {}, {})
    BY <1>7, <2>1, <2>2 DEF Steady, AllLifted
  <2>4. ASSUME Quiet(Created, k) PROVE Quiet(Created, n)
    <3>1. Exact(Created, own, t)
      BY <1>7, <1>8, <2>1, <2>4 DEF Quiet, AllExact, Exact, Least
    <3> QED BY <1>7, <2>1, <2>4, <3>1 DEF Quiet, AllExact
  <2>5. Safe(Created, n, circular)
    BY <1>1, <2>3, <2>4, SteadyIsSafe
  <2>6. Inv'
    BY <1>2, <2>5, StepSettles
  <2>7. mtxtsk' = own.owner
    BY <1>2, <2>1 DEF Becomes
  <2> QED BY <1>3, <1>8, <2>6, <2>7
<1> QED BY <1>10, <1>11

-----------------------------------------------------------------------------
(* t begins to wait for m. *)
Entered(k, t, m, n) ==
    /\ n \in KernelType /\ n.bpri = k.bpri /\ n.pri = k.pri /\ n.list = k.list
    /\ n.owner = k.owner
    /\ n.state = [k.state EXCEPT ![t] = "WAIT"]
    /\ n.wid = [k.wid EXCEPT ![t] = m]
    /\ Linked(Tasks, n.queue[m], In(k, m) \cup {t})
    /\ attr[m] # "TFIFO" => SortedBy(n.queue[m], n.pri)
    /\ \A x \in Mutexes : x # m => n.queue[x] = k.queue[x]

LEMMA EnqueueEnters ==
    ASSUME Created \in CreatedType, NEW k, Orderly(Created, k, {}),
           NEW t \in Tasks, NEW m \in Mutexes, k.state[t] = "READY"
    PROVE  Entered(k, t, m, Enqueue(k, t, m))
<1> DEFINE q == IF attr[m] = "TFIFO" THEN Append(k.queue[m], t)
                ELSE queue_insert_tpri(k.queue[m], t, k.pri)
           n == Enqueue(k, t, m)
<1>1. k \in KernelType /\ Queued(k) /\ Sorted(Created, k)
  BY DEF Orderly
<1>2. /\ k.state \in [Tasks -> States] /\ k.pri \in [Tasks -> Pri]
      /\ k.wid \in [Tasks -> Mutexes \cup {NULL}]
      /\ k.queue \in [Mutexes -> Seq(Tasks)]
  BY <1>1, Fields
<1>3. t \notin In(k, m)
  BY <1>1 DEF Queued, Waits
<1>4. Linked(Tasks, k.queue[m], In(k, m))
  BY <1>1, QueueLinked
<1>5. Linked(Tasks, q, In(k, m) \cup {t}) /\ (attr[m] # "TFIFO" => SortedBy(q, k.pri))
  <2>1. CASE attr[m] = "TFIFO"
    BY <1>3, <1>4, <2>1, AppendLinked
  <2>2. CASE attr[m] # "TFIFO"
    <3>1. SortedBy(k.queue[m], k.pri)
      BY <1>1, <2>2 DEF Sorted, Created
    <3> QED BY <1>2, <1>3, <1>4, <2>2, <3>1, InsertInOrder
  <2> QED BY <2>1, <2>2
<1>6. n = [k EXCEPT !.state[t] = "WAIT", !.wid[t] = m, !.queue[m] = q]
  BY DEF Enqueue
<1> HIDE DEF q, n
<1>7. /\ n.bpri = k.bpri /\ n.pri = k.pri /\ n.list = k.list /\ n.owner = k.owner
      /\ n.state = [k.state EXCEPT ![t] = "WAIT"]
      /\ n.wid = [k.wid EXCEPT ![t] = m]
      /\ n.queue = [k.queue EXCEPT ![m] = q]
      /\ IsRecord(n)
  <2>1. IsRecord(k)
    BY <1>1, Fields DEF IsRecord
  <2> QED BY <1>6, <2>1 DEF IsRecord
<1>8. n \in KernelType
  <2>1. n.state \in [Tasks -> States] /\ n.wid \in [Tasks -> Mutexes \cup {NULL}]
    BY <1>2, <1>7 DEF States
  <2>2. n.queue \in [Mutexes -> Seq(Tasks)]
    BY <1>2, <1>5, <1>7 DEF Linked
  <2> QED BY <1>1, <1>7, <2>1, <2>2, Fields, RecordTyped
<1>9. n.queue[m] = q /\ \A x \in Mutexes : x # m => n.queue[x] = k.queue[x]
  BY <1>2, <1>7
<1>10. Entered(k, t, m, n)
  BY <1>5, <1>7, <1>8, <1>9 DEF Entered
<1> QED BY <1>10 DEF n

LEMMA EnteredIs ==
    ASSUME Created \in CreatedType, NEW k, Steady(Created, k, {}, {}),
           NEW t \in Tasks, NEW m \in Mutexes, k.state[t] = "READY",
           k.owner[m] \in Tasks \ {t},
           attr[m] = "CEILING" => k.bpri[t] >= ceilpri[m],
           NEW n, Entered(k, t, m, n)
    PROVE  /\ Steady(Created, n, {}, {})
           /\ Forward(n) = [Forward(k) EXCEPT ![t] = k.owner[m]]
           /\ \A x \in Mutexes : In(n, x) = IF x = m THEN In(k, x) \cup {t} ELSE In(k, x)
<1>1. /\ k \in KernelType /\ Waiting(k, {}) /\ Queued(k) /\ Sorted(Created, k)
      /\ Owned(Created, k, {}) /\ Refused(Created, k) /\ AllLifted(Created, k)
  BY DEF Steady, Orderly
<1>2. /\ n \in KernelType /\ n.bpri = k.bpri /\ n.pri = k.pri /\ n.list = k.list
      /\ n.owner = k.owner
      /\ n.state = [k.state EXCEPT ![t] = "WAIT"]
      /\ n.wid = [k.wid EXCEPT ![t] = m]
      /\ Linked(Tasks, n.queue[m], In(k, m) \cup {t})
      /\ attr[m] # "TFIFO" => SortedBy(n.queue[m], n.pri)
      /\ \A x \in Mutexes : x # m => n.queue[x] = k.queue[x]
  BY DEF Entered
<1>3. k.state \in [Tasks -> States] /\ k.wid \in [Tasks -> Mutexes \cup {NULL}]
  BY <1>1, Fields
<1>4. /\ n.state[t] = "WAIT" /\ n.wid[t] = m
      /\ \A u \in Tasks : u # t => n.state[u] = k.state[u] /\ n.wid[u] = k.wid[u]
  BY <1>2, <1>3
<1>5. /\ Waits(n, t) /\ ~Waits(k, t)
      /\ \A u \in Tasks : u # t => Waits(n, u) = Waits(k, u)
  BY <1>4 DEF Waits
<1>6. \A x \in Mutexes : In(n, x) = IF x = m THEN In(k, x) \cup {t} ELSE In(k, x)
  BY <1>2 DEF In, Linked
<1>7. Waiting(n, {})
  <2>1. ASSUME NEW u \in Tasks
        PROVE  IF Waits(n, u)
               THEN /\ n.wid[u] \in Mutexes /\ n.owner[n.wid[u]] \in Tasks \ {u}
                    /\ u \notin {} => u \in In(n, n.wid[u])
               ELSE n.wid[u] = NULL
    <3>1. CASE u = t
      BY <1>2, <1>4, <1>5, <1>6, <3>1
    <3>2. CASE u # t
      BY <1>1, <1>2, <1>4, <1>5, <1>6, <3>2 DEF Waiting
    <3> QED BY <3>1, <3>2
  <2> QED BY <2>1 DEF Waiting
<1>8. Queued(n)
  <2>1. ASSUME NEW x \in Mutexes
        PROVE  IsInjective(n.queue[x]) /\ \A u \in In(n, x) : Waits(n, u) /\ n.wid[u] = x
    <3>1. In(k, x) \subseteq Tasks /\ t \notin In(k, x)
      BY <1>1, <1>5, QueueLinked DEF Queued
    <3>2. IsInjective(n.queue[x])
      BY <1>1, <1>2 DEF Queued, Linked
    <3> QED BY <1>1, <1>4, <1>5, <1>6, <3>1, <3>2 DEF Queued
  <2> QED BY <2>1 DEF Queued
<1>9. Sorted(Created, n)
  BY <1>1, <1>2 DEF Sorted, Created
<1>10. Owned(Created, n, {})
  <2>1. \A u \in Tasks : k.state[u] # "DORMANT" => n.state[u] # "DORMANT"
    BY <1>4
  <2>2. k.owner \in [Mutexes -> Tasks \cup {NULL}]
    BY <1>1, Fields
  <2> QED BY <1>1, <1>2, <2>1, <2>2 DEF Owned
<1>11. Refused(Created, n)
  <2>1. Created.attr[m] = "CEILING" => k.bpri[t] >= Created.ceil[m]
    BY DEF Created
  <2> QED BY <1>1, <1>2, <1>4, <2>1 DEF Refused
<1>12. AllLifted(Created, n)
  BY <1>1, <1>2 DEF AllLifted, Lifted, Lifts
<1>13. Forward(n) = [Forward(k) EXCEPT ![t] = k.owner[m]]
  <2>1. ASSUME NEW u \in Tasks
        PROVE  (IF Waits(n, u) THEN n.owner[n.wid[u]] ELSE NULL)
                = IF u = t THEN k.owner[m]
                  ELSE IF Waits(k, u) THEN k.owner[k.wid[u]] ELSE NULL
    BY <1>2, <1>4, <1>5
  <2> QED BY <2>1 DEF Forward
<1> QED BY <1>2, <1>6, <1>7, <1>8, <1>9, <1>10, <1>11, <1>12, <1>13 DEF Steady, Orderly

(* The owner is raised first. *)
LEMMA RaiseSteady ==
    ASSUME Created \in CreatedType, NEW k, Steady(Created, k, {}, {}),
           NEW t \in Tasks, NEW m \in Mutexes, k.owner[m] \in Tasks
    PROVE  /\ Steady(Created, RaiseOwner(k, t, m), {}, {})
           /\ Same(k, RaiseOwner(k, t, m))
           /\ Forward(RaiseOwner(k, t, m)) = Forward(k)
<1> DEFINE o == k.owner[m]
           n == RaiseOwner(k, t, m)
<1>1. /\ k \in KernelType /\ Orderly(Created, k, {})
      /\ Owned(Created, k, {}) /\ Refused(Created, k) /\ AllLifted(Created, k)
  BY DEF Steady, Orderly
<1>2. CASE attr[m] = "INHERIT" /\ k.pri[o] > k.pri[t]
  <2>1. n = change_task_priority(k, o, k.pri[t])
    BY <1>2 DEF RaiseOwner
  <2>2. k.pri[t] \in Pri /\ k.pri[t] \in Nat /\ k.pri[o] \in Nat
    BY <1>1, Fields, Priorities
  <2>3. Lifts(Created, k, o, k.pri[t])
    <3>1. \A x \in k.list[o] : Created.ceil[x] \in Nat
      BY <1>1, Fields, Priorities DEF CreatedType
    <3> QED BY <1>1, <1>2, <2>2, <3>1 DEF AllLifted, Lifted, Lifts
  <2> DEFINE p == k.pri[t]
  <2>4. /\ p \in Pri /\ Lifts(Created, k, o, p) /\ n = change_task_priority(k, o, p)
        /\ \A u \in Tasks \ {o} : Lifted(Created, k, u)
    BY <1>1, <2>1, <2>2, <2>3 DEF AllLifted
  <2> HIDE DEF n, o, p
  <2>5. o \in Tasks
    BY DEF o
  <2>6. Kept(k, {}, n) /\ AllLifted(Created, n)
    BY <1>1, <2>4, <2>5, ChangeIs DEF AllLifted
  <2>7. Steady(Created, n, {}, {}) /\ Same(k, n) /\ Forward(n) = Forward(k)
    BY <1>1, <2>6, SameSteady DEF Kept
  <2> QED BY <2>7 DEF n
<1>3. CASE ~(attr[m] = "INHERIT" /\ k.pri[o] > k.pri[t])
  <2>1. n = k
    BY <1>3 DEF RaiseOwner
  <2> QED BY <2>1, SameRefl
<1> QED BY <1>2, <1>3

(* The raise comes to the owner and those it waits for, never to t or to   *)
(* the other tasks that wait for the owner.                                *)
LEMMA EnterQuiet ==
    ASSUME Created \in CreatedType, NEW k, Steady(Created, k, {}, {}),
           Quiet(Created, k),
           NEW t \in Tasks, NEW m \in Mutexes, k.owner[m] \in Tasks \ {t}, ~Waits(k, t),
           NEW n, Steady(Created, n, {}, {}),
           Entered(RaiseOwner(k, t, m), t, m, n),
           \A x \in Mutexes : In(n, x) = IF x = m THEN In(RaiseOwner(k, t, m), x) \cup {t}
                                         ELSE In(RaiseOwner(k, t, m), x),
           Acyclic([Forward(k) EXCEPT ![t] = k.owner[m]])
    PROVE  AllExact(Created, n)
<1> DEFINE o == k.owner[m]
           r == RaiseOwner(k, t, m)
           E == [Forward(k) EXCEPT ![t] = o]
           up == attr[m] = "INHERIT" /\ k.pri[o] > k.pri[t]
           p == k.pri[t]
<1>1. /\ k \in KernelType /\ Orderly(Created, k, {}) /\ Waiting(k, {})
      /\ Owned(Created, k, {}) /\ AllExact(Created, k)
  BY DEF Steady, Orderly, Quiet
<1>2. /\ Same(k, r) /\ r \in KernelType /\ Steady(Created, r, {}, {})
  BY RaiseSteady DEF Steady, Orderly
<1>3. o \in Tasks /\ o # t /\ Acyclic(E)
  OBVIOUS
<1>4. r = IF up THEN change_task_priority(k, o, p) ELSE k
  BY DEF RaiseOwner
<1>5. /\ n.bpri = r.bpri /\ n.pri = r.pri /\ n.list = r.list
      /\ \A x \in Mutexes : In(n, x) = IF x = m THEN In(r, x) \cup {t} ELSE In(r, x)
  BY DEF Entered
<1> HIDE DEF r
<1>6. /\ n.bpri = k.bpri /\ n.list = k.list
      /\ k.list \in [Tasks -> SUBSET Mutexes]
      /\ p \in Pri /\ p \in Nat /\ k.pri[o] \in Nat
      /\ k.owner \in [Mutexes -> Tasks \cup {NULL}]
  BY <1>1, <1>2, <1>3, <1>5, Fields, Priorities DEF Same
<1>7. \A u \in Tasks : \A x \in k.list[u] : k.owner[x] = u
  BY <1>1, <1>6 DEF Owned
<1>8. /\ m \in k.list[o]
      /\ \A u \in Tasks : u # o => m \notin k.list[u]
  BY <1>1, <1>3 DEF Owned
(* What is left to show of the raise *)
<1>9. /\ \A u \in Tasks \ {o} : Exact(Created, r, u)
      /\ r.pri[t] = p /\ r.pri[o] = IF up THEN p ELSE k.pri[o]
      /\ Claims(Created, r, o) = Claims(Created, k, o)
  <2>1. CASE ~up
    <3>1. r = k
      BY <1>4, <2>1
    <3> QED BY <1>1, <2>1, <3>1 DEF AllExact
  <2>2. CASE up
    <3>1. r = change_task_priority(k, o, p)
      BY <1>4, <2>2
    <3>2. E \in [Tasks -> Tasks \cup {NULL}]
          /\ E[t] = o /\ \A u \in Tasks : Waits(k, u) => E[u] = k.owner[k.wid[u]]
      <4>1. Forward(k) \in [Tasks -> Tasks \cup {NULL}]
        BY <1>1, <1>6 DEF Forward, Waiting
      <4>2. \A u \in Tasks : Waits(k, u) => Forward(k)[u] = k.owner[k.wid[u]]
        BY ForwardIs
      <4> QED BY <1>3, <4>1, <4>2
    <3> HIDE DEF E
    <3>3. Orderly(Created, k, {t})
      BY <1>1 DEF Orderly, Waiting
    <3>4. \A x \in Mutexes : k.owner[x] \notin {NULL, o} => x \in k.list[k.owner[x]]
      BY <1>1, <1>6 DEF Owned
    <3>5. Calm(k, o, {t}, E)
      BY <1>1, <1>3, <1>7, <3>2, <3>3, <3>4 DEF Calm, Edges, AllExact
    <3> HIDE DEF o, p
    <3>6. PICK V : Calmed(k, o, p, {t}, E, r, V)
      BY <1>6, <3>1, <3>5, CallsEnd
    <3>7. /\ Touched(k, r, V) /\ t \notin V /\ r.pri[o] = p
          /\ \A u \in Tasks \ {o} : Exact(Created, r, u)
      BY <3>6 DEF Calmed
    <3>8. r.pri[t] = p
      BY <3>7 DEF Touched, p
    <3>9. Claims(Created, r, o) = Claims(Created, k, o)
      BY <3>5, <3>6, CalmedClaims
    <3> QED BY <2>2, <3>7, <3>8, <3>9
  <2> QED BY <2>1, <2>2
<1>10. ASSUME NEW u \in Tasks \ {o} PROVE Exact(Created, n, u)
  <2>1. /\ n.bpri[u] = r.bpri[u] /\ n.list[u] = r.list[u] /\ r.list[u] \subseteq Mutexes
        /\ m \notin r.list[u]
    BY <1>2, <1>5, <1>6, <1>8 DEF Same
  <2>2. \A x \in r.list[u] : In(n, x) = In(r, x)
    BY <1>5, <2>1
  <2>3. n.pri[u] = r.pri[u] /\ \A v \in Followers(Created, r, u) : n.pri[v] = r.pri[v]
    BY <1>5
  <2> QED BY <1>9, <2>1, <2>2, <2>3, ClaimsKept
<1>11. Exact(Created, n, o)
  <2> DEFINE more == IF attr[m] = "INHERIT" THEN {p} ELSE {}
  <2>1. Claims(Created, n, o) = Claims(Created, r, o) \cup more
    <3>1. r.list[o] \subseteq Mutexes /\ m \in r.list[o]
      BY <1>2, <1>3, <1>6, <1>8 DEF Same
    <3>2. OwnClaims(Created, n, o) = OwnClaims(Created, r, o)
      BY <1>5 DEF OwnClaims
    <3>3. Followers(Created, n, o) = Followers(Created, r, o) \cup
                (IF attr[m] = "INHERIT" THEN {t} ELSE {})
      <4>1. Created.attr[m] = attr[m]
        BY DEF Created
      <4> QED BY <1>5, <3>1, <4>1 DEF Followers
    <3>4. n.pri = r.pri /\ r.pri[t] = p
      BY <1>5, <1>9
    <3> QED BY <3>2, <3>3, <3>4 DEF Claims
  <2>2. Claims(Created, n, o) = Claims(Created, k, o) \cup more
    BY <1>9, <2>1
  <2>3. Least(k.pri[o], Claims(Created, k, o)) /\ Claims(Created, k, o) \subseteq Nat
    <3>1. o \in Tasks /\ Exact(Created, k, o)
      BY <1>1, <1>3 DEF AllExact
    <3> QED BY <1>1, <3>1, ClaimsTyped, Priorities DEF Exact
  <2>4. n.pri[o] = IF up THEN p ELSE k.pri[o]
    BY <1>5, <1>9
  <2>5. CASE up
    <3>1. more = {p} /\ p < k.pri[o] /\ n.pri[o] = p
      BY <1>6, <2>4, <2>5
    <3>2. Least(p, Claims(Created, n, o))
      BY <1>6, <2>2, <2>3, <3>1 DEF Least
    <3> QED BY <3>1, <3>2 DEF Exact
  <2>6. CASE ~up
    <3>1. n.pri[o] = k.pri[o] /\ \A q \in more : k.pri[o] <= q
      BY <1>6, <2>4, <2>6
    <3>2. Least(k.pri[o], Claims(Created, n, o))
      BY <2>2, <2>3, <3>1 DEF Least
    <3> QED BY <3>1, <3>2 DEF Exact
  <2> QED BY <2>5, <2>6
<1> QED BY <1>10, <1>11 DEF AllExact

(* tk_loc_mtx when another task has the mutex *)
LEMMA BlockStep ==
    ASSUME Inv, ~Broken, NEW t \in Tasks, NEW m \in Mutexes, Block(t, m)
    PROVE  Inv' /\ \A x \in Mutexes : mtxtsk'[x] = mtxtsk[x]
<1> DEFINE k == Kernel
           r == RaiseOwner(k, t, m)
           n == Enqueue(r, t, m)
<1>1. /\ Created \in CreatedType /\ Steady(Created, k, {}, {}) /\ circular \in BOOLEAN
      /\ ~circular => Quiet(Created, k)
  BY Start
<1>2. /\ k.state[t] = "READY" /\ k.owner[m] # NULL /\ k.owner[m] # t
      /\ attr[m] = "CEILING" => k.bpri[t] >= ceilpri[m]
      /\ Becomes(n) /\ circular' = (circular \/ Circle') /\ UNCHANGED created
  BY KernelFields DEF Block, MayLock, Dispatched, Running
<1>3. k.owner = mtxtsk
  BY KernelFields
<1> HIDE DEF k
<1>4. k \in KernelType
  BY <1>1 DEF Steady, Orderly
<1>5. k.owner[m] \in Tasks \ {t}
  BY <1>2, <1>4, Fields
<1>6. Steady(Created, r, {}, {}) /\ Same(k, r) /\ Forward(r) = Forward(k)
  BY <1>1, <1>5, RaiseSteady
<1>7. r.state[t] = "READY" /\ r.owner = k.owner /\ r.bpri = k.bpri
  BY <1>2, <1>6 DEF Same
<1>8. Entered(r, t, m, n)
  <2> HIDE DEF r
  <2>1. Orderly(Created, r, {})
    BY <1>6 DEF Steady
  <2> QED BY <1>1, <1>7, <2>1, EnqueueEnters
<1> HIDE DEF n
<1>9. /\ Steady(Created, n, {}, {})
      /\ Forward(n) = [Forward(k) EXCEPT ![t] = k.owner[m]]
      /\ \A x \in Mutexes : In(n, x) = IF x = m THEN In(r, x) \cup {t} ELSE In(r, x)
  <2> HIDE DEF r
  <2>1. /\ Steady(Created, r, {}, {}) /\ r.state[t] = "READY"
        /\ r.owner[m] \in Tasks \ {t}
        /\ attr[m] = "CEILING" => r.bpri[t] >= ceilpri[m]
    BY <1>2, <1>5, <1>6, <1>7
  <2>2. /\ Steady(Created, n, {}, {})
        /\ Forward(n) = [Forward(r) EXCEPT ![t] = r.owner[m]]
        /\ \A x \in Mutexes : In(n, x) = IF x = m THEN In(r, x) \cup {t} ELSE In(r, x)
    BY <1>1, <1>8, <2>1, EnteredIs
  <2> QED BY <1>6, <1>7, <2>2
<1>10. n \in KernelType /\ n.owner = k.owner /\ Waiting(n, {})
  BY <1>7, <1>8, <1>9 DEF Entered, Steady, Orderly
<1>11. Kernel' = n
  BY <1>2, <1>10, Fields DEF Becomes, Kernel
<1>12. ASSUME ~circular' PROVE Quiet(Created, n)
  <2>1. ~circular /\ ~Circle'
    BY <1>2, <1>12
  <2>2. Acyclic(Forward(n))
    <3>1. ASSUME NEW S \in SUBSET Tasks, S # {} PROVE \E u \in S : Forward(n)[u] \notin S
      <4>1. /\ Circle' = \E Z \in (SUBSET Tasks) \ {{}} :
                              \A u \in Z : Waits(Kernel', u) /\ mtxtsk'[wid'[u]] \in Z
        BY DEF Circle
      <4>2. mtxtsk' = n.owner /\ wid' = n.wid
        BY <1>2 DEF Becomes
      <4>3. PICK u \in S : ~(Waits(n, u) /\ n.owner[n.wid[u]] \in S)
        BY <1>11, <2>1, <3>1, <4>1, <4>2
      <4>4. Forward(n)[u] \notin S
        BY <4>3, ForwardIs, Priorities
      <4> QED BY <4>4
    <3> QED BY <3>1 DEF Acyclic
  <2>3. ~Waits(k, t)
    BY <1>2 DEF Waits
  <2>4. /\ Entered(RaiseOwner(k, t, m), t, m, n)
        /\ \A x \in Mutexes : In(n, x) = IF x = m THEN In(RaiseOwner(k, t, m), x) \cup {t}
                                       ELSE In(RaiseOwner(k, t, m), x)
    BY <1>8, <1>9
  <2>5. /\ Created \in CreatedType /\ Steady(Created, k, {}, {}) /\ Quiet(Created, k)
        /\ Steady(Created, n, {}, {})
        /\ Acyclic([Forward(k) EXCEPT ![t] = k.owner[m]])
    BY <1>1, <1>9, <2>1, <2>2
  <2> HIDE DEF r
  <2>6. AllExact(Created, n)
    BY <1>5, <2>3, <2>4, <2>5, EnterQuiet
  <2> QED BY <2>2, <2>6 DEF Quiet
<1>13. Created' = Created /\ circular' \in BOOLEAN
  BY <1>1, <1>2 DEF Created, created
<1>14. Safe(Created, n, circular')
  BY <1>9, <1>12, SteadyIsSafe
<1>15. Inv'
  BY <1>1, <1>2, <1>13, <1>14, Settles
<1>16. mtxtsk' = mtxtsk
  BY <1>2, <1>3, <1>10 DEF Becomes
<1> QED BY <1>15, <1>16

-----------------------------------------------------------------------------
(* The invariant holds at first, and every step keeps it.                  *)

LEMMA InitInv ==
    ASSUME Init
    PROVE  Inv
<1> DEFINE k == Kernel
           a == Created
<1>1. /\ k.state = [t \in Tasks |-> "DORMANT"] /\ k.bpri = [t \in Tasks |-> 0]
      /\ k.pri = [t \in Tasks |-> 0] /\ k.wid = [t \in Tasks |-> NULL]
      /\ k.list = [t \in Tasks |-> {}] /\ k.owner = [m \in Mutexes |-> NULL]
      /\ k.queue = [m \in Mutexes |-> <<>>] /\ circular = FALSE
  BY KernelFields DEF Init
<1>2. k \in KernelType /\ a \in CreatedType
  BY Priorities DEF Init, Kernel, KernelType, Created, CreatedType, Attributes, States
<1> HIDE DEF k, a
<1>3. \A t \in Tasks : /\ k.state[t] = "DORMANT" /\ k.wid[t] = NULL /\ k.list[t] = {}
                       /\ k.bpri[t] = 0 /\ k.pri[t] = 0 /\ ~Waits(k, t)
  BY <1>1 DEF Waits
<1>4. \A m \in Mutexes : k.owner[m] = NULL /\ k.queue[m] = <<>> /\ In(k, m) = {}
  BY <1>1 DEF In, ToSet
<1>5. Owned(a, k, {})
  BY <1>3, <1>4, Priorities DEF Owned
<1>6. Waiting(k, {})
  BY <1>3 DEF Waiting
<1>7. Linking(k) /\ InOrder(a, k)
  BY <1>4 DEF Linking, InOrder, IsInjective
<1>8. Refused(a, k) /\ AllLifted(a, k)
  BY <1>3, Priorities DEF Refused, AllLifted, Lifted, Lifts
<1>9. AllWait(k)
  BY <1>4 DEF AllWait
<1>10. Acyclic(Forward(k))
  <2>1. \A t \in Tasks : Forward(k)[t] = NULL
    BY <1>3, ForwardIs
  <2> QED BY <2>1, Priorities DEF Acyclic
<1>11. AllExact(a, k)
  <2>1. ASSUME NEW t \in Tasks PROVE Claims(a, k, t) = {0} /\ k.pri[t] = 0
    BY <1>3 DEF Claims, OwnClaims, Followers
  <2> QED BY <2>1 DEF AllExact, Exact, Least
<1> QED BY <1>1, <1>2, <1>5, <1>6, <1>7, <1>8, <1>9, <1>10, <1>11
        DEF Inv, Lasting, Peaceful, k, a

(* The hand-over of HighestHeir *)
Heired ==
    ~circular => \A m \in Mutexes :
        /\ mtxtsk[m] # NULL /\ mtxtsk'[m] \notin {NULL, mtxtsk[m]}
        /\ attr[m] # "TFIFO"
        => \A t \in ToSet(wait_queue[m]) : priority[mtxtsk'[m]] <= priority[t]

(* Where the step says which kernel state it leads to *)
LEMMA PassesIsHeired ==
    ASSUME ~circular => \E n : Becomes(n) /\ Passes(Kernel, n)
    PROVE  Heired
<1> SUFFICES ASSUME ~circular PROVE Heired
  BY DEF Heired
<1>1. PICK n : Becomes(n) /\ Passes(Kernel, n)
  OBVIOUS
<1>2. mtxtsk' = n.owner
  BY <1>1 DEF Becomes
<1> QED BY <1>1, <1>2, KernelFields DEF Heired, Passes, In

LEMMA NextInv ==
    ASSUME Inv, [Next]_vars
    PROVE  Inv' /\ Heired
<1>1. CASE UNCHANGED vars
  <2>1. Created' = Created /\ Kernel' = Kernel /\ circular' = circular /\ mtxtsk' = mtxtsk
    BY <1>1 DEF vars, created, Created, Kernel
  <2> QED BY <2>1 DEF Inv, Heired
<1>2. ASSUME NEW t \in Tasks, NEW p \in Pri, ~Broken, tk_sta_tsk(t, p)
      PROVE  Inv' /\ Heired
  BY <1>2, StartStep DEF Heired
<1>3. ASSUME NEW t \in Tasks, NEW p \in Pri, ~Broken, tk_chg_pri(t, p)
      PROVE  Inv' /\ Heired
  BY <1>3, ChangeStep DEF Heired
<1>4. ASSUME NEW t \in Tasks, ~Broken, tk_ext_tsk(t) \/ tk_ter_tsk(t)
      PROVE  Inv' /\ Heired
  BY <1>4, TerminateStep, PassesIsHeired
<1>5. ASSUME NEW t \in Tasks, ~Broken, tk_sus_tsk(t) \/ tk_rsm_tsk(t)
      PROVE  Inv' /\ Heired
  <2>1. mtxtsk' = mtxtsk
    BY <1>5 DEF tk_sus_tsk, tk_rsm_tsk
  <2> QED BY <1>5, <2>1, SuspendStep DEF Heired
<1>6. ASSUME NEW t \in Tasks, ~Broken, EndWait(t)
      PROVE  Inv' /\ Heired
  BY <1>6, EndWaitStep DEF Heired
<1>7. ASSUME NEW t \in Tasks, NEW m \in Mutexes, ~Broken, tk_loc_mtx(t, m)
      PROVE  Inv' /\ Heired
  <2>1. CASE Take(t, m)
    BY <1>7, <2>1, TakeStep DEF Heired
  <2>2. CASE Block(t, m)
    BY <1>7, <2>2, BlockStep DEF Heired
  <2> QED BY <1>7, <2>1, <2>2 DEF tk_loc_mtx
<1>8. ASSUME NEW t \in Tasks, NEW m \in Mutexes, ~Broken, tk_unl_mtx(t, m)
      PROVE  Inv' /\ Heired
  BY <1>8, UnlockStep, PassesIsHeired
<1>9. ASSUME NEW m \in Mutexes, NEW a \in Attributes, NEW p \in Pri, ~Broken,
             tk_cre_mtx(m, a, p)
      PROVE  Inv' /\ Heired
  <2>1. mtxtsk' = mtxtsk
    BY <1>9 DEF tk_cre_mtx
  <2> QED BY <1>9, <2>1, CreateStep DEF Heired
<1>10. ASSUME NEW m \in Mutexes, ~Broken, tk_del_mtx(m)
       PROVE  Inv' /\ Heired
  BY <1>10, DeleteStep DEF Heired
<1> QED BY <1>1, <1>2, <1>3, <1>4, <1>5, <1>6, <1>7, <1>8, <1>9, <1>10 DEF Next

-----------------------------------------------------------------------------
(* In every reachable state the priorities, owners, lists and queues agree *)
(* as Inv says: Lasting whatever the application does, Peaceful while no   *)
(* tasks have waited for each other in a circle.                           *)
THEOREM Invariance == Spec => []Inv
<1>1. Init => Inv
  BY InitInv
<1>2. Inv /\ [Next]_vars => Inv'
  BY NextInv
<1> QED BY <1>1, <1>2, PTL DEF Spec

THEOREM TypeCorrect == Spec => []TypeOK
<1>1. Inv => TypeOK
  BY KernelTyped DEF Inv, Lasting
<1> QED BY <1>1, Invariance, PTL
(* The owner of a mutex and the list of its owner agree, an owner lives,   *)
(* and nobody waits for a mutex that is free or deleted: mutexes change    *)
(* hands without a trace left in the calls of mutex.c.                     *)
THEOREM OwnershipCorrect == Spec => []OwnershipExact
<1>1. Inv => OwnershipExact
  <2> SUFFICES ASSUME Inv PROVE OwnershipExact
    OBVIOUS
  <2>1. Owned(Created, Kernel, {}) /\ Linking(Kernel)
    BY DEF Inv, Lasting
  <2>2. \A m \in Mutexes, t \in Tasks : m \in mtxlist[t] <=> mtxtsk[m] = t
    BY <2>1, KernelFields DEF Owned
  <2>3. \A m \in Mutexes : mtxtsk[m] # NULL => exists[m] /\ task_alive(mtxtsk[m])
    BY <2>1, KernelFields DEF Owned, task_alive
  <2>4. \A m \in Mutexes : wait_queue[m] # <<>> => mtxtsk[m] # NULL
    BY <2>1, KernelFields DEF Linking
  <2> QED BY <2>2, <2>3, <2>4 DEF OwnershipExact
<1> QED BY <1>1, Invariance, PTL

(* A task that waits for a mutex is in its queue, once, and in the place   *)
(* its priority gives it, through gcb_change_priority, the ends of waits   *)
(* and terminations; nobody else is in it while no tasks have waited in a  *)
(* circle.                                                                 *)
THEOREM WaitQueuesCorrect == Spec => []WaitQueuesExact
<1>1. Inv => WaitQueuesExact
  <2> SUFFICES ASSUME Inv PROVE WaitQueuesExact
    OBVIOUS
  <2>1. /\ Kernel \in KernelType /\ Waiting(Kernel, {}) /\ Linking(Kernel)
        /\ InOrder(Created, Kernel) /\ (~circular => AllWait(Kernel))
    BY DEF Inv, Lasting, Peaceful
  <2>2. ASSUME ~circular PROVE CancelRemoves
    <3>1. ASSUME NEW m \in Mutexes, NEW t \in ToSet(wait_queue[m])
          PROVE  t \in Tasks /\ Waits(Kernel, t)
      <4>1. wait_queue[m] \in Seq(Tasks)
        BY <2>1, KernelFields, Fields
      <4>2. t \in Tasks
        BY <4>1, PlacesOf
      <4> QED BY <2>1, <2>2, <4>2, KernelFields DEF AllWait, In
    <3> QED BY <3>1 DEF CancelRemoves
  <2>3. ASSUME NEW m \in Mutexes
        PROVE  LET q == wait_queue[m]
               IN  /\ \A t \in Tasks : Waits(Kernel, t) /\ wid[t] = m => t \in ToSet(q)
                   /\ IsInjective(q)
                   /\ attr[m] # "TFIFO" =>
                       \A i, j \in DOMAIN q :
                           i < j /\ Waits(Kernel, q[i]) /\ Waits(Kernel, q[j])
                           => priority[q[i]] <= priority[q[j]]
    <3> DEFINE q == wait_queue[m]
    <3>1. \A t \in Tasks : Waits(Kernel, t) /\ wid[t] = m => t \in ToSet(q)
      BY <2>1, KernelFields DEF Waiting, In
    <3>2. IsInjective(q) /\ DOMAIN q = 1 .. Len(q)
      BY <2>1, KernelFields, Fields, PlacesOf DEF Linking
    <3>3. attr[m] # "TFIFO" =>
              \A i, j \in 1 .. Len(q) :
                  i < j /\ Waits(Kernel, q[i]) /\ Waits(Kernel, q[j])
                  => priority[q[i]] <= priority[q[j]]
      BY <2>1, KernelFields DEF InOrder
    <3> QED BY <3>1, <3>2, <3>3
  <2> QED BY <2>2, <2>3 DEF WaitQueuesExact
<1> QED BY <1>1, Invariance, PTL

(* chg_pri_mutex and tk_loc_mtx keep base priorities at or below the       *)
(* ceilings of the mutexes a task has or waits for, and the owner of one   *)
(* runs at its ceiling at least, also after it inherited and gave back.    *)
THEOREM CeilingsCorrect == Spec => []CeilingKept
<1>1. Inv => CeilingKept
  <2> SUFFICES ASSUME Inv PROVE CeilingKept
    OBVIOUS
  <2>1. Kernel \in KernelType /\ Refused(Created, Kernel) /\ AllLifted(Created, Kernel)
    BY DEF Inv, Lasting
  <2>2. /\ mtxlist \in [Tasks -> SUBSET Mutexes]
        /\ wid \in [Tasks -> Mutexes \cup {NULL}]
    BY <2>1, KernelFields, Fields
  <2>3. ASSUME NEW t \in Tasks, NEW c \in Ceilings(t) PROVE bpriority[t] >= c
    <3>1. PICK m \in mtxlist[t] \cup ({wid[t]} \ {NULL}) :
                    attr[m] = "CEILING" /\ c = ceilpri[m]
      BY DEF Ceilings
    <3>2. m \in Mutexes
      BY <2>2
    <3> QED BY <2>1, <3>1, <3>2, KernelFields DEF Refused
  <2>4. \A t \in Tasks : \A m \in mtxlist[t] :
            attr[m] = "CEILING" => priority[t] <= ceilpri[m]
    BY <2>1, KernelFields DEF AllLifted, Lifted, Lifts
  <2> QED BY <2>3, <2>4 DEF CeilingKept
<1> QED BY <1>1, Invariance, PTL

(* After every call a task has the highest of its base priority and of     *)
(* those that its mutexes lend it (mutex.c:113), though the code changes   *)
(* priorities one by one along a chain of owners.                          *)
THEOREM PrioritiesCorrect == Spec => []PriorityExact
<1>1. Inv => PriorityExact
  <2> SUFFICES ASSUME Inv, ~circular, NEW t \in Tasks PROVE priority[t] = Due(Kernel, t)
    BY DEF PriorityExact
  <2>1. /\ Created \in CreatedType /\ Kernel \in KernelType
        /\ Queued(Kernel) /\ Sorted(Created, Kernel)
    BY LinkingIsQueued DEF Inv, Lasting, Peaceful
  <2>2. Due(Kernel, t) \in Pri /\ Least(Due(Kernel, t), Claims(Created, Kernel, t))
    BY <2>1, DueIsLeast
  <2>3. priority[t] \in Pri /\ Least(priority[t], Claims(Created, Kernel, t))
    <3>1. Exact(Created, Kernel, t) /\ Kernel.pri[t] \in Pri
      BY <2>1, Fields DEF Inv, Peaceful, AllExact
    <3> QED BY <3>1, KernelFields DEF Exact
  <2> QED BY <2>2, <2>3, LeastUnique, Priorities
<1> QED BY <1>1, Invariance, PTL

(* An unlock and a termination give a mutex to a waiting task of the       *)
(* highest priority: the releases and hooks before do not disturb its      *)
(* queue, while no tasks have waited in a circle.                          *)
THEOREM HeirCorrect == Spec => HighestHeir
<1>1. Inv /\ [Next]_vars => [Heired]_vars
  BY NextInv
<1>2. Spec => [][Heired]_vars
  BY <1>1, Invariance, PTL DEF Spec
<1> QED BY <1>2 DEF HighestHeir, Heired
-----------------------------------------------------------------------------
(* Inheritance along chains                                                *)

(* Where the edges E have no circle, some task of S is at the end of none  *)
(* that starts in S.                                                       *)
LEMMA Beginning ==
    ASSUME NEW E, Acyclic(E), NEW S \in SUBSET Tasks, S # {}
    PROVE  \E u \in S : \A v \in S : E[v] # u
<1> SUFFICES ASSUME \A u \in S : \E v \in S : E[v] = u PROVE FALSE
  OBVIOUS
<1>1. PICK w \in S : E[w] \notin S
  BY DEF Acyclic
<1> DEFINE f == [u \in S |-> CHOOSE v \in S : E[v] = u]
<1>2. \A u \in S : f[u] \in S /\ E[f[u]] = u
  OBVIOUS
<1>3. f \in [S -> S \ {w}]
  <2>1. \A u \in S : f[u] # w
    BY <1>1, <1>2
  <2> QED BY <1>2, <2>1
<1> HIDE DEF f
<1>4. /\ IsFiniteSet(S) /\ IsFiniteSet(S \ {w}) /\ Cardinality(S) \in Nat
      /\ Cardinality(S \ {w}) = Cardinality(S) - 1
  <2>1. IsFiniteSet(S) /\ Cardinality(S) \in Nat
    BY Priorities, FS_Subset, FS_CardinalityType
  <2> QED BY <1>1, <2>1, FS_RemoveElement
<1>5. Cardinality(S \ {w}) < Cardinality(S)
  BY <1>4
<1>6. \E x, y \in S : x # y /\ f[x] = f[y]
  BY <1>3, <1>4, <1>5, FS_PigeonHole
<1> QED BY <1>2, <1>6

(* Heirs(t) is the least set with t that has the heirs of its tasks.       *)
LEMMA HeirsLeast ==
    ASSUME NEW t \in Tasks
    PROVE  /\ t \in Heirs(t) /\ Heirs(t) \subseteq Tasks /\ HasHeirs(Heirs(t))
           /\ \A S \in SUBSET Tasks : t \in S /\ HasHeirs(S) => Heirs(t) \subseteq S
<1>1. t \in Heirs(t) /\ Heirs(t) \subseteq Tasks
  BY DEF Heirs
<1>2. ASSUME NEW S \in SUBSET Tasks, t \in S, HasHeirs(S) PROVE Heirs(t) \subseteq S
  BY <1>2 DEF Heirs
<1>3. ASSUME NEW u \in Tasks, Waits(Kernel, u), attr[wid[u]] = "INHERIT",
             mtxtsk[wid[u]] \in Heirs(t)
      PROVE  u \in Heirs(t)
  <2>1. ASSUME NEW S \in SUBSET Tasks, t \in S, HasHeirs(S) PROVE u \in S
    <3>1. mtxtsk[wid[u]] \in S
      BY <1>2, <1>3, <2>1
    <3> QED BY <1>3, <2>1, <3>1 DEF HasHeirs
  <2> QED BY <2>1 DEF Heirs
<1> QED BY <1>1, <1>2, <1>3 DEF HasHeirs

(* OwnPriority is the highest of a task's own claims. *)
LEMMA OwnIsLeast ==
    ASSUME Created \in CreatedType, Kernel \in KernelType, NEW t \in Tasks
    PROVE  /\ OwnPriority(t) \in Nat
           /\ Least(OwnPriority(t), OwnClaims(Created, Kernel, t))
<1> DEFINE D == OwnClaims(Created, Kernel, t)
<1>1. D = {bpriority[t]} \cup {ceilpri[m] : m \in {n \in mtxlist[t] : attr[n] = "CEILING"}}
  BY KernelFields DEF OwnClaims
<1>2. D \subseteq Nat
  <2>1. D \subseteq Claims(Created, Kernel, t)
    BY DEF Claims
  <2> QED BY <2>1, ClaimsTyped, Priorities
<1>3. D # {}
  BY <1>1
<1>4. OwnPriority(t) = Min(D)
  BY <1>1 DEF OwnPriority
<1> HIDE DEF D
<1>5. Least(Min(D), D)
  BY <1>2, <1>3, LeastIsMin
<1> QED BY <1>2, <1>4, <1>5 DEF Least, D

(* In a peaceful state the followers of a task are the tasks that wait for *)
(* its inheritance mutexes.                                                *)
LEMMA FollowersWait ==
    ASSUME Inv, ~circular, NEW t \in Tasks, NEW u \in Tasks
    PROVE  u \in Followers(Created, Kernel, t)
            <=> /\ Waits(Kernel, u) /\ attr[wid[u]] = "INHERIT"
                /\ mtxtsk[wid[u]] = t
<1>1. /\ Kernel \in KernelType /\ Waiting(Kernel, {}) /\ Owned(Created, Kernel, {})
      /\ Queued(Kernel)
  BY LinkingIsQueued DEF Inv, Lasting, Peaceful
<1>2. \A m \in Mutexes : m \in mtxlist[t] <=> mtxtsk[m] = t
  BY <1>1, KernelFields DEF Owned
<1>3. mtxlist[t] \subseteq Mutexes
  BY <1>1, KernelFields, Fields
<1>4. ASSUME u \in Followers(Created, Kernel, t)
      PROVE  Waits(Kernel, u) /\ attr[wid[u]] = "INHERIT" /\ mtxtsk[wid[u]] = t
  BY <1>1, <1>2, <1>3, <1>4, KernelFields DEF Followers, Queued
<1>5. ASSUME Waits(Kernel, u), attr[wid[u]] = "INHERIT", mtxtsk[wid[u]] = t
      PROVE  u \in Followers(Created, Kernel, t)
  <2>1. wid[u] \in Mutexes /\ u \in In(Kernel, wid[u])
    BY <1>1, <1>5, KernelFields DEF Waiting
  <2> QED BY <1>2, <1>5, <2>1, KernelFields DEF Followers
<1> QED BY <1>4, <1>5

(* The priority of t is that of one of its heirs, and none has a higher.   *)
LEMMA Inherited ==
    ASSUME Inv, ~circular, NEW t \in Tasks
    PROVE  Least(priority[t], {OwnPriority(u) : u \in Heirs(t)})
<1> DEFINE k == Kernel
           a == Created
<1>1. /\ a \in CreatedType /\ k \in KernelType /\ Acyclic(Forward(k))
      /\ AllExact(a, k) /\ Waiting(k, {})
  BY DEF Inv, Lasting, Peaceful
<1>2. /\ \A u \in Tasks : k.pri[u] \in Nat /\ Claims(a, k, u) \subseteq Nat
      /\ k.pri = priority
  BY <1>1, Fields, ClaimsTyped, Priorities, KernelFields
<1>3. /\ t \in Heirs(t) /\ Heirs(t) \subseteq Tasks /\ HasHeirs(Heirs(t))
      /\ \A S \in SUBSET Tasks : t \in S /\ HasHeirs(S) => Heirs(t) \subseteq S
  BY HeirsLeast
<1>4. \A u \in Tasks : OwnPriority(u) \in Nat /\ Least(OwnPriority(u), OwnClaims(a, k, u))
  BY <1>1, OwnIsLeast
<1>5. \A u, v \in Tasks : v \in Followers(a, k, u)
            <=> /\ Waits(k, v) /\ attr[wid[v]] = "INHERIT" /\ mtxtsk[wid[v]] = u
  BY FollowersWait
<1>6. \A u \in Tasks : \A v \in Followers(a, k, u) : v \in Tasks /\ Forward(k)[v] = u
  <2>1. \A u \in Tasks : Followers(a, k, u) \subseteq Tasks
    BY DEF Followers
  <2> QED BY <1>5, <2>1, ForwardIs, KernelFields
<1>7. \A v \in Tasks : Waits(k, v) => mtxtsk[wid[v]] \in Tasks
  BY <1>1, KernelFields DEF Waiting
<1> HIDE DEF k, a
<1>8. \A u \in Tasks : /\ Least(k.pri[u], Claims(a, k, u))
                       /\ Claims(a, k, u) = OwnClaims(a, k, u) \cup
                                            {k.pri[v] : v \in Followers(a, k, u)}
  BY <1>1 DEF AllExact, Exact, Claims
(* No heir has a higher one. *)
<1>9. ASSUME NEW u \in Heirs(t) PROVE priority[t] <= OwnPriority(u)
  <2> DEFINE S == {v \in Tasks : k.pri[t] <= k.pri[v]}
  <2>1. HasHeirs(S)
    <3>1. ASSUME NEW v \in Tasks, Waits(k, v), attr[wid[v]] = "INHERIT",
                 mtxtsk[wid[v]] \in S
          PROVE  v \in S
      <4> DEFINE o == mtxtsk[wid[v]]
      <4>1. o \in Tasks /\ k.pri[t] <= k.pri[o] /\ v \in Followers(a, k, o)
        BY <1>5, <3>1
      <4> HIDE DEF o
      <4>2. k.pri[o] <= k.pri[v]
        BY <1>8, <4>1 DEF Least
      <4>3. k.pri[t] \in Nat /\ k.pri[o] \in Nat /\ k.pri[v] \in Nat
        BY <1>2, <4>1
      <4> QED BY <4>1, <4>2, <4>3
    <3> QED BY <3>1 DEF HasHeirs, k
  <2>2. t \in S /\ S \in SUBSET Tasks
    BY <1>2
  <2>3. u \in Tasks /\ k.pri[t] <= k.pri[u]
    BY <1>3, <2>1, <2>2
  <2> HIDE DEF S
  <2>4. k.pri[u] <= OwnPriority(u)
    BY <1>4, <1>8, <2>3 DEF Least
  <2> QED BY <1>2, <1>4, <2>3, <2>4
(* The first of a chain of heirs with the priority of t has it on its own. *)
<1>10. \E u \in Heirs(t) : OwnPriority(u) = priority[t]
  <2> DEFINE S == {u \in Heirs(t) : k.pri[u] = k.pri[t]}
  <2>1. S \in SUBSET Tasks /\ S # {}
    BY <1>3
  <2>2. PICK u \in S : \A v \in S : Forward(k)[v] # u
    BY <1>1, <2>1, Beginning
  <2>3. u \in Tasks /\ u \in Heirs(t) /\ k.pri[u] = k.pri[t]
    BY <2>1
  <2>4. ASSUME NEW v \in Followers(a, k, u) PROVE k.pri[v] # k.pri[u]
    <3>1. v \in Tasks /\ Forward(k)[v] = u
      BY <1>6, <2>3
    <3>2. v \in Heirs(t)
      <4>1. Waits(k, v) /\ attr[wid[v]] = "INHERIT" /\ mtxtsk[wid[v]] = u
        BY <1>5, <2>3, <3>1
      <4> QED BY <1>3, <2>3, <3>1, <4>1 DEF HasHeirs, k
    <3> QED BY <2>2, <2>3, <3>1, <3>2
  <2>5. k.pri[u] \in OwnClaims(a, k, u)
    BY <1>8, <2>3, <2>4 DEF Least
  <2>6. OwnPriority(u) <= k.pri[u] /\ k.pri[u] <= OwnPriority(u)
    BY <1>4, <1>8, <2>3, <2>5 DEF Least
  <2> QED BY <1>2, <1>4, <2>3, <2>6
<1> QED BY <1>9, <1>10 DEF Least

(* The priority of a task is the highest that it has of its own, or any    *)
(* task has that waits for it directly or along a chain: mtx_chg_pri and   *)
(* release_mutex, which look at one owner at a time, never leave too high  *)
(* or too low a priority behind, while no tasks have waited in a circle.   *)
THEOREM InheritanceCorrect == Spec => []InheritanceExact
<1>1. Inv => InheritanceExact
  <2> SUFFICES ASSUME Inv, ~circular, NEW t \in Tasks
               PROVE  priority[t] = Min({OwnPriority(u) : u \in Heirs(t)})
    BY DEF InheritanceExact
  <2> DEFINE D == {OwnPriority(u) : u \in Heirs(t)}
  <2>1. D \in SUBSET Nat /\ D # {}
    BY HeirsLeast, OwnIsLeast DEF Inv, Lasting
  <2>2. Least(priority[t], D)
    BY Inherited
  <2> HIDE DEF D
  <2>3. priority[t] = Min(D)
    BY <2>1, <2>2, LeastIsMin
  <2> QED BY <2>3 DEF D
<1> QED BY <1>1, Invariance, PTL

(* While no tasks have waited in a circle, the recursion of                *)
(* change_task_priority and mtx_chg_pri ends, from every state and for     *)
(* every new priority, and goes no deeper than there are tasks.            *)
THEOREM ChainsCorrect == Spec => [](~circular => ChainEnds)
<1>1. Inv => (~circular => ChainEnds)
  <2> SUFFICES ASSUME Inv, ~circular, NEW t \in Tasks, NEW p \in Pri
               PROVE  NestedCalls(Kernel, t, p).t = NULL
    BY DEF ChainEnds
  <2> DEFINE k == Kernel
  <2>1. /\ Created \in CreatedType /\ Orderly(Created, k, {})
        /\ Owned(Created, k, {}) /\ Acyclic(Forward(k)) /\ AllExact(Created, k)
    BY LinkingIsQueued DEF Inv, Lasting, Peaceful, Orderly
  <2> HIDE DEF k
  <2>2. {} \in SUBSET Tasks /\ \A m \in {} : k.owner[m] \in {NULL, t}
    OBVIOUS
  <2>3. \A u \in Tasks \ {t} : Exact(Created, k, u)
    BY <2>1 DEF AllExact
  <2>4. Calm(k, t, {}, Forward(k))
    BY <2>1, <2>2, <2>3, CalmStart
  <2>5. NestedCalls(k, t, p).t = NULL
    BY <2>1, <2>4, CallsEnd
  <2> QED BY <2>5 DEF k
<1> QED BY <1>1, Invariance, PTL

=============================================================================
