--------------------------- MODULE TaskSchedProofs ---------------------------
(***************************************************************************)
(* Invariants of module TaskSched for any tasks, priorities, locks and     *)
(* slice times.  First what each operation of the ready queue              *)
(* (ready_queue.h) and each function of the kernel (task.c) does to the    *)
(* queues, then what each system call does; at the end, that the object    *)
(* locks implement module ObjLock.                                         *)
(***************************************************************************)
EXTENDS TaskSched, QueueLemmas

-----------------------------------------------------------------------------
(* The operations of ready_queue.h, for any set of tasks and any number of *)
(* priorities                                                              *)

(* s is a queue (sys/queue.h) that links each task of A once. *)
Links(s, A) == s \in Seq(Tasks) /\ ToSet(s) = A /\ IsInjective(s)

(* The lemmas about queues, for queues of tasks. *)
LEMMA Places ==
    ASSUME NEW s \in Seq(Tasks)
    PROVE  /\ DOMAIN s = 1 .. Len(s) /\ Len(s) \in Nat
           /\ \A i \in 1 .. Len(s) : s[i] \in Tasks
           /\ \A u : u \in ToSet(s) <=> \E i \in 1 .. Len(s) : s[i] = u
           /\ IsInjective(s) <=> \A i, j \in 1 .. Len(s) : s[i] = s[j] => i = j
           /\ s = <<>> <=> Len(s) = 0
  BY PlacesOf

LEMMA EmptyQueue ==
    ASSUME NEW s, NEW A, Links(s, A)
    PROVE  s = <<>> <=> A = {}
  BY EmptyLinked DEF Links, Linked

LEMMA AppendElement ==
    ASSUME NEW s, NEW A, Links(s, A), NEW t \in Tasks \ A
    PROVE  Links(Append(s, t), A \cup {t})
  BY AppendLinked DEF Links, Linked

LEMMA PrependElement ==
    ASSUME NEW s, NEW A, Links(s, A), NEW t \in Tasks \ A
    PROVE  Links(<<t>> \o s, A \cup {t})
<1>1. Linked(Tasks, s, A)
  BY DEF Links, Linked
<1>2. Linked(Tasks, <<t>> \o s, A \cup {t})
  BY <1>1, PrependLinked
<1> QED BY <1>2 DEF Links, Linked

LEMMA HeadElement ==
    ASSUME NEW s, NEW A, Links(s, A), s # <<>>
    PROVE  Head(s) \in A /\ Head(s) \in Tasks /\ Links(Tail(s), A \ {Head(s)})
  BY HeadLinked DEF Links, Linked

LEMMA RemoveElement ==
    ASSUME NEW s, NEW A, Links(s, A), NEW t \in A
    PROVE  Links(RemoveFirst(s, t), A \ {t})
  BY RemoveLinked DEF Links, Linked

-----------------------------------------------------------------------------
(* A ready queue in order: it holds the tasks of ready, its index agrees,  *)
(* and the task with the kernel lock is one of them.                       *)
InOrder(rq, ready, pri) ==
    /\ rq \in RDYQUE
    /\ Holds(rq, ready, pri)
    /\ Indexed(rq)
    /\ rq.klocktsk \in ready \cup {NULL}

Level(ready, pri, p) == {t \in ready : pri[t] = p}

(* Holds, priority by priority. *)
LEMMA HoldsLinks ==
    ASSUME NEW rq \in RDYQUE, NEW ready, NEW pri
    PROVE  Holds(rq, ready, pri)
             <=> \A p \in Pri : Links(rq.tskque[p], Level(ready, pri, p))
  BY DEF Holds, Links, Level, RDYQUE

(* A task queue is replaced: the ready queue is in order for the new set   *)
(* when the replaced one links the tasks of its level and the others still *)
(* link theirs.                                                            *)
LEMMA ReplaceLevel ==
    ASSUME NEW rq \in RDYQUE, NEW ready, NEW pri, Holds(rq, ready, pri),
           NEW new \in RDYQUE, NEW p \in Pri, NEW que, NEW after,
           new.tskque = [rq.tskque EXCEPT ![p] = que],
           Links(que, Level(after, pri, p)),
           \A q \in Pri \ {p} : Level(after, pri, q) = Level(ready, pri, q)
    PROVE  Holds(new, after, pri)
<1>1. ASSUME NEW q \in Pri PROVE Links(new.tskque[q], Level(after, pri, q))
  <2>1. rq.tskque \in [Pri -> Seq(Tasks)]
    BY DEF RDYQUE
  <2>2. CASE q = p
    BY <2>1, <2>2
  <2>3. CASE q # p
    BY <2>1, <2>3, HoldsLinks
  <2> QED BY <2>2, <2>3
<1> QED BY <1>1, HoldsLinks

(* Both insertions, at the end or at the head of the task queue. *)
LEMMA InsertionInOrder ==
    ASSUME NEW rq, NEW ready \in SUBSET Tasks, NEW pri \in [Tasks -> Pri],
           InOrder(rq, ready, pri),
           NEW t \in Tasks \ ready, NEW klocked \in BOOLEAN, NEW que,
           Links(que, Level(ready, pri, pri[t]) \cup {t})
    PROVE  InOrder(Inserted(rq, t, pri[t], klocked, que), ready \cup {t}, pri)
<1> DEFINE p   == pri[t]
           new == Inserted(rq, t, p, klocked, que)
           after == ready \cup {t}
<1>1. p \in Pri /\ Pri \subseteq 0 .. NUM_PRI /\ Pri \subseteq Nat
  BY ReadyQueueAssumption DEF Pri
<1>2. rq \in RDYQUE /\ Holds(rq, ready, pri) /\ Indexed(rq)
  BY DEF InOrder
<1>3. que \in Seq(Tasks) /\ que # <<>>
  BY EmptyQueue DEF Links
<1>4. new \in RDYQUE
  BY <1>1, <1>2, <1>3 DEF Inserted, RDYQUE
<1>5. Level(after, pri, p) = Level(ready, pri, p) \cup {t}
  BY DEF Level
<1>6. \A q \in Pri \ {p} : Level(after, pri, q) = Level(ready, pri, q)
  BY DEF Level
<1>7. Holds(new, after, pri)
  <2>1. new.tskque = [rq.tskque EXCEPT ![p] = que]
    BY DEF Inserted
  <2>2. Links(que, Level(after, pri, p))
    BY <1>5
  <2> HIDE DEF new, after, p
  <2> QED BY <1>1, <1>2, <1>4, <1>6, <2>1, <2>2, ReplaceLevel
<1>8. Indexed(new)
  <2>1. new.bitmap = {q \in Pri : new.tskque[q] # <<>>}
    BY <1>1, <1>2, <1>3 DEF Inserted, Indexed, RDYQUE
  <2>2. /\ new.top_priority \in new.bitmap \cup {NUM_PRI}
        /\ \A q \in new.bitmap : new.top_priority <= q
    BY <1>1, <1>2 DEF Inserted, Indexed, RDYQUE
  <2> QED BY <2>1, <2>2 DEF Indexed
<1>9. new.klocktsk \in after \cup {NULL}
  BY DEF Inserted, InOrder
<1> QED BY <1>4, <1>7, <1>8, <1>9 DEF InOrder

(* ready_queue_insert *)
LEMMA InsertInOrder ==
    ASSUME NEW rq, NEW ready \in SUBSET Tasks, NEW pri \in [Tasks -> Pri],
           InOrder(rq, ready, pri), NEW t \in Tasks \ ready,
           NEW klocked \in BOOLEAN
    PROVE  InOrder(ready_queue_insert(rq, t, pri[t], klocked), ready \cup {t}, pri)
<1>1. Links(rq.tskque[pri[t]], Level(ready, pri, pri[t]))
  BY HoldsLinks DEF InOrder
<1>2. t \in Tasks \ Level(ready, pri, pri[t])
  BY DEF Level
<1> QED BY <1>1, <1>2, AppendElement, InsertionInOrder DEF ready_queue_insert

(* ready_queue_insert_top *)
LEMMA InsertTopInOrder ==
    ASSUME NEW rq, NEW ready \in SUBSET Tasks, NEW pri \in [Tasks -> Pri],
           InOrder(rq, ready, pri), NEW t \in Tasks \ ready,
           NEW klocked \in BOOLEAN
    PROVE  InOrder(ready_queue_insert_top(rq, t, pri[t], klocked),
                   ready \cup {t}, pri)
<1>1. Links(rq.tskque[pri[t]], Level(ready, pri, pri[t]))
  BY HoldsLinks DEF InOrder
<1>2. t \in Tasks \ Level(ready, pri, pri[t])
  BY DEF Level
<1> QED BY <1>1, <1>2, PrependElement, InsertionInOrder DEF ready_queue_insert_top

(* ready_queue_rotate keeps the tasks of the queue. *)
LEMMA RotateInOrder ==
    ASSUME NEW rq, NEW ready \in SUBSET Tasks, NEW pri \in [Tasks -> Pri],
           InOrder(rq, ready, pri), NEW p \in Pri
    PROVE  InOrder(ready_queue_rotate(rq, p), ready, pri)
<1>1. CASE rq.tskque[p] = <<>>
  BY <1>1 DEF ready_queue_rotate
<1>2. CASE rq.tskque[p] # <<>>
  <2> DEFINE old == rq.tskque[p]
             que == Append(Tail(old), Head(old))
             new == ready_queue_rotate(rq, p)
  <2>1. rq \in RDYQUE /\ Holds(rq, ready, pri) /\ Indexed(rq)
    BY DEF InOrder
  <2>2. Links(old, Level(ready, pri, p))
    BY <2>1, HoldsLinks
  <2>3. /\ Head(old) \in Level(ready, pri, p) /\ Head(old) \in Tasks
        /\ Links(Tail(old), Level(ready, pri, p) \ {Head(old)})
    BY <1>2, <2>2, HeadElement
  <2>4. Links(que, (Level(ready, pri, p) \ {Head(old)}) \cup {Head(old)})
    BY <2>3, AppendElement
  <2>5. Links(que, Level(ready, pri, p)) /\ que # <<>> /\ que \in Seq(Tasks)
    BY <2>3, <2>4, EmptyQueue DEF Links
  <2>6. new = [rq EXCEPT !.tskque[p] = que]
    BY <1>2 DEF ready_queue_rotate
  <2>7. new \in RDYQUE /\ new.tskque = [rq.tskque EXCEPT ![p] = que]
        /\ new.bitmap = rq.bitmap /\ new.top_priority = rq.top_priority
        /\ new.klocktsk = rq.klocktsk
    BY <2>1, <2>5, <2>6 DEF RDYQUE
  <2> HIDE DEF new, que
  <2>8. Holds(new, ready, pri)
    BY <2>1, <2>5, <2>7, ReplaceLevel
  <2>9. Indexed(new)
    BY <1>2, <2>1, <2>5, <2>7 DEF Indexed, RDYQUE
  <2> QED BY <2>7, <2>8, <2>9 DEF InOrder, new
<1> QED BY <1>1, <1>2

(* ready_queue_move_last keeps the tasks of the queue. *)
LEMMA MoveLastInOrder ==
    ASSUME NEW rq, NEW ready \in SUBSET Tasks, NEW pri \in [Tasks -> Pri],
           InOrder(rq, ready, pri), NEW t \in ready
    PROVE  /\ InOrder(ready_queue_move_last(rq, t, pri[t]), ready, pri)
           /\ Head(ready_queue_move_last(rq, t, pri[t]).tskque[pri[t]]) \in ready
<1> DEFINE p   == pri[t]
           old == rq.tskque[p]
           que == Append(RemoveFirst(old, t), t)
           new == ready_queue_move_last(rq, t, p)
<1>1. rq \in RDYQUE /\ Holds(rq, ready, pri) /\ Indexed(rq) /\ p \in Pri
  BY DEF InOrder
<1>2. Links(old, Level(ready, pri, p)) /\ t \in Level(ready, pri, p)
  BY <1>1, HoldsLinks DEF Level
<1>3. Links(RemoveFirst(old, t), Level(ready, pri, p) \ {t})
  BY <1>2, RemoveElement
<1>4. Links(que, (Level(ready, pri, p) \ {t}) \cup {t})
  BY <1>3, AppendElement
<1>5. Links(que, Level(ready, pri, p)) /\ que # <<>> /\ que \in Seq(Tasks)
  BY <1>2, <1>4, EmptyQueue DEF Links
<1>6. new \in RDYQUE /\ new.tskque = [rq.tskque EXCEPT ![p] = que]
      /\ new.bitmap = rq.bitmap /\ new.top_priority = rq.top_priority
      /\ new.klocktsk = rq.klocktsk
  BY <1>1, <1>5 DEF RDYQUE, ready_queue_move_last
<1>7. old # <<>>
  BY <1>2, EmptyQueue
<1> HIDE DEF new, que, p
<1>8. Holds(new, ready, pri)
  BY <1>1, <1>5, <1>6, ReplaceLevel
<1>9. Indexed(new)
  BY <1>1, <1>5, <1>6, <1>7 DEF Indexed, RDYQUE
<1>10. new.tskque[p] = que
  BY <1>1, <1>6 DEF RDYQUE
<1>11. Head(que) \in ready
  BY <1>5, HeadElement DEF Level
<1> QED BY <1>6, <1>8, <1>9, <1>10, <1>11 DEF InOrder, new, p

(* The bitmap search finds the next priority in use, NUM_PRI if none is. *)
LEMMA FirstSet ==
    ASSUME NEW bitmap \in SUBSET Pri, NEW p \in Pri
    PROVE  /\ FirstSetFrom(bitmap, p) \in p .. NUM_PRI
           /\ FirstSetFrom(bitmap, p) \in bitmap \cup {NUM_PRI}
           /\ \A r \in bitmap : r >= p => FirstSetFrom(bitmap, p) <= r
<1> DEFINE S == {q \in p .. NUM_PRI : q \in bitmap \cup {NUM_PRI}}
<1>1. NUM_PRI \in Nat /\ Pri \subseteq Nat /\ \A q \in Pri : q < NUM_PRI
  BY ReadyQueueAssumption DEF Pri
<1>2. S \subseteq Nat /\ NUM_PRI \in S
  BY <1>1
<1>3. PICK q \in S : \A r \in S : q <= r
  <2>1. PICK q \in S : \A r \in S : ~(<<r, q>> \in OpToRel(<, Nat))
    <3> HIDE DEF S
    <3> QED BY <1>2, NatLessThanWellFounded, WFMin
  <2>2. \A r \in S : ~(r < q)
    BY <1>2, <2>1 DEF OpToRel
  <2> QED BY <1>2, <2>2
<1>4. /\ q \in p .. NUM_PRI /\ q \in bitmap \cup {NUM_PRI}
      /\ \A r \in bitmap : r >= p => q <= r
  BY <1>1, <1>3
<1> QED BY <1>4 DEF FirstSetFrom

(* ready_queue_delete of a task that can execute *)
LEMMA DeleteInOrder ==
    ASSUME NEW rq, NEW ready \in SUBSET Tasks, NEW pri \in [Tasks -> Pri],
           InOrder(rq, ready, pri), NEW t \in ready
    PROVE  InOrder(ready_queue_delete(rq, t, pri[t]), ready \ {t}, pri)
<1> DEFINE p      == pri[t]
           que    == RemoveFirst(rq.tskque[p], t)
           bitmap == IF que = <<>> THEN rq.bitmap \ {p} ELSE rq.bitmap
           top    == IF que = <<>> /\ p = rq.top_priority
                     THEN FirstSetFrom(bitmap, p) ELSE rq.top_priority
           klock  == IF rq.klocktsk = t THEN NULL ELSE rq.klocktsk
           new    == ready_queue_delete(rq, t, p)
           after  == ready \ {t}
<1>1. rq \in RDYQUE /\ Holds(rq, ready, pri) /\ Indexed(rq) /\ p \in Pri
      /\ rq.klocktsk \in ready \cup {NULL}
  BY DEF InOrder
<1>2. /\ new = [top_priority |-> top, tskque |-> [rq.tskque EXCEPT ![p] = que],
                bitmap |-> bitmap, klocktsk |-> klock]
  BY DEF ready_queue_delete
<1>3. Links(rq.tskque[p], Level(ready, pri, p)) /\ t \in Level(ready, pri, p)
  <2>1. Links(rq.tskque[p], Level(ready, pri, p))
    BY <1>1, HoldsLinks
  <2>2. t \in Level(ready, pri, p)
    BY DEF Level
  <2> QED BY <2>1, <2>2
<1>4. Links(que, Level(ready, pri, p) \ {t})
  BY <1>3, RemoveElement
<1>5. Level(after, pri, p) = Level(ready, pri, p) \ {t}
      /\ \A q \in Pri \ {p} : Level(after, pri, q) = Level(ready, pri, q)
  BY DEF Level
<1>6. rq.tskque[p] # <<>>
  BY <1>3, EmptyQueue
<1>7. que \in Seq(Tasks) /\ Links(que, Level(after, pri, p))
  BY <1>4, <1>5 DEF Links
<1> HIDE DEF new, que, p, after
<1>8. /\ NUM_PRI \in Nat /\ Pri \subseteq Nat /\ \A q \in Pri : q < NUM_PRI
      /\ 0 .. NUM_PRI = Pri \cup {NUM_PRI}
  BY ReadyQueueAssumption DEF Pri
<1>9. bitmap \in SUBSET Pri
  BY <1>1 DEF RDYQUE
<1>10. /\ FirstSetFrom(bitmap, p) \in p .. NUM_PRI
       /\ FirstSetFrom(bitmap, p) \in bitmap \cup {NUM_PRI}
       /\ \A r \in bitmap : r >= p => FirstSetFrom(bitmap, p) <= r
  <2> HIDE DEF bitmap
  <2> QED BY <1>1, <1>9, FirstSet
<1>11. /\ top \in bitmap \cup {NUM_PRI}
       /\ \A q \in bitmap : top <= q
  <2>1. /\ rq.top_priority \in rq.bitmap \cup {NUM_PRI}
        /\ \A q \in rq.bitmap : rq.top_priority <= q
        /\ p \in rq.bitmap
    BY <1>1, <1>6 DEF Indexed
  <2>2. CASE que = <<>> /\ p = rq.top_priority
    <3>1. \A r \in bitmap : r >= p
      BY <2>1, <2>2
    <3> QED BY <1>10, <2>2, <3>1
  <2>3. CASE que = <<>> /\ p # rq.top_priority
    BY <2>1, <2>3
  <2>4. CASE que # <<>>
    BY <2>1, <2>4
  <2> QED BY <2>2, <2>3, <2>4
<1>12. new \in RDYQUE
  <2>1. top \in 0 .. NUM_PRI
    BY <1>8, <1>9, <1>11
  <2>2. klock \in Tasks \cup {NULL}
    BY <1>1 DEF RDYQUE
  <2> HIDE DEF top, bitmap, klock
  <2> QED BY <1>1, <1>2, <1>7, <1>9, <2>1, <2>2 DEF RDYQUE
<1>13. Holds(new, after, pri)
  BY <1>1, <1>2, <1>5, <1>7, <1>12, ReplaceLevel
<1>14. Indexed(new)
  <2>1. bitmap = {q \in Pri : new.tskque[q] # <<>>}
    BY <1>1, <1>2, <1>6 DEF Indexed, RDYQUE
  <2> HIDE DEF top, bitmap, klock
  <2> QED BY <1>2, <1>11, <2>1 DEF Indexed
<1>15. new.klocktsk \in after \cup {NULL}
  BY <1>1, <1>2 DEF after
<1> QED BY <1>12, <1>13, <1>14, <1>15 DEF InOrder, new, after, p

(* The deletion of a task that waits for a lock leaves the task queues. *)
LEMMA DeleteWaiterInOrder ==
    ASSUME NEW rq, NEW ready \in SUBSET Tasks, NEW pri \in [Tasks -> Pri],
           InOrder(rq, ready, pri), NEW t \in Tasks \ ready
    PROVE  DeleteKlockWaiter(rq, t) = rq
<1>1. rq.klocktsk # t /\ rq \in RDYQUE
  BY ReadyQueueAssumption DEF InOrder
<1> QED BY <1>1 DEF DeleteKlockWaiter, RDYQUE

(* ready_queue_top is a task of the queue, and NULL when there is none. *)
LEMMA TopInOrder ==
    ASSUME NEW rq, NEW ready \in SUBSET Tasks, NEW pri \in [Tasks -> Pri],
           InOrder(rq, ready, pri)
    PROVE  /\ IF ready = {} THEN ready_queue_top(rq) = NULL
                            ELSE ready_queue_top(rq) \in ready
           /\ ready = {} => rq.top_priority = NUM_PRI
<1> DEFINE top == rq.top_priority
<1>1. rq \in RDYQUE /\ Holds(rq, ready, pri) /\ Indexed(rq)
      /\ rq.klocktsk \in ready \cup {NULL}
  BY DEF InOrder
<1>2. \A p \in Pri : Links(rq.tskque[p], Level(ready, pri, p))
  BY <1>1, HoldsLinks
<1>3. NULL \notin ready /\ NUM_PRI \notin Pri
  BY ReadyQueueAssumption DEF Pri
<1>4. ready = {} <=> top = NUM_PRI
  <2>1. ASSUME NEW t \in ready PROVE top # NUM_PRI
    <3>1. pri[t] \in Pri /\ rq.tskque[pri[t]] # <<>>
      BY <1>2, EmptyQueue DEF Level
    <3>2. pri[t] \in rq.bitmap /\ top <= pri[t]
      BY <1>1, <3>1 DEF Indexed
    <3>3. pri[t] < NUM_PRI /\ NUM_PRI \in Nat
      BY <3>1, ReadyQueueAssumption DEF Pri
    <3> QED BY <3>1, <3>2, <3>3 DEF Pri
  <2>2. ASSUME ready = {} PROVE top = NUM_PRI
    <3>1. \A p \in Pri : rq.tskque[p] = <<>>
      BY <1>2, <2>2, EmptyQueue DEF Level
    <3> QED BY <1>1, <3>1 DEF Indexed
  <2> QED BY <2>1, <2>2
<1>5. ASSUME top # NUM_PRI PROVE Head(rq.tskque[top]) \in ready
  <2>1. top \in Pri /\ rq.tskque[top] # <<>>
    BY <1>1, <1>5 DEF Indexed
  <2>2. Head(rq.tskque[top]) \in Level(ready, pri, top)
    BY <1>2, <2>1, HeadElement
  <2> QED BY <2>2 DEF Level
<1> QED BY <1>1, <1>3, <1>4, <1>5 DEF ready_queue_top

(* The ready queue depends on the priorities of the tasks in it only. *)
LEMMA SamePriorities ==
    ASSUME NEW rq, NEW ready \in SUBSET Tasks, NEW pri, NEW new,
           InOrder(rq, ready, pri), \A t \in ready : new[t] = pri[t]
    PROVE  InOrder(rq, ready, new)
  BY DEF InOrder, Holds

(* Nothing is in the ready queue at first. *)
LEMMA EmptyInOrder ==
    ASSUME NEW pri PROVE InOrder(ready_queue_initialize, {}, pri)
<1> DEFINE rq == ready_queue_initialize
<1>1. rq \in RDYQUE
  BY ReadyQueueAssumption DEF ready_queue_initialize, RDYQUE
<1>2. \A p \in Pri : Links(rq.tskque[p], Level({}, pri, p))
  BY DEF ready_queue_initialize, Links, Level, ToSet, IsInjective
<1>3. Indexed(rq)
  BY DEF ready_queue_initialize, Indexed
<1> QED BY <1>1, <1>2, <1>3, HoldsLinks DEF InOrder, ready_queue_initialize

-----------------------------------------------------------------------------
(* s is the first of the tasks of the highest priority, NULL if there are  *)
(* none, and no READY task has the kernel lock.                            *)
Leads(rq, ready, pri, s) ==
    /\ rq.klocktsk = NULL
    /\ IF ready = {} THEN s = NULL
       ELSE /\ s \in ready /\ Head(rq.tskque[pri[s]]) = s
            /\ \A u \in ready : pri[s] <= pri[u]

(* ready_queue_top finds that task by the top priority. *)
LEMMA TopLeads ==
    ASSUME NEW rq, NEW ready \in SUBSET Tasks, NEW pri \in [Tasks -> Pri],
           InOrder(rq, ready, pri), rq.klocktsk = NULL, NEW s
    PROVE  s = ready_queue_top(rq) <=> Leads(rq, ready, pri, s)
<1> DEFINE top == rq.top_priority
<1>1. rq \in RDYQUE /\ Holds(rq, ready, pri) /\ Indexed(rq)
  BY DEF InOrder
<1>2. /\ NUM_PRI \in Nat /\ Pri \subseteq Nat /\ \A q \in Pri : q < NUM_PRI
  BY ReadyQueueAssumption DEF Pri
<1>3. \A u \in ready : u \in ToSet(rq.tskque[pri[u]]) /\ pri[u] \in Pri
  BY <1>1 DEF Holds
<1>4. \A u \in ready : rq.tskque[pri[u]] # <<>>
  BY <1>3 DEF ToSet
<1>5. \A u \in ready : pri[u] \in rq.bitmap /\ top <= pri[u]
  BY <1>1, <1>3, <1>4 DEF Indexed
<1>6. CASE ready = {}
  <2>1. top = NUM_PRI
    BY <1>6, TopInOrder
  <2> QED BY <1>6, <2>1 DEF ready_queue_top, Leads
<1>7. CASE ready # {}
  <2>1. top # NUM_PRI /\ top \in rq.bitmap /\ top \in Pri
    <3>1. PICK u \in ready : TRUE
      BY <1>7
    <3>2. top <= pri[u] /\ pri[u] \in Pri /\ top \in rq.bitmap \cup {NUM_PRI}
      BY <1>1, <1>3, <1>5, <3>1 DEF Indexed
    <3>3. rq.bitmap \subseteq Pri
      BY <1>1 DEF RDYQUE
    <3>4. pri[u] \in Nat /\ pri[u] < NUM_PRI /\ NUM_PRI \in Nat
      BY <1>2, <3>2
    <3> HIDE DEF top
    <3>5. top # NUM_PRI
      BY <3>2, <3>4
    <3> QED BY <3>2, <3>3, <3>5
  <2> DEFINE h == Head(rq.tskque[top])
  <2>2. ready_queue_top(rq) = h
    BY <2>1 DEF ready_queue_top
  <2>3. h \in Level(ready, pri, top)
    <3>1. Links(rq.tskque[top], Level(ready, pri, top)) /\ rq.tskque[top] # <<>>
      BY <1>1, <2>1, HoldsLinks DEF Indexed
    <3> QED BY <3>1, HeadElement
  <2>4. Leads(rq, ready, pri, h)
    BY <1>5, <1>7, <2>3 DEF Leads, Level
  <2>5. ASSUME Leads(rq, ready, pri, s) PROVE s = h
    <3>1. s \in ready /\ Head(rq.tskque[pri[s]]) = s /\ pri[s] <= pri[h] /\ pri[h] = top
      BY <1>7, <2>3, <2>5 DEF Leads, Level
    <3>2. pri[s] \in Nat /\ top \in Nat /\ top <= pri[s] /\ pri[s] <= top
      BY <1>2, <1>3, <1>5, <2>1, <3>1
    <3>3. pri[s] = top
      BY <3>2
    <3> QED BY <3>1, <3>3
  <2> QED BY <2>2, <2>4, <2>5
<1> QED BY <1>6, <1>7

(* The top priority is that of the leading task. *)
LEMMA LeaderPriority ==
    ASSUME NEW rq, NEW ready \in SUBSET Tasks, NEW pri \in [Tasks -> Pri],
           InOrder(rq, ready, pri), NEW s, Leads(rq, ready, pri, s)
    PROVE  rq.top_priority = IF ready = {} THEN NUM_PRI ELSE pri[s]
<1>1. rq \in RDYQUE /\ Holds(rq, ready, pri) /\ Indexed(rq)
  BY DEF InOrder
<1>2. CASE ready = {}
  BY <1>2, TopInOrder
<1>3. CASE ready # {}
  <2>1. s \in ready /\ \A u \in ready : pri[s] <= pri[u]
    BY <1>3 DEF Leads
  <2>2. s \in ToSet(rq.tskque[pri[s]]) /\ pri[s] \in Pri
    BY <1>1, <2>1 DEF Holds
  <2>3. rq.tskque[pri[s]] # <<>>
    BY <2>2 DEF ToSet
  <2>4. pri[s] \in rq.bitmap /\ rq.top_priority <= pri[s]
    BY <1>1, <2>2, <2>3 DEF Indexed
  <2>5. NUM_PRI \in Nat /\ Pri \subseteq Nat /\ \A q \in Pri : q < NUM_PRI
    BY ReadyQueueAssumption DEF Pri
  <2>6. rq.top_priority \in rq.bitmap /\ rq.top_priority \in Pri
    BY <1>1, <2>2, <2>4, <2>5 DEF Indexed, RDYQUE
  <2>7. Links(rq.tskque[rq.top_priority], Level(ready, pri, rq.top_priority))
        /\ rq.tskque[rq.top_priority] # <<>>
    BY <1>1, <2>6, HoldsLinks DEF Indexed
  <2>8. Head(rq.tskque[rq.top_priority]) \in Level(ready, pri, rq.top_priority)
    BY <2>7, HeadElement
  <2>9. PICK u \in ready : pri[u] = rq.top_priority
    BY <2>8 DEF Level
  <2>10. /\ pri[s] \in Nat /\ rq.top_priority \in Nat
         /\ pri[s] <= rq.top_priority /\ rq.top_priority <= pri[s]
    BY <2>1, <2>2, <2>4, <2>5, <2>6, <2>9
  <2> QED BY <1>3, <2>10
<1> QED BY <1>2, <1>3

(* The head of a queue stays when a task joins its end or another leaves. *)
LEMMA HeadStays ==
    ASSUME NEW s, NEW A, Links(s, A), s # <<>>, NEW t
    PROVE  /\ Head(Append(s, t)) = Head(s)
           /\ t \in A /\ Head(s) # t => /\ Head(RemoveFirst(s, t)) = Head(s)
                                       /\ Head(Append(RemoveFirst(s, t), t)) = Head(s)
<1>1. s \in Seq(Tasks) /\ Len(s) \in Nat \ {0} /\ Head(s) = s[1]
  BY DEF Links
<1>2. Head(Append(s, t)) = Head(s)
  BY <1>1
<1>3. ASSUME t \in A, Head(s) # t
      PROVE  /\ Head(RemoveFirst(s, t)) = Head(s)
             /\ Head(Append(RemoveFirst(s, t), t)) = Head(s)
  <2> DEFINE r == RemoveFirst(s, t)
  <2>1. PICK i \in 1 .. Len(s) : s[i] = t /\ Without(Tasks, r, s, i)
    BY <1>3, RemovedPlace DEF Links, Linked
  <2>2. i > 1 /\ Len(s) - 1 \in Nat \ {0}
    BY <1>1, <1>3, <2>1
  <2> HIDE DEF r
  <2>3. r \in Seq(Tasks) /\ Len(r) \in Nat \ {0} /\ r[1] = s[1]
    BY <1>1, <2>1, <2>2 DEF Without
  <2> QED BY <1>1, <2>3 DEF r
<1> QED BY <1>2, <1>3

(* ready_queue_insert: the new task leads if it raises the top priority.   *)
LEMMA InsertLeads ==
    ASSUME NEW rq, NEW ready \in SUBSET Tasks, NEW pri \in [Tasks -> Pri],
           InOrder(rq, ready, pri), NEW t \in Tasks \ ready,
           NEW s, Leads(rq, ready, pri, s)
    PROVE  Leads(ready_queue_insert(rq, t, pri[t], FALSE), ready \cup {t}, pri,
                 IF RaisesTop(rq, pri[t]) THEN t ELSE s)
<1> DEFINE p   == pri[t]
           new == ready_queue_insert(rq, t, p, FALSE)
<1>1. rq \in RDYQUE /\ Holds(rq, ready, pri) /\ p \in Pri
      /\ rq.tskque \in [Pri -> Seq(Tasks)]
  BY DEF InOrder, RDYQUE
<1>2. /\ NUM_PRI \in Nat /\ Pri \subseteq Nat /\ \A q \in Pri : q < NUM_PRI
  BY ReadyQueueAssumption DEF Pri
<1>3. \A q \in Pri : Links(rq.tskque[q], Level(ready, pri, q))
  BY <1>1, HoldsLinks
<1>4. /\ new.klocktsk = NULL /\ new.tskque[p] = Append(rq.tskque[p], t)
      /\ \A q \in Pri \ {p} : new.tskque[q] = rq.tskque[q]
  BY <1>1 DEF ready_queue_insert, Inserted, Leads
<1>5. rq.top_priority = IF ready = {} THEN NUM_PRI ELSE pri[s]
  BY LeaderPriority
<1>6. \A u \in Tasks : pri[u] \in Pri
  OBVIOUS
<1> HIDE DEF new, p
<1>7. CASE RaisesTop(rq, p)
  <2>1. \A u \in ready : p < pri[u]
    <3> SUFFICES ASSUME NEW u \in ready PROVE p < pri[u]
      OBVIOUS
    <3>1. p < pri[s] /\ pri[s] <= pri[u] /\ s \in Tasks
      BY <1>5, <1>7 DEF RaisesTop, Leads
    <3>2. p \in Nat /\ pri[s] \in Nat /\ pri[u] \in Nat
      BY <1>1, <1>2, <1>6, <3>1
    <3> QED BY <3>1, <3>2
  <2>2. rq.tskque[p] = <<>>
    <3>1. Level(ready, pri, p) = {}
      <4>1. p \in Nat
        BY <1>1, <1>2
      <4> QED BY <2>1, <4>1 DEF Level
    <3> QED BY <1>1, <1>3, <3>1, EmptyQueue
  <2>3. Head(new.tskque[p]) = t
    BY <1>4, <2>2
  <2>4. \A u \in ready \cup {t} : p <= pri[u]
    <3>1. p <= p
      BY <1>1, <1>2
    <3>2. \A u \in ready : p <= pri[u]
      <4> SUFFICES ASSUME NEW u \in ready PROVE p <= pri[u]
        OBVIOUS
      <4>1. p \in Nat /\ pri[u] \in Nat /\ p < pri[u]
        BY <1>1, <1>2, <1>6, <2>1
      <4> QED BY <4>1
    <3> QED BY <3>1, <3>2 DEF p
  <2> QED BY <1>4, <1>7, <2>3, <2>4 DEF Leads, p, new
<1>8. CASE ~RaisesTop(rq, p)
  <2>1. ready # {}
    BY <1>1, <1>2, <1>5, <1>8 DEF RaisesTop
  <2>2. s \in ready /\ Head(rq.tskque[pri[s]]) = s /\ \A u \in ready : pri[s] <= pri[u]
    BY <2>1 DEF Leads
  <2>3. pri[s] \in Pri /\ s \in Level(ready, pri, pri[s])
    BY <1>6, <2>2 DEF Level
  <2>4. rq.tskque[pri[s]] # <<>>
    BY <1>3, <2>3, EmptyQueue
  <2>5. Head(new.tskque[pri[s]]) = s
    <3>1. CASE pri[s] = p
      BY <1>3, <1>4, <2>2, <2>3, <2>4, <3>1, HeadStays
    <3>2. CASE pri[s] # p
      BY <1>4, <2>2, <2>3, <3>2
    <3> QED BY <3>1, <3>2
  <2>6. pri[s] <= p
    <3>1. ~(p < pri[s]) /\ p \in Nat /\ pri[s] \in Nat
      BY <1>1, <1>2, <1>5, <1>8, <2>1, <2>3 DEF RaisesTop
    <3> QED BY <3>1
  <2>7. \A u \in ready \cup {t} : pri[s] <= pri[u]
    BY <2>2, <2>6 DEF p
  <2> QED BY <1>4, <1>8, <2>2, <2>5, <2>7 DEF Leads, p, new
<1> QED BY <1>7, <1>8 DEF p

(* The operations that take another task out of its place leave the leader *)
(* in front.                                                               *)
LEMMA OthersLeave ==
    ASSUME NEW rq, NEW ready \in SUBSET Tasks, NEW pri \in [Tasks -> Pri],
           InOrder(rq, ready, pri), NEW t \in ready,
           NEW s, s # t, Leads(rq, ready, pri, s)
    PROVE  /\ Leads(ready_queue_delete(rq, t, pri[t]), ready \ {t}, pri, s)
           /\ Leads(ready_queue_move_last(rq, t, pri[t]), ready, pri, s)
<1> DEFINE p    == pri[t]
           gone == ready_queue_delete(rq, t, p)
           last == ready_queue_move_last(rq, t, p)
<1>1. rq \in RDYQUE /\ Holds(rq, ready, pri) /\ p \in Pri
      /\ rq.tskque \in [Pri -> Seq(Tasks)]
  BY DEF InOrder, RDYQUE
<1>2. \A q \in Pri : Links(rq.tskque[q], Level(ready, pri, q))
  BY <1>1, HoldsLinks
<1>3. s \in ready /\ Head(rq.tskque[pri[s]]) = s /\ (\A u \in ready : pri[s] <= pri[u])
      /\ rq.klocktsk = NULL
  BY DEF Leads
<1>4. /\ gone.klocktsk = NULL /\ gone.tskque[p] = RemoveFirst(rq.tskque[p], t)
      /\ \A q \in Pri \ {p} : gone.tskque[q] = rq.tskque[q]
  BY <1>1, <1>3 DEF ready_queue_delete
<1>5. /\ last.klocktsk = NULL /\ last.tskque[p] = Append(RemoveFirst(rq.tskque[p], t), t)
      /\ \A q \in Pri \ {p} : last.tskque[q] = rq.tskque[q]
  BY <1>1, <1>3 DEF ready_queue_move_last, RDYQUE
<1> HIDE DEF gone, last
<1>6. pri[s] \in Pri /\ s \in Level(ready, pri, pri[s]) /\ t \in Level(ready, pri, p)
  BY <1>3 DEF Level
<1> HIDE DEF p
<1>7. Head(gone.tskque[pri[s]]) = s /\ Head(last.tskque[pri[s]]) = s
  <2>1. CASE pri[s] = p
    <3>1. rq.tskque[p] # <<>> /\ Head(rq.tskque[p]) = s
      BY <1>1, <1>2, <1>3, <1>6, <2>1, EmptyQueue
    <3>2. Links(rq.tskque[p], Level(ready, pri, p))
      BY <1>1, <1>2
    <3>3. /\ Head(RemoveFirst(rq.tskque[p], t)) = s
          /\ Head(Append(RemoveFirst(rq.tskque[p], t), t)) = s
      BY <1>6, <3>1, <3>2, HeadStays
    <3> QED BY <1>4, <1>5, <2>1, <3>3
  <2>2. CASE pri[s] # p
    BY <1>3, <1>4, <1>5, <1>6, <2>2
  <2> QED BY <2>1, <2>2
<1> QED BY <1>3, <1>4, <1>5, <1>7 DEF Leads, gone, last, p

-----------------------------------------------------------------------------
(* The functions of task.c and klock.c                                     *)

KernelType == [tcb   : [Tasks -> TCB],
               rq    : RDYQUE,
               wtskq : [Locks -> Seq(Tasks)],
               sched : Tasks \cup {NULL}]

ObjType == [Tasks -> Locks \cup {NULL}]

Exec(k) == {t \in Tasks : k.tcb[t].state = "READY" /\ ~k.tcb[t].klockwait}

Pris(k) == [t \in Tasks |-> k.tcb[t].priority]

WaitersIn(k, o, l) == {t \in Tasks : k.tcb[t].klockwait /\ o[t] = l}

(* The task queues hold the tasks of R, the lock queues those that wait.   *)
InQueues(k, o, R) ==
    /\ k \in KernelType
    /\ InOrder(k.rq, R, Pris(k))
    /\ \A l \in Locks : Links(k.wtskq[l], WaitersIn(k, o, l))

SchedFrom(s, R) == IF R = {} THEN s = NULL ELSE s \in R

(* No task has a kernel lock. *)
Unheld(k) == \A u \in Tasks : ~k.tcb[u].klocked

(* schedtsk is the first of the tasks R, unless some task has a lock. *)
Ranks(k, R) == Unheld(k) => Leads(k.rq, R, Pris(k), k.sched)

(* The fields that the queue operations leave alone *)
SameFields(c, d) ==
    /\ c.priority = d.priority /\ c.ipriority = d.ipriority
    /\ c.wspec = d.wspec /\ c.wupcnt = d.wupcnt /\ c.suscnt = d.suscnt
    /\ c.klocked = d.klocked

SameTask(c, d) == c.state = d.state /\ SameFields(c, d)

(* j differs from k in the order of the queues and slice counters only. *)
SameTasks(j, k) ==
    \A u \in Tasks : SameTask(j.tcb[u], k.tcb[u])
                     /\ j.tcb[u].klockwait = k.tcb[u].klockwait

(* As SameTasks, but t no longer waits for a lock. *)
TakenOut(j, k, t) ==
    \A u \in Tasks : SameTask(j.tcb[u], k.tcb[u])
                     /\ j.tcb[u].klockwait = (u # t /\ k.tcb[u].klockwait)

(* RemoveFirst changes no queue that does not link the task. *)
LEMMA RemoveAbsent ==
    ASSUME NEW s, NEW A, Links(s, A), NEW t, t \notin A
    PROVE  RemoveFirst(s, t) = s
<1>1. ~ \E i \in 1 .. Len(s) : s[i] = t
  BY Places DEF Links
<1> QED BY <1>1 DEF RemoveFirst

(* What InQueues says survives a change of other fields. *)
LEMMA FrameQueues ==
    ASSUME NEW k, NEW j \in KernelType, NEW o, NEW new, NEW R \in SUBSET Tasks,
           InQueues(k, o, R), j.rq = k.rq, j.wtskq = k.wtskq,
           \A t \in R : j.tcb[t].priority = k.tcb[t].priority,
           \A l \in Locks : WaitersIn(j, new, l) = WaitersIn(k, o, l)
    PROVE  InQueues(j, new, R)
<1>1. \A t \in R : Pris(j)[t] = Pris(k)[t]
  BY DEF Pris
<1>2. InOrder(j.rq, R, Pris(j))
  BY <1>1, SamePriorities DEF InQueues
<1> QED BY <1>2 DEF InQueues

LEMMA FrameRanks ==
    ASSUME NEW k, NEW j, NEW R \in SUBSET Tasks, Ranks(k, R),
           j.rq = k.rq, j.sched = k.sched, Unheld(j) => Unheld(k),
           \A t \in R : j.tcb[t].priority = k.tcb[t].priority
    PROVE  Ranks(j, R)
  BY DEF Ranks, Leads, Pris

LEMMA TimesAreNumbers ==
    /\ \A s \in SliceTimes \cup {0} : s \in Nat
    /\ TIMER_PERIOD \in Nat
  BY TaskSchedAssumption

LEMMA PrisType ==
    ASSUME NEW k \in KernelType
    PROVE  Pris(k) \in [Tasks -> Pri]
  BY DEF KernelType, Pris, TCB

(* ready_queue_insert of a task that is in no queue *)
LEMMA InsertQueues ==
    ASSUME NEW k, NEW o, NEW R \in SUBSET Tasks, InQueues(k, o, R),
           NEW t \in Tasks \ R
    PROVE  /\ InQueues(Insert(k, t), o, R \cup {t})
           /\ SameTasks(Insert(k, t), k)
           /\ Insert(k, t).sched = k.sched
           /\ Insert(k, t).wtskq = k.wtskq
<1> DEFINE j  == Insert(k, t)
           rq == ready_queue_insert(k.rq, t, k.tcb[t].priority, k.tcb[t].klocked)
<1>1. k \in KernelType /\ k.tcb[t].klocked \in BOOLEAN
  BY DEF InQueues, KernelType, TCB
<1>2. InOrder(rq, R \cup {t}, Pris(k))
  <2>1. Pris(k)[t] = k.tcb[t].priority
    BY DEF Pris
  <2>2. InOrder(ready_queue_insert(k.rq, t, Pris(k)[t], k.tcb[t].klocked),
                R \cup {t}, Pris(k))
    BY <1>1, PrisType, InsertInOrder DEF InQueues
  <2> QED BY <2>1, <2>2
<1>3. rq \in RDYQUE
  BY <1>2 DEF InOrder
<1> HIDE DEF rq
<1>4. j = [k EXCEPT !.tcb[t].slicecnt = 0, !.rq = rq]
  BY DEF Insert, rq
<1>5. j \in KernelType /\ j.rq = rq /\ j.sched = k.sched /\ j.wtskq = k.wtskq
  <2> DEFINE c == [k.tcb[t] EXCEPT !.slicecnt = 0]
  <2>1. c \in TCB
    <3>1. k.tcb[t] \in TCB
      BY <1>1 DEF KernelType
    <3> QED BY <3>1 DEF TCB
  <2>2. [k.tcb EXCEPT ![t] = c] \in [Tasks -> TCB]
    BY <1>1, <2>1 DEF KernelType
  <2>3. j = [k EXCEPT !.tcb = [k.tcb EXCEPT ![t] = c], !.rq = rq]
    BY <1>1, <1>4 DEF KernelType
  <2> HIDE DEF c, j
  <2> QED BY <1>1, <1>3, <2>2, <2>3 DEF KernelType
<1>6. SameTasks(j, k)
  BY <1>1, <1>4 DEF SameTasks, SameTask, SameFields, KernelType, TCB
<1> HIDE DEF j
<1>7. Pris(j) = Pris(k) /\ \A l \in Locks : WaitersIn(j, o, l) = WaitersIn(k, o, l)
  BY <1>6 DEF SameTasks, SameTask, SameFields, Pris, WaitersIn
<1> QED BY <1>2, <1>5, <1>6, <1>7 DEF InQueues, j

(* ready_queue_delete of a task that is in a queue *)
LEMMA DeleteQueues ==
    ASSUME NEW k, NEW o \in ObjType, NEW R \in SUBSET Tasks, InQueues(k, o, R),
           NEW t \in Tasks,
           k.tcb[t].klockwait => o[t] # NULL /\ t \notin R,
           ~k.tcb[t].klockwait => t \in R
    PROVE  /\ InQueues(Delete(k, t), o, R \ {t})
           /\ TakenOut(Delete(k, t), k, t)
           /\ Delete(k, t).sched = k.sched
<1> DEFINE j == Delete(k, t)
<1>1. k \in KernelType /\ k.tcb[t] \in TCB /\ Pris(k) \in [Tasks -> Pri]
  BY PrisType DEF InQueues, KernelType
<1>2. CASE k.tcb[t].klockwait
  <2> DEFINE c   == [k.tcb[t] EXCEPT !.klockwait = FALSE]
             que == [l \in Locks |-> RemoveFirst(k.wtskq[l], t)]
  <2>1. DeleteKlockWaiter(k.rq, t) = k.rq /\ R \ {t} = R
    BY <1>1, <1>2, DeleteWaiterInOrder DEF InQueues
  <2>2. j = [k EXCEPT !.tcb = [k.tcb EXCEPT ![t] = c], !.wtskq = que]
    BY <1>1, <1>2, <2>1 DEF Delete, KernelType
  <2>3. c \in TCB
    BY <1>1 DEF TCB
  <2>4. ASSUME NEW l \in Locks
        PROVE  Links(que[l], WaitersIn(k, o, l) \ {t})
    <3>1. Links(k.wtskq[l], WaitersIn(k, o, l))
      BY DEF InQueues
    <3>2. CASE t \in WaitersIn(k, o, l)
      BY <3>1, <3>2, RemoveElement
    <3>3. CASE t \notin WaitersIn(k, o, l)
      BY <3>1, <3>3, RemoveAbsent
    <3> QED BY <3>2, <3>3
  <2>5. que \in [Locks -> Seq(Tasks)]
    BY <2>4 DEF Links
  <2> HIDE DEF c, que, j
  <2>6. /\ j \in KernelType /\ j.rq = k.rq /\ j.sched = k.sched /\ j.wtskq = que
        /\ j.tcb = [k.tcb EXCEPT ![t] = c]
    BY <1>1, <2>2, <2>3, <2>5 DEF KernelType
  <2>7. TakenOut(j, k, t)
    <3>1. SameTask(c, k.tcb[t]) /\ c.klockwait = FALSE
      BY <1>1 DEF SameTask, SameFields, TCB, c
    <3>2. \A u \in Tasks : j.tcb[u] = IF u = t THEN c ELSE k.tcb[u]
      BY <1>1, <2>6 DEF KernelType
    <3>3. \A u \in Tasks : k.tcb[u].klockwait \in BOOLEAN
      BY <1>1 DEF KernelType, TCB
    <3> QED BY <3>1, <3>2, <3>3 DEF TakenOut, SameTask, SameFields
  <2>8. Pris(j) = Pris(k)
        /\ \A l \in Locks : WaitersIn(j, o, l) = WaitersIn(k, o, l) \ {t}
    BY <2>7 DEF TakenOut, SameTask, SameFields, Pris, WaitersIn
  <2> QED BY <2>1, <2>4, <2>6, <2>7, <2>8 DEF InQueues, j
<1>3. CASE ~k.tcb[t].klockwait
  <2> DEFINE rq == ready_queue_delete(k.rq, t, k.tcb[t].priority)
  <2>1. Pris(k)[t] = k.tcb[t].priority
    BY DEF Pris
  <2>2. InOrder(rq, R \ {t}, Pris(k))
    BY <1>1, <1>3, <2>1, DeleteInOrder DEF InQueues
  <2>3. rq \in RDYQUE
    BY <2>2 DEF InOrder
  <2> HIDE DEF rq
  <2>4. j = [k EXCEPT !.rq = rq]
    BY <1>3 DEF Delete, rq
  <2> HIDE DEF j
  <2>5. /\ j \in KernelType /\ j.rq = rq /\ j.sched = k.sched
        /\ j.wtskq = k.wtskq /\ j.tcb = k.tcb
    BY <1>1, <2>3, <2>4 DEF KernelType
  <2>6. TakenOut(j, k, t)
    <3>1. \A u \in Tasks : k.tcb[u].klockwait \in BOOLEAN
      BY <1>1 DEF KernelType, TCB
    <3> QED BY <1>3, <2>5, <3>1 DEF TakenOut, SameTask, SameFields
  <2>7. Pris(j) = Pris(k)
        /\ \A l \in Locks : WaitersIn(j, o, l) = WaitersIn(k, o, l)
    BY <2>5 DEF Pris, WaitersIn
  <2> QED BY <2>2, <2>5, <2>6, <2>7 DEF InQueues, j
<1> QED BY <1>2, <1>3

(* time_slice_schedule of a task that can execute, or of none *)
LEMMA SliceQueues ==
    ASSUME NEW k, NEW o, NEW R \in SUBSET Tasks, InQueues(k, o, R),
           NEW t \in R \cup {NULL}
    PROVE  /\ InQueues(time_slice_schedule(k, t), o, R)
           /\ SameTasks(time_slice_schedule(k, t), k)
           /\ time_slice_schedule(k, t).sched = k.sched
           /\ t # NULL => SliceHead(k, t) \in R
<1> DEFINE j == time_slice_schedule(k, t)
<1>1. k \in KernelType /\ Pris(k) \in [Tasks -> Pri]
  BY PrisType DEF InQueues
<1>2. CASE t = NULL \/ k.tcb[t].slicetime = 0
  <2>1. j = k
    BY <1>2 DEF time_slice_schedule
  <2>2. t # NULL => SliceHead(k, t) = t
    BY <1>2 DEF SliceHead
  <2> QED BY <2>1, <2>2 DEF SameTasks, SameTask, SameFields
<1>3. CASE t # NULL /\ k.tcb[t].slicetime # 0
  <2>1. t \in Tasks /\ k.tcb[t] \in TCB
    BY <1>1, <1>3 DEF KernelType
  <2>2. k.tcb[t].slicetime \in Nat /\ k.tcb[t].slicecnt \in Nat /\ TIMER_PERIOD \in Nat
    <3>1. k.tcb[t].slicetime \in SliceTimes \cup {0} /\ k.tcb[t].slicecnt \in Nat
      BY <2>1 DEF TCB
    <3> QED BY <3>1, TimesAreNumbers
  <2> DEFINE rq(b) == IF b THEN ready_queue_move_last(k.rq, t, k.tcb[t].priority) ELSE k.rq
             n(b)  == IF b THEN 0 ELSE k.tcb[t].slicecnt + TIMER_PERIOD
             c     == [k.tcb[t] EXCEPT !.slicecnt = n(SliceOver(k, t))]
             new   == rq(SliceOver(k, t))
  <2>3. j = [k EXCEPT !.tcb = [k.tcb EXCEPT ![t] = c], !.rq = new]
    <3>1. CASE SliceOver(k, t)
      BY <1>1, <1>3, <2>2, <3>1 DEF time_slice_schedule, KernelType
    <3>2. CASE ~SliceOver(k, t)
      <4>1. j = [k EXCEPT !.tcb[t].slicecnt = k.tcb[t].slicecnt + TIMER_PERIOD]
        BY <1>3, <2>2, <3>2 DEF time_slice_schedule
      <4>2. new = k.rq /\ c = [k.tcb[t] EXCEPT !.slicecnt = k.tcb[t].slicecnt + TIMER_PERIOD]
        BY <3>2
      <4> HIDE DEF j, new, c
      <4> QED BY <1>1, <4>1, <4>2 DEF KernelType
    <3> QED BY <3>1, <3>2
  <2>4. c \in TCB /\ SameTask(c, k.tcb[t]) /\ c.klockwait = k.tcb[t].klockwait
    <3>1. n(SliceOver(k, t)) \in Nat
      BY <2>2
    <3> HIDE DEF n
    <3> QED BY <2>1, <3>1 DEF TCB, SameTask, SameFields
  <2>5. Pris(k)[t] = k.tcb[t].priority
    BY <2>1 DEF Pris
  <2>6. InOrder(new, R, Pris(k))
    BY <1>1, <1>3, <2>5, MoveLastInOrder DEF InQueues
  <2>7. new \in RDYQUE
    BY <2>6 DEF InOrder
  <2> HIDE DEF c, new, j
  <2>8. /\ j \in KernelType /\ j.rq = new /\ j.sched = k.sched
        /\ j.wtskq = k.wtskq /\ j.tcb = [k.tcb EXCEPT ![t] = c]
    BY <1>1, <2>1, <2>3, <2>4, <2>7 DEF KernelType
  <2>9. SameTasks(j, k)
    <3>1. \A u \in Tasks : j.tcb[u] = IF u = t THEN c ELSE k.tcb[u]
      BY <1>1, <2>8 DEF KernelType
    <3> QED BY <2>4, <3>1 DEF SameTasks, SameTask, SameFields
  <2>10. Pris(j) = Pris(k) /\ \A l \in Locks : WaitersIn(j, o, l) = WaitersIn(k, o, l)
    BY <2>9 DEF SameTasks, SameTask, SameFields, Pris, WaitersIn
  <2>11. SliceHead(k, t) \in R
    <3>1. CASE SliceOver(k, t)
      <4>1. j.rq = ready_queue_move_last(k.rq, t, k.tcb[t].priority)
        BY <2>8, <3>1 DEF new
      <4>2. Head(j.rq.tskque[k.tcb[t].priority]) \in R
        BY <1>1, <1>3, <2>5, <4>1, MoveLastInOrder DEF InQueues
      <4> QED BY <1>3, <2>2, <3>1, <4>2 DEF SliceHead, j
    <3>2. CASE ~SliceOver(k, t)
      BY <1>3, <3>2 DEF SliceHead
    <3> QED BY <3>1, <3>2
  <2> QED BY <2>6, <2>8, <2>9, <2>10, <2>11 DEF InQueues, j
<1> QED BY <1>2, <1>3

-----------------------------------------------------------------------------
(* The queues of a kernel state that a call may leave: the task queues     *)
(* hold the tasks that can execute, and one of them is scheduled.          *)
InKernel(k, o) ==
    /\ InQueues(k, o, Exec(k))
    /\ SchedFrom(k.sched, Exec(k))
    /\ Ranks(k, Exec(k))
    /\ \A t \in Tasks : k.tcb[t].klockwait => k.tcb[t].state = "READY" /\ o[t] # NULL

(* j is k with t moved to state st, out of the queue of a lock. *)
MovedTo(j, k, t, st) ==
    \A u \in Tasks :
        /\ SameFields(j.tcb[u], k.tcb[u])
        /\ j.tcb[u].state = IF u = t THEN st ELSE k.tcb[u].state
        /\ j.tcb[u].klockwait = (u # t /\ k.tcb[u].klockwait)

LEMMA PreemptQueues ==
    ASSUME NEW k, NEW o, NEW R \in SUBSET Tasks, InQueues(k, o, R),
           k.sched \in R \cup {NULL}
    PROVE  /\ InQueues(Preempt(k), o, R)
           /\ SameTasks(Preempt(k), k)
           /\ Preempt(k).sched = k.sched
  BY SliceQueues DEF Preempt, SameTasks, SameTask, SameFields

(* The task that runs is charged and moves behind others, not another.     *)
LEMMA PreemptLeads ==
    ASSUME NEW k, NEW o, NEW R \in SUBSET Tasks, InQueues(k, o, R),
           k.sched \in R \cup {NULL}, NEW s, k.sched # s,
           Leads(k.rq, R, Pris(k), s)
    PROVE  Leads(Preempt(k).rq, R, Pris(k), s)
<1>1. CASE Preempt(k).rq = k.rq
  BY <1>1
<1>2. CASE Preempt(k).rq # k.rq
  <2>1. k.sched = ctxtsk /\ ctxtsk # NULL /\ k \in KernelType
    BY <1>2 DEF Preempt, time_slice_schedule, InQueues
  <2>2. ctxtsk \in R /\ ctxtsk # s /\ ctxtsk \in Tasks
    BY <2>1
  <2> DEFINE c == k.tcb[ctxtsk]
  <2>3. Preempt(k).rq = ready_queue_move_last(k.rq, ctxtsk, c.priority)
    <3>1. c \in TCB
      BY <2>1, <2>2 DEF KernelType
    <3>2. c.slicetime \in Nat
      BY <3>1, TimesAreNumbers DEF TCB
    <3>3. Preempt(k) = time_slice_schedule(k, ctxtsk)
      BY <2>1 DEF Preempt
    <3>4. CASE c.slicetime = 0
      BY <1>2, <2>1, <3>3, <3>4 DEF time_slice_schedule
    <3>5. CASE c.slicetime > 0 /\ ~SliceOver(k, ctxtsk)
      <4>1. time_slice_schedule(k, ctxtsk)
              = [k EXCEPT !.tcb[ctxtsk].slicecnt = k.tcb[ctxtsk].slicecnt + TIMER_PERIOD]
        BY <2>1, <3>2, <3>5 DEF time_slice_schedule
      <4> QED BY <1>2, <2>1, <3>3, <4>1 DEF KernelType
    <3>6. CASE c.slicetime > 0 /\ SliceOver(k, ctxtsk)
      <4>1. time_slice_schedule(k, ctxtsk)
              = [k EXCEPT !.tcb[ctxtsk].slicecnt = 0,
                          !.rq = ready_queue_move_last(k.rq, ctxtsk, c.priority)]
        BY <2>1, <3>2, <3>6 DEF time_slice_schedule
      <4> QED BY <2>1, <3>3, <4>1 DEF KernelType
    <3> QED BY <3>2, <3>4, <3>5, <3>6
  <2>4. Pris(k)[ctxtsk] = c.priority
    BY <2>2 DEF Pris
  <2>5. InOrder(k.rq, R, Pris(k)) /\ Pris(k) \in [Tasks -> Pri]
    BY <2>1, PrisType DEF InQueues
  <2> HIDE DEF c
  <2> QED BY <2>2, <2>3, <2>4, <2>5, OthersLeave
<1> QED BY <1>1, <1>2

(* A choice of the task to run keeps the queues as they are. *)
LEMMA SchedQueues ==
    ASSUME NEW k, NEW o, NEW R \in SUBSET Tasks, InQueues(k, o, R),
           NEW s \in R \cup {NULL}
    PROVE  /\ InQueues([k EXCEPT !.sched = s], o, R)
           /\ SameTasks([k EXCEPT !.sched = s], k)
           /\ [k EXCEPT !.sched = s].sched = s
<1> DEFINE j == [k EXCEPT !.sched = s]
<1>1. k \in KernelType
  BY DEF InQueues
<1>2. /\ j \in KernelType /\ j.sched = s /\ j.tcb = k.tcb /\ j.rq = k.rq
      /\ j.wtskq = k.wtskq
  BY <1>1 DEF KernelType
<1> HIDE DEF j
<1>3. SameTasks(j, k)
  BY <1>2 DEF SameTasks, SameTask, SameFields
<1>4. \A l \in Locks : WaitersIn(j, o, l) = WaitersIn(k, o, l)
  BY <1>2 DEF WaitersIn
<1>5. InQueues(j, o, R)
  BY <1>2, <1>4, FrameQueues
<1> QED BY <1>2, <1>3, <1>5 DEF j

(* reschedule chooses a task of R, if there is one. *)
LEMMA RescheduleQueues ==
    ASSUME NEW k, NEW o, NEW R \in SUBSET Tasks, InQueues(k, o, R),
           k.sched \in R \cup {NULL}
    PROVE  /\ InQueues(reschedule(k), o, R)
           /\ SameTasks(reschedule(k), k)
           /\ SchedFrom(reschedule(k).sched, R)
           /\ k.rq.klocktsk = NULL => Ranks(reschedule(k), R)
<1>1. SchedFrom(Chosen(k), R)
  BY PrisType, TopInOrder DEF InQueues, Chosen, SchedFrom
<1>4. k.rq.klocktsk = NULL => Leads(k.rq, R, Pris(k), Chosen(k))
  BY PrisType, TopLeads DEF InQueues, Chosen
<1>2. CASE k.sched = Chosen(k)
  BY <1>1, <1>2, <1>4 DEF reschedule, Ranks, SameTasks, SameTask, SameFields
<1>3. CASE k.sched # Chosen(k)
  <2> DEFINE j == Preempt(k)
  <2>1. InQueues(j, o, R) /\ SameTasks(j, k)
    BY PreemptQueues
  <2>2. reschedule(k) = [j EXCEPT !.sched = Chosen(k)]
    BY <1>3 DEF reschedule
  <2>3. Chosen(k) \in R \cup {NULL}
    BY <1>1 DEF SchedFrom
  <2> HIDE DEF j
  <2>4. /\ InQueues(reschedule(k), o, R)
        /\ SameTasks(reschedule(k), j)
        /\ reschedule(k).sched = Chosen(k)
    BY <2>1, <2>2, <2>3, SchedQueues
  <2>5. reschedule(k).rq = j.rq
    BY <2>1, <2>2 DEF InQueues, KernelType
  <2>6. Pris(reschedule(k)) = Pris(k)
    BY <2>1, <2>4 DEF Pris, SameTasks, SameTask, SameFields
  <2>7. k.rq.klocktsk = NULL => Ranks(reschedule(k), R)
    BY <1>3, <1>4, <2>4, <2>5, <2>6, PreemptLeads DEF Ranks, j
  <2> QED BY <1>1, <2>1, <2>4, <2>7 DEF SameTasks, SameTask, SameFields
<1> QED BY <1>2, <1>3

LEMMA ExecInTasks ==
    ASSUME NEW k
    PROVE  Exec(k) \in SUBSET Tasks
  BY DEF Exec

LEMMA SetState ==
    ASSUME NEW k \in KernelType, NEW t \in Tasks, NEW st \in TSTAT
    PROVE  LET j == [k EXCEPT !.tcb[t].state = st]
           IN  /\ j \in KernelType
               /\ j.rq = k.rq /\ j.wtskq = k.wtskq /\ j.sched = k.sched
               /\ \A u \in Tasks :
                    /\ SameFields(j.tcb[u], k.tcb[u])
                    /\ j.tcb[u].klockwait = k.tcb[u].klockwait
                    /\ j.tcb[u].state = IF u = t THEN st ELSE k.tcb[u].state
<1> DEFINE c == [k.tcb[t] EXCEPT !.state = st]
           j == [k EXCEPT !.tcb = [k.tcb EXCEPT ![t] = c]]
<1>1. k.tcb[t] \in TCB
  BY DEF KernelType
<1>2. c \in TCB /\ SameFields(c, k.tcb[t]) /\ c.state = st
      /\ c.klockwait = k.tcb[t].klockwait
  BY <1>1 DEF TCB, SameFields
<1>3. j = [k EXCEPT !.tcb[t].state = st]
  BY DEF KernelType
<1> HIDE DEF c
<1>4. j \in KernelType /\ j.tcb = [k.tcb EXCEPT ![t] = c]
      /\ j.rq = k.rq /\ j.wtskq = k.wtskq /\ j.sched = k.sched
  BY <1>2 DEF KernelType
<1>5. \A u \in Tasks : j.tcb[u] = IF u = t THEN c ELSE k.tcb[u]
  BY <1>4 DEF KernelType
<1> HIDE DEF j
<1> QED BY <1>2, <1>3, <1>4, <1>5 DEF SameFields

(* make_ready of a task that is not ready *)
LEMMA MakeReady ==
    ASSUME NEW k, NEW o, InKernel(k, o), NEW t \in Tasks,
           k.tcb[t].state # "READY"
    PROVE  /\ InKernel(make_ready(k, t), o)
           /\ MovedTo(make_ready(k, t), k, t, "READY")
<1> DEFINE R == Exec(k)
           w == [k EXCEPT !.tcb[t].state = "READY"]
           n == Insert(w, t)
           j == make_ready(k, t)
<1>1. /\ k \in KernelType /\ InQueues(k, o, R) /\ R \in SUBSET Tasks /\ t \notin R
      /\ SchedFrom(k.sched, R) /\ ~k.tcb[t].klockwait
  BY DEF InKernel, InQueues, Exec
<1>2. /\ w \in KernelType /\ w.rq = k.rq /\ w.wtskq = k.wtskq /\ w.sched = k.sched
      /\ \A u \in Tasks :
           /\ SameFields(w.tcb[u], k.tcb[u])
           /\ w.tcb[u].klockwait = k.tcb[u].klockwait
           /\ w.tcb[u].state = IF u = t THEN "READY" ELSE k.tcb[u].state
  BY <1>1, SetState DEF TSTAT
<1> HIDE DEF w
<1>3. InQueues(w, o, R)
  <2>1. \A l \in Locks : WaitersIn(w, o, l) = WaitersIn(k, o, l)
    BY <1>2 DEF WaitersIn
  <2> QED BY <1>1, <1>2, <2>1, FrameQueues DEF SameFields
<1>4. /\ InQueues(n, o, R \cup {t}) /\ SameTasks(n, w) /\ n.sched = k.sched
  BY <1>1, <1>2, <1>3, InsertQueues
<1>8. /\ Unheld(k) => Leads(n.rq, R \cup {t}, Pris(k),
                           IF RaisesTop(k.rq, k.tcb[t].priority) THEN t ELSE k.sched)
      /\ Pris(n) = Pris(k)
  <2>1. Pris(w) = Pris(k) /\ Pris(k)[t] = k.tcb[t].priority /\ w.tcb[t] \in TCB
    BY <1>2 DEF Pris, SameFields, KernelType
  <2>2. Pris(n) = Pris(w)
    BY <1>4 DEF Pris, SameTasks, SameTask, SameFields
  <2>3. ASSUME Unheld(k)
        PROVE  n.rq = ready_queue_insert(k.rq, t, Pris(k)[t], FALSE)
    <3>1. w.tcb[t].klocked = FALSE /\ w.tcb[t].priority = Pris(k)[t]
      BY <1>2, <2>1, <2>3 DEF Unheld, SameFields, TCB
    <3> QED BY <1>2, <3>1 DEF Insert, KernelType, n
  <2>4. InOrder(k.rq, R, Pris(k)) /\ Pris(k) \in [Tasks -> Pri]
    BY <1>1, PrisType DEF InQueues
  <2>5. Unheld(k) => Leads(k.rq, R, Pris(k), k.sched)
    BY DEF InKernel, Ranks, R
  <2>6. ASSUME Unheld(k)
        PROVE  Leads(n.rq, R \cup {t}, Pris(k),
                     IF RaisesTop(k.rq, Pris(k)[t]) THEN t ELSE k.sched)
    <3>1. Leads(ready_queue_insert(k.rq, t, Pris(k)[t], FALSE), R \cup {t}, Pris(k),
                IF RaisesTop(k.rq, Pris(k)[t]) THEN t ELSE k.sched)
      <4> HIDE DEF R
      <4> QED BY <1>1, <2>4, <2>5, <2>6, InsertLeads
    <3> QED BY <2>3, <2>6, <3>1
  <2> QED BY <2>1, <2>2, <2>6
<1>5. ASSUME NEW m, InQueues(m, o, R \cup {t}), SameTasks(m, n),
             SchedFrom(m.sched, R \cup {t}),
             Unheld(k) => Leads(m.rq, R \cup {t}, Pris(k), m.sched)
      PROVE  InKernel(m, o) /\ MovedTo(m, k, t, "READY")
  <2>1. MovedTo(m, k, t, "READY")
    <3>1. \A u \in Tasks : k.tcb[u].klockwait \in BOOLEAN
      BY <1>1 DEF KernelType, TCB
    <3> QED BY <1>1, <1>2, <1>4, <1>5, <3>1 DEF MovedTo, SameTasks, SameTask, SameFields
  <2>2. Exec(m) = R \cup {t}
    BY <1>1, <2>1 DEF MovedTo, Exec
  <2>3. Pris(m) = Pris(k) /\ (Unheld(m) => Unheld(k))
    BY <2>1 DEF MovedTo, SameFields, Pris, Unheld
  <2>4. Ranks(m, Exec(m))
    BY <1>5, <2>2, <2>3 DEF Ranks
  <2> QED BY <1>5, <2>1, <2>2, <2>4 DEF InKernel, MovedTo
<1> HIDE DEF n, R
<1>6. CASE RaisesTop(k.rq, k.tcb[t].priority)
  <2>1. j = [Preempt(n) EXCEPT !.sched = t]
    BY <1>6 DEF make_ready, n, w
  <2>2. /\ InQueues(Preempt(n), o, R \cup {t}) /\ SameTasks(Preempt(n), n)
    BY <1>1, <1>4, PreemptQueues DEF SchedFrom
  <2> HIDE DEF j
  <2>3. InQueues(j, o, R \cup {t}) /\ SameTasks(j, Preempt(n)) /\ j.sched = t
    BY <1>1, <2>1, <2>2, SchedQueues
  <2>4. SameTasks(j, n) /\ SchedFrom(j.sched, R \cup {t})
    BY <2>2, <2>3 DEF SameTasks, SameTask, SameFields, SchedFrom
  <2>5. j.rq = Preempt(n).rq
    BY <2>1, <2>2 DEF InQueues, KernelType
  <2>6. n.sched # t /\ n.sched \in (R \cup {t}) \cup {NULL} /\ R \cup {t} \in SUBSET Tasks
    BY <1>1, <1>4, ReadyQueueAssumption DEF SchedFrom
  <2>7. Unheld(k) => Leads(j.rq, R \cup {t}, Pris(k), j.sched)
    BY <1>4, <1>6, <1>8, <2>3, <2>5, <2>6, PreemptLeads
  <2> QED BY <1>5, <2>3, <2>4, <2>7 DEF j
<1>7. CASE ~RaisesTop(k.rq, k.tcb[t].priority)
  <2>1. j = n
    BY <1>7 DEF make_ready, n, w
  <2>2. R # {}
    <3>1. R = {} => k.rq.top_priority = NUM_PRI
      BY <1>1, PrisType, TopInOrder DEF InQueues
    <3>2. k.tcb[t].priority \in Pri
      BY <1>1 DEF KernelType, TCB
    <3> QED BY <1>7, <3>1, <3>2, ReadyQueueAssumption DEF RaisesTop, Pri
  <2>3. SchedFrom(n.sched, R \cup {t})
    BY <1>1, <1>4, <2>2 DEF SchedFrom
  <2>4. SameTasks(n, n)
    BY DEF SameTasks, SameTask, SameFields
  <2>5. Unheld(k) => Leads(n.rq, R \cup {t}, Pris(k), n.sched)
    BY <1>4, <1>7, <1>8
  <2> QED BY <1>4, <1>5, <2>1, <2>3, <2>4, <2>5
<1> QED BY <1>6, <1>7

(* make_non_ready of a READY task, which the caller moves to state st *)
LEMMA MakeNonReady ==
    ASSUME NEW k, NEW o \in ObjType, InKernel(k, o), NEW t \in Tasks,
           k.tcb[t].state = "READY"
    PROVE  /\ InQueues(make_non_ready(k, t), o, Exec(k) \ {t})
           /\ TakenOut(make_non_ready(k, t), k, t)
           /\ SchedFrom(make_non_ready(k, t).sched, Exec(k) \ {t})
           /\ Ranks(make_non_ready(k, t), Exec(k) \ {t})
<1> DEFINE R == Exec(k)
           g == Delete(k, t)
<1>1. R \in SUBSET Tasks /\ InQueues(k, o, R) /\ SchedFrom(k.sched, R)
  BY DEF Exec, InKernel
<1>2. /\ k.tcb[t].klockwait => o[t] # NULL /\ t \notin R
      /\ ~k.tcb[t].klockwait => t \in R
  BY DEF InKernel, Exec
<1> HIDE DEF R
<1>3. InQueues(g, o, R \ {t}) /\ TakenOut(g, k, t) /\ g.sched = k.sched
  BY <1>1, <1>2, DeleteQueues
<1> HIDE DEF g
<1>4. SchedFrom(Chosen(g), R \ {t})
  BY <1>1, <1>3, PrisType, TopInOrder DEF InQueues, Chosen, SchedFrom
<1>5. SchedFrom(ChooseAfterDelete(g, t), R \ {t})
  BY <1>1, <1>3, <1>4, ReadyQueueAssumption DEF ChooseAfterDelete, SchedFrom
<1>6. make_non_ready(k, t) = [g EXCEPT !.sched = ChooseAfterDelete(g, t)]
  BY DEF make_non_ready, g
<1>7. ChooseAfterDelete(g, t) \in (R \ {t}) \cup {NULL}
  BY <1>5 DEF SchedFrom
<1>8. /\ InQueues(make_non_ready(k, t), o, R \ {t})
      /\ SameTasks(make_non_ready(k, t), g)
      /\ make_non_ready(k, t).sched = ChooseAfterDelete(g, t)
  BY <1>1, <1>3, <1>6, <1>7, SchedQueues
<1>9. TakenOut(make_non_ready(k, t), k, t)
  BY <1>3, <1>8 DEF TakenOut, SameTasks, SameTask, SameFields
<1>10. make_non_ready(k, t).rq = g.rq /\ Pris(make_non_ready(k, t)) = Pris(g)
       /\ Pris(g) = Pris(k)
  <2>1. make_non_ready(k, t).rq = g.rq
    BY <1>3, <1>6 DEF InQueues, KernelType
  <2>2. Pris(make_non_ready(k, t)) = Pris(g) /\ Pris(g) = Pris(k)
    BY <1>3, <1>8 DEF Pris, TakenOut, SameTasks, SameTask, SameFields
  <2> QED BY <2>1, <2>2
<1>11. ASSUME Unheld(k) PROVE Leads(g.rq, R \ {t}, Pris(k), ChooseAfterDelete(g, t))
  <2>1. /\ Leads(k.rq, R, Pris(k), k.sched) /\ k.rq.klocktsk = NULL
        /\ InOrder(k.rq, R, Pris(k)) /\ Pris(k) \in [Tasks -> Pri]
        /\ InOrder(g.rq, R \ {t}, Pris(k)) /\ k \in KernelType
    BY <1>1, <1>3, <1>10, <1>11, PrisType DEF InQueues, InKernel, Ranks, Leads, R
  <2>2. CASE k.tcb[t].klockwait
    <3>1. g.rq = k.rq /\ t \notin R
      <4>1. DeleteKlockWaiter(k.rq, t) = k.rq
        BY <1>1, <1>2, <2>1, <2>2, DeleteWaiterInOrder
      <4>2. g = [k EXCEPT !.tcb[t].klockwait = FALSE,
                          !.wtskq = [l \in Locks |-> RemoveFirst(k.wtskq[l], t)],
                          !.rq = DeleteKlockWaiter(k.rq, t)]
        BY <2>2 DEF Delete, g
      <4> QED BY <1>2, <2>1, <2>2, <4>1, <4>2 DEF KernelType
    <3>2. R \ {t} = R /\ k.sched # t
      BY <1>1, <3>1, ReadyQueueAssumption DEF SchedFrom
    <3> QED BY <1>3, <2>1, <3>1, <3>2 DEF ChooseAfterDelete
  <2>3. CASE ~k.tcb[t].klockwait
    <3>1. g.rq = ready_queue_delete(k.rq, t, Pris(k)[t]) /\ t \in R
      BY <1>2, <2>1, <2>3 DEF Delete, KernelType, Pris, g
    <3>2. g.rq.klocktsk = NULL
      BY <2>1, <3>1 DEF ready_queue_delete
    <3>3. CASE k.sched = t
      BY <1>1, <1>3, <2>1, <3>2, <3>3, TopLeads DEF ChooseAfterDelete, Chosen
    <3>4. CASE k.sched # t
      <4> DEFINE f == Pris(k)
                 q == k.rq
                 s == k.sched
      <4>1. /\ InOrder(q, R, f) /\ Leads(q, R, f, s) /\ f \in [Tasks -> Pri]
            /\ R \in SUBSET Tasks /\ t \in R /\ g.rq = ready_queue_delete(q, t, f[t])
            /\ s # t
        BY <1>1, <2>1, <3>1, <3>4
      <4> HIDE DEF f, q, s
      <4>2. Leads(g.rq, R \ {t}, f, s)
        <5>1. Leads(ready_queue_delete(q, t, f[t]), R \ {t}, f, s)
          BY <4>1, OthersLeave
        <5> QED BY <4>1, <5>1
      <4>3. ChooseAfterDelete(g, t) = k.sched
        BY <1>3, <3>4 DEF ChooseAfterDelete
      <4> QED BY <4>2, <4>3 DEF f, s
    <3> QED BY <3>3, <3>4
  <2> QED BY <2>2, <2>3
<1>12. Unheld(make_non_ready(k, t)) => Unheld(k)
  BY <1>9 DEF TakenOut, SameTask, SameFields, Unheld
<1>13. Ranks(make_non_ready(k, t), R \ {t})
  BY <1>8, <1>10, <1>11, <1>12 DEF Ranks
<1> QED BY <1>5, <1>8, <1>9, <1>13 DEF R

-----------------------------------------------------------------------------
(* A field of t changes that the queues do not depend on. *)
LEMMA SetFields ==
    ASSUME NEW k, NEW o, InKernel(k, o), NEW t \in Tasks, NEW c \in TCB,
           c.state = k.tcb[t].state, c.klockwait = k.tcb[t].klockwait,
           t \in Exec(k) => c.priority = k.tcb[t].priority,
           c.klocked = k.tcb[t].klocked
    PROVE  LET j == [k EXCEPT !.tcb[t] = c]
           IN  /\ InKernel(j, o)
               /\ \A u \in Tasks : j.tcb[u] = IF u = t THEN c ELSE k.tcb[u]
<1> DEFINE j == [k EXCEPT !.tcb[t] = c]
<1>1. k \in KernelType
  BY DEF InKernel, InQueues
<1>2. /\ j \in KernelType /\ j.rq = k.rq /\ j.wtskq = k.wtskq /\ j.sched = k.sched
      /\ j.tcb = [k.tcb EXCEPT ![t] = c]
  BY <1>1 DEF KernelType
<1>3. \A u \in Tasks : j.tcb[u] = IF u = t THEN c ELSE k.tcb[u]
  BY <1>1, <1>2 DEF KernelType
<1> HIDE DEF j
<1>4. Exec(j) = Exec(k) /\ Exec(k) \in SUBSET Tasks
  BY <1>3 DEF Exec
<1>5. \A l \in Locks : WaitersIn(j, o, l) = WaitersIn(k, o, l)
  BY <1>3 DEF WaitersIn
<1>6. InQueues(j, o, Exec(k))
  <2>1. \A u \in Exec(k) : j.tcb[u].priority = k.tcb[u].priority
    BY <1>3, <1>4
  <2>2. InQueues(k, o, Exec(k))
    BY DEF InKernel
  <2> QED BY <1>2, <1>4, <1>5, <2>1, <2>2, FrameQueues
<1>7. Ranks(j, Exec(k))
  <2>1. \A u \in Exec(k) : j.tcb[u].priority = k.tcb[u].priority
    BY <1>3, <1>4
  <2>2. Unheld(j) => Unheld(k)
    BY <1>3 DEF Unheld
  <2>3. Ranks(k, Exec(k)) /\ j.rq = k.rq /\ j.sched = k.sched
    BY <1>2 DEF InKernel
  <2> QED BY <1>4, <2>1, <2>2, <2>3, FrameRanks
<1> QED BY <1>2, <1>3, <1>4, <1>6, <1>7 DEF InKernel, j

(* A READY task leaves for state st. *)
LEMMA LeaveReady ==
    ASSUME NEW k, NEW o \in ObjType, InKernel(k, o), NEW t \in Tasks,
           k.tcb[t].state = "READY", NEW st \in TSTAT \ {"READY"}
    PROVE  /\ InKernel([make_non_ready(k, t) EXCEPT !.tcb[t].state = st], o)
           /\ MovedTo([make_non_ready(k, t) EXCEPT !.tcb[t].state = st], k, t, st)
<1> DEFINE g == make_non_ready(k, t)
           j == [g EXCEPT !.tcb[t].state = st]
<1>1. /\ InQueues(g, o, Exec(k) \ {t}) /\ TakenOut(g, k, t)
      /\ SchedFrom(g.sched, Exec(k) \ {t}) /\ Ranks(g, Exec(k) \ {t})
  BY MakeNonReady
<1> HIDE DEF g
<1>2. g \in KernelType
  BY <1>1 DEF InQueues
<1>3. /\ j \in KernelType /\ j.rq = g.rq /\ j.wtskq = g.wtskq /\ j.sched = g.sched
      /\ \A u \in Tasks :
           /\ SameFields(j.tcb[u], g.tcb[u])
           /\ j.tcb[u].klockwait = g.tcb[u].klockwait
           /\ j.tcb[u].state = IF u = t THEN st ELSE g.tcb[u].state
  BY <1>2, SetState
<1> HIDE DEF j
<1>4. MovedTo(j, k, t, st)
  BY <1>1, <1>3 DEF MovedTo, TakenOut, SameTask, SameFields
<1>5. Exec(j) = Exec(k) \ {t}
  BY <1>4 DEF MovedTo, Exec
<1>6. InQueues(j, o, Exec(k) \ {t})
  <2>1. \A l \in Locks : WaitersIn(j, o, l) = WaitersIn(g, o, l)
    BY <1>3 DEF WaitersIn
  <2>2. Exec(k) \ {t} \in SUBSET Tasks
    BY DEF Exec
  <2> QED BY <1>1, <1>3, <2>1, <2>2, FrameQueues DEF SameFields, Exec
<1>7. Ranks(j, Exec(k) \ {t})
  <2>1. /\ \A u \in Tasks : j.tcb[u].priority = g.tcb[u].priority
        /\ Unheld(j) => Unheld(g)
    BY <1>3 DEF SameFields, Unheld
  <2>2. Exec(k) \ {t} \in SUBSET Tasks
    BY DEF Exec
  <2> QED BY <1>1, <1>3, <2>1, <2>2, FrameRanks
<1> QED BY <1>1, <1>3, <1>4, <1>5, <1>6, <1>7 DEF InKernel, MovedTo, g, j

(* A task outside the ready queue changes from one such state to another. *)
LEMMA Relabel ==
    ASSUME NEW k, NEW o, InKernel(k, o), NEW t \in Tasks,
           k.tcb[t].state # "READY", NEW st \in TSTAT \ {"READY"}
    PROVE  /\ InKernel([k EXCEPT !.tcb[t].state = st], o)
           /\ MovedTo([k EXCEPT !.tcb[t].state = st], k, t, st)
<1> DEFINE j == [k EXCEPT !.tcb[t].state = st]
<1>1. k \in KernelType /\ ~k.tcb[t].klockwait
      /\ \A u \in Tasks : k.tcb[u].klockwait \in BOOLEAN
  BY DEF InKernel, InQueues, KernelType, TCB
<1>2. /\ j \in KernelType /\ j.rq = k.rq /\ j.wtskq = k.wtskq /\ j.sched = k.sched
      /\ \A u \in Tasks :
           /\ SameFields(j.tcb[u], k.tcb[u])
           /\ j.tcb[u].klockwait = k.tcb[u].klockwait
           /\ j.tcb[u].state = IF u = t THEN st ELSE k.tcb[u].state
  BY <1>1, SetState
<1> HIDE DEF j
<1>3. Exec(j) = Exec(k) /\ Exec(k) \in SUBSET Tasks
  BY <1>2 DEF Exec
<1>4. \A l \in Locks : WaitersIn(j, o, l) = WaitersIn(k, o, l)
  BY <1>2 DEF WaitersIn
<1>5. InQueues(j, o, Exec(k))
  BY <1>2, <1>3, <1>4, FrameQueues DEF InKernel, SameFields
<1>6. MovedTo(j, k, t, st)
  BY <1>1, <1>2 DEF MovedTo, SameFields
<1>7. Ranks(j, Exec(k))
  <2>1. /\ \A u \in Tasks : j.tcb[u].priority = k.tcb[u].priority
        /\ Unheld(j) => Unheld(k)
    BY <1>2 DEF SameFields, Unheld
  <2>2. Ranks(k, Exec(k))
    BY DEF InKernel
  <2> QED BY <1>2, <1>3, <2>1, <2>2, FrameRanks
<1> QED BY <1>1, <1>2, <1>3, <1>5, <1>6, <1>7 DEF InKernel, j

-----------------------------------------------------------------------------
(* What a call keeps true of each task that was true of it before: its     *)
(* suspensions are counted, no wakeup is kept from it while it sleeps, and *)
(* a task with a kernel lock is alive.                                     *)
TaskFact(c) ==
    /\ c.suscnt > 0 <=> c.state \in {"SUSPEND", "WAITSUS"}
    /\ c.state \in {"WAIT", "WAITSUS"} /\ c.wspec = "slp" => c.wupcnt = 0
    /\ c.klocked => c.state \notin {"NONEXIST", "DORMANT"}

(* From c to d a task takes and frees no lock and waits for none. *)
NoLocking(c, d) ==
    /\ d.klocked = c.klocked
    /\ d.klockwait => c.klockwait

(* From k to j only task t changes what TaskFact is about. *)
OthersKeep(j, k, t) ==
    \A u \in Tasks \ {t} : SameTask(j.tcb[u], k.tcb[u])
                            /\ j.tcb[u].klockwait = k.tcb[u].klockwait

(* make_non_wait: the wait ends, a suspension does not. *)
LEMMA MakeNonWait ==
    ASSUME NEW k, NEW o, InKernel(k, o), NEW t \in Tasks,
           k.tcb[t].state \in {"WAIT", "WAITSUS"}
    PROVE  LET j == make_non_wait(k, t)
           IN  /\ InKernel(j, o)
               /\ OthersKeep(j, k, t)
               /\ NoLocking(k.tcb[t], j.tcb[t])
               /\ TaskFact(k.tcb[t]) => TaskFact(j.tcb[t])
<1> DEFINE c == [k.tcb[t] EXCEPT !.wspec = "none"]
           a == [k EXCEPT !.tcb[t] = c]
           j == make_non_wait(k, t)
<1>1. k \in KernelType /\ k.tcb[t] \in TCB
  BY DEF InKernel, InQueues, KernelType
<1>2. /\ c \in TCB /\ c.state = k.tcb[t].state /\ c.priority = k.tcb[t].priority
      /\ c.klockwait = k.tcb[t].klockwait /\ c.klocked = k.tcb[t].klocked
      /\ c.suscnt = k.tcb[t].suscnt /\ c.wspec = "none"
  BY <1>1 DEF TCB
<1>3. a = [k EXCEPT !.tcb[t].wspec = "none"]
  BY <1>1 DEF KernelType
<1> HIDE DEF c
<1>4. InKernel(a, o) /\ \A u \in Tasks : a.tcb[u] = IF u = t THEN c ELSE k.tcb[u]
  BY <1>2, SetFields
<1> HIDE DEF a, j
<1>5. j = IF k.tcb[t].state = "WAIT" THEN make_ready(a, t)
          ELSE [a EXCEPT !.tcb[t].state = "SUSPEND"]
  BY <1>3 DEF make_non_wait, j
<1> DEFINE st == IF k.tcb[t].state = "WAIT" THEN "READY" ELSE "SUSPEND"
<1>6. InKernel(j, o) /\ MovedTo(j, a, t, st)
  <2>1. a.tcb[t].state \in {"WAIT", "WAITSUS"}
    BY <1>2, <1>4
  <2>2. CASE k.tcb[t].state = "WAIT"
    BY <1>4, <1>5, <2>1, <2>2, MakeReady
  <2>3. CASE k.tcb[t].state # "WAIT"
    BY <1>4, <1>5, <2>1, <2>3, Relabel DEF TSTAT
  <2> QED BY <2>2, <2>3
<1>7. \A u \in Tasks : k.tcb[u].klockwait \in BOOLEAN
  BY <1>1 DEF KernelType, TCB
<1>8. OthersKeep(j, k, t)
  BY <1>4, <1>6, <1>7 DEF OthersKeep, MovedTo, SameTask, SameFields
<1>9. /\ j.tcb[t].state = st /\ j.tcb[t].wspec = "none" /\ ~j.tcb[t].klockwait
      /\ j.tcb[t].suscnt = k.tcb[t].suscnt /\ j.tcb[t].klocked = k.tcb[t].klocked
  BY <1>2, <1>4, <1>6 DEF MovedTo, SameFields
<1>10. NoLocking(k.tcb[t], j.tcb[t])
  BY <1>9 DEF NoLocking
<1>11. TaskFact(k.tcb[t]) => TaskFact(j.tcb[t])
  BY <1>9 DEF TaskFact
<1> QED BY <1>6, <1>8, <1>10, <1>11 DEF j

(* What MakeNonWait shows of make_non_wait, for any call on a task t *)
Serves(j, k, o, t) ==
    /\ InKernel(j, o)
    /\ OthersKeep(j, k, t)
    /\ NoLocking(k.tcb[t], j.tcb[t])
    /\ TaskFact(k.tcb[t]) => TaskFact(j.tcb[t])

(* make_wait of the task that runs *)
LEMMA MakeWait ==
    ASSUME NEW k, NEW o \in ObjType, InKernel(k, o), NEW t \in Tasks,
           k.tcb[t].state = "READY", NEW w \in {"slp", "mpf"},
           w = "slp" => k.tcb[t].wupcnt = 0
    PROVE  /\ Serves(make_wait(k, t, w), k, o, t)
           /\ make_wait(k, t, w).tcb[t].state = "WAIT"
           /\ make_wait(k, t, w).tcb[t].klocked = k.tcb[t].klocked
           /\ ~make_wait(k, t, w).tcb[t].klockwait
<1> DEFINE c == [k.tcb[t] EXCEPT !.wspec = w]
           a == [k EXCEPT !.tcb[t] = c]
           j == make_wait(k, t, w)
<1>1. k \in KernelType /\ k.tcb[t] \in TCB
  BY DEF InKernel, InQueues, KernelType
<1>2. /\ c \in TCB /\ c.state = k.tcb[t].state /\ c.priority = k.tcb[t].priority
      /\ c.klockwait = k.tcb[t].klockwait /\ c.klocked = k.tcb[t].klocked
      /\ c.suscnt = k.tcb[t].suscnt /\ c.wspec = w /\ c.wupcnt = k.tcb[t].wupcnt
  BY <1>1 DEF TCB
<1>3. a = [k EXCEPT !.tcb[t].wspec = w]
  BY <1>1 DEF KernelType
<1> HIDE DEF c
<1>4. InKernel(a, o) /\ \A u \in Tasks : a.tcb[u] = IF u = t THEN c ELSE k.tcb[u]
  BY <1>2, SetFields
<1> HIDE DEF a, j
<1>5. j = [make_non_ready(a, t) EXCEPT !.tcb[t].state = "WAIT"]
  BY <1>3 DEF make_wait, j
<1>6. InKernel(j, o) /\ MovedTo(j, a, t, "WAIT")
  <2>1. a.tcb[t].state = "READY" /\ "WAIT" \in TSTAT \ {"READY"}
    BY <1>2, <1>4 DEF TSTAT
  <2> QED BY <1>4, <1>5, <2>1, LeaveReady
<1>7. \A u \in Tasks : k.tcb[u].klockwait \in BOOLEAN
  BY <1>1 DEF KernelType, TCB
<1>8. OthersKeep(j, k, t)
  BY <1>4, <1>6, <1>7 DEF OthersKeep, MovedTo, SameTask, SameFields
<1>9. /\ j.tcb[t].state = "WAIT" /\ j.tcb[t].wspec = w /\ ~j.tcb[t].klockwait
      /\ j.tcb[t].suscnt = k.tcb[t].suscnt /\ j.tcb[t].klocked = k.tcb[t].klocked
      /\ j.tcb[t].wupcnt = k.tcb[t].wupcnt
  BY <1>2, <1>4, <1>6 DEF MovedTo, SameFields
<1>10. NoLocking(k.tcb[t], j.tcb[t])
  BY <1>9 DEF NoLocking
<1>11. TaskFact(k.tcb[t]) => TaskFact(j.tcb[t])
  BY <1>9 DEF TaskFact
<1> QED BY <1>6, <1>8, <1>9, <1>10, <1>11 DEF Serves, j

(* A suspension: the task leaves the ready queue, or is suspended as it    *)
(* waits, or is suspended once more.                                       *)
LEMMA Suspends ==
    ASSUME NEW k, NEW o \in ObjType, InKernel(k, o), NEW t \in Tasks,
           k.tcb[t].state \in {"READY", "WAIT", "SUSPEND", "WAITSUS"},
           k.tcb[t].suscnt < MaxSus
    PROVE  Serves(ForceWait([k EXCEPT !.tcb[t].suscnt = k.tcb[t].suscnt + 1], t),
                  k, o, t)
<1> DEFINE c == [k.tcb[t] EXCEPT !.suscnt = k.tcb[t].suscnt + 1]
           a == [k EXCEPT !.tcb[t] = c]
           j == ForceWait(a, t)
           s == CASE k.tcb[t].state = "READY" -> "SUSPEND"
                  [] k.tcb[t].state = "WAIT" -> "WAITSUS"
                  [] OTHER -> k.tcb[t].state
<1>1. k \in KernelType /\ k.tcb[t] \in TCB
  BY DEF InKernel, InQueues, KernelType
<1>2. k.tcb[t].suscnt \in 0 .. MaxSus /\ MaxSus \in Nat
  BY <1>1, TaskSchedAssumption DEF TCB
<1>3. k.tcb[t].suscnt + 1 \in 0 .. MaxSus /\ k.tcb[t].suscnt + 1 > 0
  BY <1>2
<1>4. /\ c \in TCB /\ c.state = k.tcb[t].state /\ c.priority = k.tcb[t].priority
      /\ c.klockwait = k.tcb[t].klockwait /\ c.klocked = k.tcb[t].klocked
      /\ c.suscnt > 0 /\ c.wspec = k.tcb[t].wspec /\ c.wupcnt = k.tcb[t].wupcnt
  BY <1>1, <1>3 DEF TCB
<1>5. a = [k EXCEPT !.tcb[t].suscnt = k.tcb[t].suscnt + 1]
  BY <1>1 DEF KernelType
<1> HIDE DEF c
<1>6. InKernel(a, o) /\ \A u \in Tasks : a.tcb[u] = IF u = t THEN c ELSE k.tcb[u]
  BY <1>4, SetFields
<1> HIDE DEF a
<1>7. a.tcb[t].state = k.tcb[t].state /\ a.tcb[t].klockwait = k.tcb[t].klockwait
  BY <1>4, <1>6
<1>8. \A u \in Tasks : k.tcb[u].klockwait \in BOOLEAN
  BY <1>1 DEF KernelType, TCB
<1>9. InKernel(j, o) /\ MovedTo(j, a, t, s)
  <2>1. CASE k.tcb[t].state = "READY"
    BY <1>6, <1>7, <2>1, LeaveReady DEF ForceWait, TSTAT
  <2>2. CASE k.tcb[t].state = "WAIT"
    BY <1>6, <1>7, <2>2, Relabel DEF ForceWait, TSTAT
  <2>3. CASE k.tcb[t].state \in {"SUSPEND", "WAITSUS"}
    <3>1. j = a /\ s = a.tcb[t].state
      BY <1>7, <2>3 DEF ForceWait
    <3>2. ~a.tcb[t].klockwait
      BY <1>6, <1>7, <2>3 DEF InKernel
    <3>3. \A u \in Tasks : a.tcb[u].klockwait \in BOOLEAN
      BY <1>4, <1>6, <1>8
    <3> QED BY <1>6, <3>1, <3>2, <3>3 DEF MovedTo, SameFields
  <2> QED BY <2>1, <2>2, <2>3
<1> HIDE DEF j
<1>10. OthersKeep(j, k, t)
  BY <1>6, <1>8, <1>9 DEF OthersKeep, MovedTo, SameTask, SameFields
<1>11. /\ j.tcb[t].state = s /\ j.tcb[t].wspec = k.tcb[t].wspec
       /\ ~j.tcb[t].klockwait /\ j.tcb[t].suscnt > 0
       /\ j.tcb[t].klocked = k.tcb[t].klocked /\ j.tcb[t].wupcnt = k.tcb[t].wupcnt
  BY <1>4, <1>6, <1>9 DEF MovedTo, SameFields
<1>12. NoLocking(k.tcb[t], j.tcb[t])
  BY <1>11 DEF NoLocking
<1>13. TaskFact(k.tcb[t]) => TaskFact(j.tcb[t])
  BY <1>11 DEF TaskFact
<1> QED BY <1>5, <1>9, <1>10, <1>12, <1>13 DEF Serves, j

(* Fields of t change that the queues do not depend on. *)
LEMMA FieldsServe ==
    ASSUME NEW k, NEW o, InKernel(k, o), NEW t \in Tasks, NEW c \in TCB,
           c.state = k.tcb[t].state, c.klockwait = k.tcb[t].klockwait,
           t \in Exec(k) => c.priority = k.tcb[t].priority,
           c.klocked = k.tcb[t].klocked, TaskFact(k.tcb[t]) => TaskFact(c)
    PROVE  Serves([k EXCEPT !.tcb[t] = c], k, o, t)
<1> DEFINE j == [k EXCEPT !.tcb[t] = c]
<1>1. InKernel(j, o) /\ \A u \in Tasks : j.tcb[u] = IF u = t THEN c ELSE k.tcb[u]
  BY SetFields
<1> HIDE DEF j
<1> QED BY <1>1 DEF Serves, OthersKeep, NoLocking, SameTask, SameFields, j

(* The queues are reordered and another task may be scheduled. *)
LEMMA ReorderServes ==
    ASSUME NEW k, NEW o, NEW j, InKernel(j, o), SameTasks(j, k), NEW t \in Tasks
    PROVE  Serves(j, k, o, t)
  BY DEF Serves, OthersKeep, NoLocking, TaskFact, SameTasks, SameTask, SameFields

(* The end of a suspension *)
LEMMA Resumes ==
    ASSUME NEW k, NEW o, InKernel(k, o), NEW t \in Tasks,
           k.tcb[t].state \in {"SUSPEND", "WAITSUS"}
    PROVE  Serves(Resume([k EXCEPT !.tcb[t].suscnt = 0], t), k, o, t)
<1> DEFINE c  == [k.tcb[t] EXCEPT !.suscnt = 0]
           a  == [k EXCEPT !.tcb[t] = c]
           j  == Resume(a, t)
           st == IF k.tcb[t].state = "SUSPEND" THEN "READY" ELSE "WAIT"
<1>1. k \in KernelType /\ k.tcb[t] \in TCB
  BY DEF InKernel, InQueues, KernelType
<1>2. 0 \in 0 .. MaxSus
  BY TaskSchedAssumption
<1>3. /\ c \in TCB /\ c.state = k.tcb[t].state /\ c.priority = k.tcb[t].priority
      /\ c.klockwait = k.tcb[t].klockwait /\ c.klocked = k.tcb[t].klocked
      /\ c.suscnt = 0 /\ c.wspec = k.tcb[t].wspec /\ c.wupcnt = k.tcb[t].wupcnt
  BY <1>1, <1>2 DEF TCB
<1>4. a = [k EXCEPT !.tcb[t].suscnt = 0]
  BY <1>1 DEF KernelType
<1> HIDE DEF c
<1>5. InKernel(a, o) /\ \A u \in Tasks : a.tcb[u] = IF u = t THEN c ELSE k.tcb[u]
  BY <1>3, SetFields
<1> HIDE DEF a
<1>6. a.tcb[t].state = k.tcb[t].state
  BY <1>3, <1>5
<1>7. InKernel(j, o) /\ MovedTo(j, a, t, st)
  <2>1. CASE k.tcb[t].state = "SUSPEND"
    BY <1>5, <1>6, <2>1, MakeReady DEF Resume
  <2>2. CASE k.tcb[t].state # "SUSPEND"
    BY <1>5, <1>6, <2>2, Relabel DEF Resume, TSTAT
  <2> QED BY <2>1, <2>2
<1> HIDE DEF j
<1>8. \A u \in Tasks : k.tcb[u].klockwait \in BOOLEAN
  BY <1>1 DEF KernelType, TCB
<1>9. OthersKeep(j, k, t)
  BY <1>5, <1>7, <1>8 DEF OthersKeep, MovedTo, SameTask, SameFields
<1>10. /\ j.tcb[t].state = st /\ j.tcb[t].wspec = k.tcb[t].wspec
       /\ ~j.tcb[t].klockwait /\ j.tcb[t].suscnt = 0
       /\ j.tcb[t].klocked = k.tcb[t].klocked /\ j.tcb[t].wupcnt = k.tcb[t].wupcnt
  BY <1>3, <1>5, <1>7 DEF MovedTo, SameFields
<1>11. NoLocking(k.tcb[t], j.tcb[t])
  BY <1>10 DEF NoLocking
<1>12. TaskFact(k.tcb[t]) => TaskFact(j.tcb[t])
  BY <1>10 DEF TaskFact
<1> QED BY <1>4, <1>7, <1>9, <1>11, <1>12 DEF Serves, j

(* change_task_priority: a READY task goes through the queues again. *)
LEMMA ChangesPriority ==
    ASSUME NEW k, NEW o \in ObjType, InKernel(k, o), NEW t \in Tasks, NEW p \in Pri
    PROVE  /\ Serves(change_task_priority(k, t, p), k, o, t)
           /\ t \in Exec(k) => t \in Exec(change_task_priority(k, t, p))
<1> DEFINE j == change_task_priority(k, t, p)
           R == Exec(k)
<1>1. k \in KernelType /\ k.tcb[t] \in TCB /\ InQueues(k, o, R) /\ R \in SUBSET Tasks
      /\ SchedFrom(k.sched, R)
  BY DEF InKernel, InQueues, KernelType, Exec
<1>2. CASE k.tcb[t].state = "READY"
  <2> DEFINE g == Delete(k, t)
             c == [g.tcb[t] EXCEPT !.priority = p]
             a == [g EXCEPT !.tcb[t] = c]
             n == Insert(a, t)
  <2>1. /\ k.tcb[t].klockwait => o[t] # NULL /\ t \notin R
        /\ ~k.tcb[t].klockwait => t \in R
    BY <1>2 DEF InKernel, Exec
  <2> HIDE DEF R
  <2>2. InQueues(g, o, R \ {t}) /\ TakenOut(g, k, t) /\ g.sched = k.sched
    BY <1>1, <2>1, DeleteQueues
  <2> HIDE DEF g
  <2>3. g \in KernelType /\ g.tcb[t] \in TCB
    BY <2>2 DEF InQueues, KernelType
  <2>4. /\ c \in TCB /\ c.priority = p /\ c.state = g.tcb[t].state
        /\ c.klocked = g.tcb[t].klocked /\ c.klockwait = g.tcb[t].klockwait
        /\ c.suscnt = g.tcb[t].suscnt /\ c.wspec = g.tcb[t].wspec
        /\ c.wupcnt = g.tcb[t].wupcnt
    BY <2>3 DEF TCB
  <2>5. a = [g EXCEPT !.tcb[t].priority = p]
    BY <2>3 DEF KernelType
  <2> HIDE DEF c
  <2>6. /\ a \in KernelType /\ a.rq = g.rq /\ a.wtskq = g.wtskq /\ a.sched = g.sched
        /\ a.tcb = [g.tcb EXCEPT ![t] = c]
    BY <2>3, <2>4 DEF KernelType
  <2>7. \A u \in Tasks : a.tcb[u] = IF u = t THEN c ELSE g.tcb[u]
    BY <2>3, <2>6 DEF KernelType
  <2> HIDE DEF a
  <2>8. InQueues(a, o, R \ {t})
    <3>1. \A l \in Locks : WaitersIn(a, o, l) = WaitersIn(g, o, l)
      BY <2>4, <2>7 DEF WaitersIn
    <3>2. \A u \in R \ {t} : a.tcb[u].priority = g.tcb[u].priority
      BY <1>1, <2>7
    <3>3. R \ {t} \in SUBSET Tasks
      BY <1>1
    <3> QED BY <2>2, <2>6, <3>1, <3>2, <3>3, FrameQueues
  <2>9. InQueues(n, o, (R \ {t}) \cup {t}) /\ SameTasks(n, a) /\ n.sched = a.sched
    <3>1. R \ {t} \in SUBSET Tasks /\ t \in Tasks \ (R \ {t})
      BY <1>1
    <3> QED BY <2>8, <3>1, InsertQueues
  <2> HIDE DEF n
  <2> DEFINE S == (R \ {t}) \cup {t}
  <2>10. S \in SUBSET Tasks /\ n.sched \in S \cup {NULL} /\ S = R \cup {t}
    BY <1>1, <2>2, <2>6, <2>9 DEF SchedFrom
  <2> HIDE DEF S
  <2>11. j = reschedule(n)
    BY <1>2, <2>5 DEF change_task_priority, n, a, g
  <2> HIDE DEF j
  <2>12. InQueues(j, o, S) /\ SameTasks(j, n) /\ SchedFrom(j.sched, S)
    BY <2>9, <2>10, <2>11, RescheduleQueues DEF S
  <2>13. /\ OthersKeep(j, k, t)
         /\ \A u \in Tasks : j.tcb[u].klockwait = (u # t /\ k.tcb[u].klockwait)
         /\ \A u \in Tasks : j.tcb[u].state = k.tcb[u].state
    <3>1. \A u \in Tasks : k.tcb[u].klockwait \in BOOLEAN
      BY <1>1 DEF KernelType, TCB
    <3>2. SameTasks(j, a)
      BY <2>9, <2>12 DEF SameTasks, SameTask, SameFields
    <3>3. \A u \in Tasks \ {t} :
            SameTask(j.tcb[u], g.tcb[u]) /\ j.tcb[u].klockwait = g.tcb[u].klockwait
      BY <2>7, <3>2 DEF SameTasks
    <3>4. j.tcb[t].klockwait = g.tcb[t].klockwait /\ j.tcb[t].state = g.tcb[t].state
      BY <2>4, <2>7, <3>2 DEF SameTasks, SameTask
    <3> QED BY <2>2, <3>1, <3>3, <3>4 DEF OthersKeep, TakenOut, SameTask, SameFields
  <2>14. Exec(j) = S
    BY <1>2, <2>10, <2>13 DEF Exec, R
  <2>17. Unheld(j) => Unheld(k)
    <3>1. j.tcb[t].klocked = k.tcb[t].klocked
      BY <2>2, <2>4, <2>7, <2>9, <2>12 DEF TakenOut, SameTasks, SameTask, SameFields
    <3> QED BY <2>13, <3>1 DEF OthersKeep, SameTask, SameFields, Unheld
  <2>18. Unheld(k) => n.rq.klocktsk = NULL
    <3> SUFFICES ASSUME Unheld(k) PROVE n.rq.klocktsk = NULL
      OBVIOUS
    <3>1. k.rq.klocktsk = NULL /\ k.rq \in RDYQUE
      BY <1>1 DEF InKernel, Ranks, Leads, KernelType
    <3>2. g.rq.klocktsk = NULL
      BY <1>1, <3>1 DEF Delete, DeleteKlockWaiter, ready_queue_delete, KernelType, RDYQUE, g
    <3>3. ~k.tcb[t].klocked /\ g.tcb[t].klocked = k.tcb[t].klocked
      BY <2>2 DEF Unheld, TakenOut, SameTask, SameFields
    <3>4. ~a.tcb[t].klocked
      BY <2>4, <2>7, <3>3
    <3> QED BY <2>6, <3>2, <3>4 DEF Insert, ready_queue_insert, Inserted, KernelType, n
  <2>19. Ranks(j, S)
    BY <2>9, <2>10, <2>11, <2>17, <2>18, RescheduleQueues DEF Ranks, S
  <2>15. InKernel(j, o)
    BY <2>12, <2>13, <2>14, <2>19 DEF InKernel
  <2>16. /\ j.tcb[t].klocked = k.tcb[t].klocked /\ j.tcb[t].suscnt = k.tcb[t].suscnt
         /\ j.tcb[t].wspec = k.tcb[t].wspec /\ j.tcb[t].wupcnt = k.tcb[t].wupcnt
    BY <2>2, <2>4, <2>7, <2>9, <2>12 DEF TakenOut, SameTasks, SameTask, SameFields
  <2> QED BY <2>10, <2>13, <2>14, <2>15, <2>16
          DEF Serves, NoLocking, TaskFact, j, R
<1>3. CASE k.tcb[t].state # "READY"
  <2> DEFINE c == [k.tcb[t] EXCEPT !.priority = p]
  <2>1. /\ c \in TCB /\ c.state = k.tcb[t].state
        /\ c.klocked = k.tcb[t].klocked /\ c.klockwait = k.tcb[t].klockwait
        /\ c.suscnt = k.tcb[t].suscnt /\ c.wspec = k.tcb[t].wspec
        /\ c.wupcnt = k.tcb[t].wupcnt
    BY <1>1 DEF TCB
  <2>2. [k EXCEPT !.tcb[t] = c] = [k EXCEPT !.tcb[t].priority = p]
    BY <1>1 DEF KernelType
  <2> HIDE DEF c
  <2>3. TaskFact(k.tcb[t]) => TaskFact(c)
    BY <2>1 DEF TaskFact
  <2>4. t \notin Exec(k)
    BY <1>3 DEF Exec
  <2>5. Serves([k EXCEPT !.tcb[t] = c], k, o, t)
    BY <2>1, <2>3, <2>4, FieldsServe
  <2> QED BY <1>3, <2>2, <2>4, <2>5 DEF change_task_priority
<1> QED BY <1>2, <1>3

(* rotate_ready_queue: the queue of one priority turns by one task. *)
LEMMA Rotates ==
    ASSUME NEW k, NEW o, InKernel(k, o), NEW p \in Pri
    PROVE  /\ InKernel(rotate_ready_queue(k, p), o)
           /\ SameTasks(rotate_ready_queue(k, p), k)
<1> DEFINE R == Exec(k)
           j == rotate_ready_queue(k, p)
<1>1. /\ k \in KernelType /\ InQueues(k, o, R) /\ R \in SUBSET Tasks
      /\ SchedFrom(k.sched, R) /\ k.sched \in R \cup {NULL}
  BY DEF InKernel, InQueues, Exec, SchedFrom
<1> HIDE DEF R
<1>2. ASSUME NEW n, InQueues(n, o, R), SameTasks(n, k), n.sched = k.sched,
             j = reschedule(n), n.rq.klocktsk = k.rq.klocktsk
      PROVE  InKernel(j, o) /\ SameTasks(j, k)
  <2> HIDE DEF j
  <2>1. InQueues(j, o, R) /\ SameTasks(j, n) /\ SchedFrom(j.sched, R)
    BY <1>1, <1>2, RescheduleQueues
  <2>2. SameTasks(j, k)
    BY <1>2, <2>1 DEF SameTasks, SameTask, SameFields
  <2>3. Exec(j) = R
    BY <2>2 DEF SameTasks, SameTask, Exec, R
  <2>4. Unheld(j) => k.rq.klocktsk = NULL
    <3>1. Unheld(j) => Unheld(k)
      BY <2>2 DEF SameTasks, SameTask, SameFields, Unheld
    <3> QED BY <3>1 DEF InKernel, Ranks, Leads
  <2>5. Ranks(j, R)
    BY <1>1, <1>2, <2>4, RescheduleQueues DEF Ranks
  <2> QED BY <2>1, <2>2, <2>3, <2>5 DEF InKernel, SameTasks, SameTask
<1>3. CASE k.rq.tskque[p] = <<>>
  <2>1. SameTasks(k, k)
    BY DEF SameTasks, SameTask, SameFields
  <2> QED BY <1>1, <1>2, <1>3, <2>1 DEF rotate_ready_queue
<1>4. CASE k.rq.tskque[p] # <<>>
  <2> DEFINE h == Head(k.rq.tskque[p])
             c == [k.tcb[h] EXCEPT !.slicecnt = 0]
             q == ready_queue_rotate(k.rq, p)
             n == [k EXCEPT !.tcb = [k.tcb EXCEPT ![h] = c], !.rq = q]
  <2>1. h \in Tasks
    <3>1. Links(k.rq.tskque[p], Level(R, Pris(k), p))
      BY <1>1, HoldsLinks DEF InQueues, InOrder
    <3> QED BY <1>4, <3>1, HeadElement
  <2> HIDE DEF h
  <2>2. k.tcb[h] \in TCB
    BY <1>1, <2>1 DEF KernelType
  <2>3. c \in TCB /\ SameTask(c, k.tcb[h]) /\ c.klockwait = k.tcb[h].klockwait
    BY <2>2 DEF TCB, SameTask, SameFields
  <2>4. InOrder(q, R, Pris(k)) /\ q \in RDYQUE
    BY <1>1, PrisType, RotateInOrder DEF InQueues, InOrder
  <2>5. n = [k EXCEPT !.tcb[h].slicecnt = 0, !.rq = q]
    BY <1>1 DEF KernelType
  <2> HIDE DEF c, q
  <2>6. /\ n \in KernelType /\ n.rq = q /\ n.wtskq = k.wtskq /\ n.sched = k.sched
        /\ n.tcb = [k.tcb EXCEPT ![h] = c]
    BY <1>1, <2>3, <2>4 DEF KernelType
  <2>7. \A u \in Tasks : n.tcb[u] = IF u = h THEN c ELSE k.tcb[u]
    BY <1>1, <2>6 DEF KernelType
  <2> HIDE DEF n
  <2>8. SameTasks(n, k)
    BY <2>3, <2>7 DEF SameTasks, SameTask, SameFields
  <2>9. Pris(n) = Pris(k) /\ \A l \in Locks : WaitersIn(n, o, l) = WaitersIn(k, o, l)
    BY <2>8 DEF SameTasks, SameTask, SameFields, Pris, WaitersIn
  <2>10. InQueues(n, o, R)
    BY <1>1, <2>4, <2>6, <2>9 DEF InQueues
  <2>11. j = reschedule(n)
    BY <1>4, <2>5 DEF rotate_ready_queue, q, h
  <2>12. q.klocktsk = k.rq.klocktsk
    BY <1>1, <1>4 DEF q, ready_queue_rotate, KernelType, RDYQUE
  <2> QED BY <1>2, <2>6, <2>8, <2>10, <2>11, <2>12
<1> QED BY <1>3, <1>4

(* The leading task is charged; past its slice time the next one of its    *)
(* queue leads.                                                            *)
LEMMA SliceLeads ==
    ASSUME NEW k, NEW o, NEW R \in SUBSET Tasks, InQueues(k, o, R),
           NEW t \in R, Leads(k.rq, R, Pris(k), t)
    PROVE  Leads(time_slice_schedule(k, t).rq, R, Pris(k), SliceHead(k, t))
<1> DEFINE n == time_slice_schedule(k, t)
           c == k.tcb[t]
           s == SliceHead(k, t)
<1>1. /\ k \in KernelType /\ t \in Tasks /\ t # NULL /\ c \in TCB
      /\ Pris(k) \in [Tasks -> Pri] /\ Pris(k)[t] = c.priority
      /\ InOrder(k.rq, R, Pris(k))
  BY PrisType, ReadyQueueAssumption DEF InQueues, KernelType, Pris
<1>2. c.slicetime \in Nat
  BY <1>1, TimesAreNumbers DEF TCB
<1>3. CASE c.slicetime > 0 /\ SliceOver(k, t)
  <2> DEFINE q == ready_queue_move_last(k.rq, t, c.priority)
  <2>1. n = [k EXCEPT !.tcb[t].slicecnt = 0, !.rq = q]
    BY <1>1, <1>2, <1>3 DEF time_slice_schedule
  <2>2. n.rq = q
    BY <1>1, <2>1 DEF KernelType
  <2>3. s = Head(q.tskque[c.priority])
    BY <1>3, <2>2 DEF SliceHead
  <2>4. InOrder(q, R, Pris(k))
    BY <1>1, MoveLastInOrder
  <2>5. q.klocktsk = NULL /\ q.tskque \in [Pri -> Seq(Tasks)] /\ c.priority \in Pri
    BY <1>1, <2>4 DEF ready_queue_move_last, Leads, InOrder, RDYQUE, TCB
  <2> HIDE DEF q
  <2>6. Links(q.tskque[c.priority], Level(R, Pris(k), c.priority))
    BY <2>4, <2>5, HoldsLinks DEF InOrder
  <2>7. t \in Level(R, Pris(k), c.priority)
    BY <1>1 DEF Level
  <2>8. s \in Level(R, Pris(k), c.priority)
    <3>1. q.tskque[c.priority] # <<>>
      BY <2>6, <2>7, EmptyQueue
    <3> QED BY <2>3, <2>6, <3>1, HeadElement
  <2>9. s \in R /\ Pris(k)[s] = c.priority
    BY <2>8 DEF Level
  <2>10. \A u \in R : c.priority <= Pris(k)[u]
    BY <1>1 DEF Leads
  <2> HIDE DEF s, n, c
  <2> QED BY <2>2, <2>3, <2>5, <2>9, <2>10 DEF Leads, s, n
<1>4. CASE c.slicetime = 0
  <2>1. n = k /\ s = t
    BY <1>1, <1>4 DEF time_slice_schedule, SliceHead
  <2> QED BY <2>1
<1>5. CASE c.slicetime > 0 /\ ~SliceOver(k, t)
  <2>1. n = [k EXCEPT !.tcb[t].slicecnt = k.tcb[t].slicecnt + TIMER_PERIOD] /\ s = t
    BY <1>1, <1>2, <1>5 DEF time_slice_schedule, SliceHead
  <2>2. n.rq = k.rq
    BY <1>1, <2>1 DEF KernelType
  <2> QED BY <2>1, <2>2
<1> QED BY <1>2, <1>3, <1>4, <1>5

(* The time slice of the timer interrupt *)
LEMMA Charges ==
    ASSUME NEW k, NEW o, InKernel(k, o), k.sched = schedtsk
    PROVE  InKernel(Charged(k), o) /\ SameTasks(Charged(k), k)
<1> DEFINE R == Exec(k)
           n == time_slice_schedule(k, ctxtsk)
           j == Charged(k)
<1>1. /\ InQueues(k, o, R) /\ R \in SUBSET Tasks /\ SchedFrom(k.sched, R)
  BY DEF InKernel, Exec
<1> HIDE DEF R
<1>2. CASE ctxtsk # NULL /\ schedtsk = ctxtsk
  <2>1. ctxtsk \in R
    BY <1>1, <1>2 DEF SchedFrom
  <2>2. InQueues(n, o, R) /\ SameTasks(n, k) /\ SliceHead(k, ctxtsk) \in R
    BY <1>1, <1>2, <2>1, SliceQueues
  <2>3. j = [n EXCEPT !.sched = SliceHead(k, ctxtsk)]
    BY <1>2 DEF Charged
  <2> HIDE DEF n, j
  <2>4. InQueues(j, o, R) /\ SameTasks(j, n) /\ j.sched = SliceHead(k, ctxtsk)
    BY <1>1, <2>2, <2>3, SchedQueues
  <2>5. SameTasks(j, k) /\ SchedFrom(j.sched, R)
    BY <2>2, <2>4 DEF SameTasks, SameTask, SameFields, SchedFrom
  <2>6. Exec(j) = R
    BY <2>5 DEF SameTasks, SameTask, Exec, R
  <2>7. Pris(j) = Pris(k) /\ (Unheld(j) => Unheld(k))
    BY <2>5 DEF SameTasks, SameTask, SameFields, Pris, Unheld
  <2>8. j.rq = n.rq
    BY <2>2, <2>3 DEF InQueues, KernelType
  <2>9. Unheld(k) => Leads(n.rq, R, Pris(k), SliceHead(k, ctxtsk))
    <3> SUFFICES ASSUME Unheld(k) PROVE Leads(n.rq, R, Pris(k), SliceHead(k, ctxtsk))
      OBVIOUS
    <3>1. Leads(k.rq, R, Pris(k), ctxtsk)
      BY <1>2 DEF InKernel, Ranks, R
    <3> QED BY <1>1, <1>2, <2>1, <3>1, SliceLeads DEF n
  <2>10. Ranks(j, R)
    BY <2>4, <2>7, <2>8, <2>9 DEF Ranks
  <2> QED BY <2>4, <2>5, <2>6, <2>10 DEF InKernel, SameTasks, SameTask, j
<1>3. CASE ~(ctxtsk # NULL /\ schedtsk = ctxtsk)
  BY <1>3 DEF Charged, SameTasks, SameTask, SameFields
<1> QED BY <1>2, <1>3

(* make_dormant after _ter_tsk, or the return of the TCB: t ends with the  *)
(* fields c, and is inside no pool call any more.                          *)
LEMMA Ends ==
    ASSUME NEW k, NEW o \in ObjType, InKernel(k, o), NEW t \in Tasks, NEW c \in TCB,
           c.state # "READY", ~c.klockwait, ~k.tcb[t].klocked,
           NEW new \in ObjType, \A u \in Tasks \ {t} : new[u] = o[u]
    PROVE  LET j == [_ter_tsk(k, t) EXCEPT !.tcb[t] = c]
           IN  /\ InKernel(j, new)
               /\ OthersKeep(j, k, t)
               /\ j.tcb[t] = c
<1> DEFINE g   == _ter_tsk(k, t)
           j   == [g EXCEPT !.tcb[t] = c]
           R   == Exec(k) \ {t}
<1>1. k \in KernelType /\ \A u \in Tasks : k.tcb[u].klockwait \in BOOLEAN
  BY DEF InKernel, InQueues, KernelType, TCB
<1>2. InQueues(g, o, R) /\ TakenOut(g, k, t) /\ SchedFrom(g.sched, R) /\ Ranks(g, R)
  <2>1. CASE k.tcb[t].state = "READY"
    BY <2>1, MakeNonReady DEF _ter_tsk
  <2>2. CASE k.tcb[t].state # "READY"
    <3>1. g = k /\ R = Exec(k) /\ ~k.tcb[t].klockwait
      BY <2>2 DEF _ter_tsk, Exec, InKernel
    <3> QED BY <1>1, <3>1 DEF InKernel, TakenOut, SameTask, SameFields
  <2> QED BY <2>1, <2>2
<1> HIDE DEF g
<1>3. g \in KernelType /\ R \in SUBSET Tasks
  BY <1>2 DEF InQueues, Exec
<1>4. /\ j \in KernelType /\ j.rq = g.rq /\ j.wtskq = g.wtskq /\ j.sched = g.sched
      /\ j.tcb = [g.tcb EXCEPT ![t] = c]
  BY <1>3 DEF KernelType
<1>5. \A u \in Tasks : j.tcb[u] = IF u = t THEN c ELSE g.tcb[u]
  BY <1>3, <1>4 DEF KernelType
<1>6. \A u \in Tasks \ {t} : new[u] = o[u]
  OBVIOUS
<1> HIDE DEF j
<1>7. OthersKeep(j, k, t) /\ j.tcb[t] = c
  BY <1>1, <1>2, <1>5 DEF OthersKeep, TakenOut, SameTask, SameFields
<1>8. Exec(j) = R
  <2>1. ASSUME NEW u \in Tasks, u # t
        PROVE  /\ j.tcb[u].state = k.tcb[u].state
               /\ j.tcb[u].klockwait = k.tcb[u].klockwait
    BY <1>1, <1>2, <1>5, <2>1 DEF TakenOut, SameTask
  <2>2. ~(c.state = "READY" /\ ~c.klockwait)
    OBVIOUS
  <2>3. j.tcb[t] = c
    BY <1>5
  <2> QED BY <2>1, <2>2, <2>3 DEF Exec
<1> HIDE DEF R
<1>9. InQueues(j, new, R)
  <2>1. \A l \in Locks : WaitersIn(j, new, l) = WaitersIn(g, o, l)
    BY <1>2, <1>5, <1>6 DEF WaitersIn, TakenOut
  <2>2. \A u \in R : j.tcb[u].priority = g.tcb[u].priority
    BY <1>3, <1>5 DEF R
  <2>3. j \in KernelType /\ j.rq = g.rq /\ j.wtskq = g.wtskq
    BY <1>4
  <2> QED BY <1>2, <1>3, <2>1, <2>2, <2>3, FrameQueues
<1>10. \A u \in Tasks : j.tcb[u].klockwait => j.tcb[u].state = "READY" /\ new[u] # NULL
  BY <1>2, <1>5, <1>6 DEF InKernel, TakenOut, SameTask
<1>11. Ranks(j, R)
  <2>1. Unheld(j) => Unheld(g)
    BY <1>2, <1>5 DEF Unheld, TakenOut, SameTask, SameFields
  <2>2. \A u \in R : j.tcb[u].priority = g.tcb[u].priority
    BY <1>3, <1>5 DEF R
  <2>3. Ranks(g, R) /\ R \in SUBSET Tasks /\ j.rq = g.rq /\ j.sched = g.sched
    BY <1>2, <1>3, <1>4
  <2> QED BY <2>1, <2>2, <2>3, FrameRanks
<1> QED BY <1>2, <1>4, <1>7, <1>8, <1>9, <1>10, <1>11 DEF InKernel, j, g

-----------------------------------------------------------------------------
(* LockOBJ of a free lock *)
LEMMA TakesLock ==
    ASSUME NEW k, NEW o \in ObjType, InKernel(k, o), NEW t \in Exec(k), NEW l \in Locks
    PROVE  LET j   == [k EXCEPT !.tcb[t].klocked = TRUE, !.rq.klocktsk = t]
               new == [o EXCEPT ![t] = l]
           IN  /\ InKernel(j, new)
               /\ OthersKeep(j, k, t)
               /\ j.tcb[t] = [k.tcb[t] EXCEPT !.klocked = TRUE]
<1> DEFINE c   == [k.tcb[t] EXCEPT !.klocked = TRUE]
           q   == [k.rq EXCEPT !.klocktsk = t]
           j   == [k EXCEPT !.tcb = [k.tcb EXCEPT ![t] = c], !.rq = q]
           new == [o EXCEPT ![t] = l]
           R   == Exec(k)
<1>1. /\ k \in KernelType /\ t \in Tasks /\ k.tcb[t] \in TCB /\ ~k.tcb[t].klockwait
      /\ InQueues(k, o, R) /\ R \in SUBSET Tasks /\ SchedFrom(k.sched, R)
  BY DEF InKernel, InQueues, KernelType, Exec
<1>2. /\ c \in TCB /\ SameTask([c EXCEPT !.klocked = k.tcb[t].klocked], k.tcb[t])
      /\ c.klockwait = k.tcb[t].klockwait /\ c.priority = k.tcb[t].priority
      /\ c.state = k.tcb[t].state
  BY <1>1 DEF TCB, SameTask, SameFields
<1>3. InOrder(q, R, Pris(k)) /\ q \in RDYQUE
  BY <1>1 DEF InQueues, InOrder, RDYQUE, Holds, Indexed
<1>4. j = [k EXCEPT !.tcb[t].klocked = TRUE, !.rq.klocktsk = t]
  BY <1>1 DEF KernelType
<1> HIDE DEF c, q, R
<1>5. /\ j \in KernelType /\ j.rq = q /\ j.wtskq = k.wtskq /\ j.sched = k.sched
      /\ j.tcb = [k.tcb EXCEPT ![t] = c]
  BY <1>1, <1>2, <1>3 DEF KernelType
<1>6. \A u \in Tasks : j.tcb[u] = IF u = t THEN c ELSE k.tcb[u]
  BY <1>1, <1>5 DEF KernelType
<1>7. \A u \in Tasks : new[u] = IF u = t THEN l ELSE o[u]
  BY DEF ObjType
<1> HIDE DEF j, new
<1>8. OthersKeep(j, k, t) /\ j.tcb[t] = c
  BY <1>1, <1>6 DEF OthersKeep, SameTask, SameFields
<1>9. Exec(j) = R
  BY <1>2, <1>6 DEF Exec, R
<1>10. Pris(j) = Pris(k)
       /\ \A m \in Locks : WaitersIn(j, new, m) = WaitersIn(k, o, m)
  BY <1>1, <1>2, <1>6, <1>7 DEF WaitersIn, Pris
<1>11. \A u \in Tasks : j.tcb[u].klockwait => j.tcb[u].state = "READY" /\ new[u] # NULL
  BY <1>1, <1>2, <1>6, <1>7 DEF InKernel
<1>12. Ranks(j, R)
  <2>1. j.tcb[t].klocked
    BY <1>1, <1>8 DEF c, TCB
  <2> QED BY <1>1, <2>1 DEF Ranks, Unheld
<1> QED BY <1>1, <1>3, <1>4, <1>5, <1>8, <1>9, <1>10, <1>11, <1>12
        DEF InKernel, InQueues, j, new, c

(* LockOBJ of a lock that is taken *)
LEMMA QueuesForLock ==
    ASSUME NEW k, NEW o \in ObjType, InKernel(k, o), NEW t \in Exec(k), NEW l \in Locks
    PROVE  LET gone == Delete(k, t)
               a    == [gone EXCEPT !.tcb[t].klockwait = TRUE,
                                    !.wtskq[l] = Append(gone.wtskq[l], t)]
               j    == [a EXCEPT !.sched = Chosen(a)]
               new  == [o EXCEPT ![t] = l]
           IN  /\ InKernel(j, new)
               /\ OthersKeep(j, k, t)
               /\ SameTask(j.tcb[t], k.tcb[t])
               /\ j.tcb[t].klockwait
<1> DEFINE g   == Delete(k, t)
           c   == [g.tcb[t] EXCEPT !.klockwait = TRUE]
           q   == [g.wtskq EXCEPT ![l] = Append(g.wtskq[l], t)]
           a   == [g EXCEPT !.tcb = [g.tcb EXCEPT ![t] = c], !.wtskq = q]
           j   == [a EXCEPT !.sched = Chosen(a)]
           new == [o EXCEPT ![t] = l]
           R   == Exec(k)
           S   == R \ {t}
<1>1. /\ k \in KernelType /\ t \in Tasks /\ ~k.tcb[t].klockwait /\ t \in R
      /\ InQueues(k, o, R) /\ R \in SUBSET Tasks /\ SchedFrom(k.sched, R)
      /\ k.tcb[t].state = "READY"
  BY DEF InKernel, InQueues, Exec
<1> HIDE DEF R
<1>2. InQueues(g, o, S) /\ TakenOut(g, k, t)
  BY <1>1, DeleteQueues
<1>3. S \in SUBSET Tasks /\ S \cup {NULL} \subseteq Tasks \cup {NULL} /\ t \notin S
  BY <1>1
<1> HIDE DEF g
<1>4. g \in KernelType /\ g.tcb[t] \in TCB /\ ~g.tcb[t].klockwait
  BY <1>1, <1>2 DEF InQueues, KernelType, TakenOut
<1>5. c \in TCB /\ SameTask(c, g.tcb[t]) /\ c.klockwait /\ c.priority = g.tcb[t].priority
  BY <1>4 DEF TCB, SameTask, SameFields
<1>6. a = [g EXCEPT !.tcb[t].klockwait = TRUE,
                    !.wtskq[l] = Append(g.wtskq[l], t)]
  BY <1>4 DEF KernelType
<1>7. \A u \in Tasks : new[u] = IF u = t THEN l ELSE o[u]
  BY DEF ObjType
<1>8. ASSUME NEW m \in Locks
      PROVE  Links(q[m], IF m = l THEN WaitersIn(g, o, m) \cup {t} ELSE WaitersIn(g, o, m))
  <2>1. Links(g.wtskq[m], WaitersIn(g, o, m)) /\ t \in Tasks \ WaitersIn(g, o, m)
    BY <1>1, <1>2, <1>4 DEF InQueues, WaitersIn
  <2>2. q[m] = IF m = l THEN Append(g.wtskq[m], t) ELSE g.wtskq[m]
    BY <1>4 DEF KernelType
  <2> QED BY <2>1, <2>2, AppendElement
<1>9. q \in [Locks -> Seq(Tasks)]
  BY <1>4, <1>8 DEF Links, KernelType
<1> HIDE DEF c, q, new
<1>10. /\ a \in KernelType /\ a.rq = g.rq /\ a.wtskq = q /\ a.sched = g.sched
       /\ a.tcb = [g.tcb EXCEPT ![t] = c]
  BY <1>4, <1>5, <1>9 DEF KernelType
<1>11. \A u \in Tasks : a.tcb[u] = IF u = t THEN c ELSE g.tcb[u]
  BY <1>4, <1>10 DEF KernelType
<1> HIDE DEF a
<1>12. /\ Pris(a) = Pris(g)
       /\ \A m \in Locks : WaitersIn(a, new, m)
                            = IF m = l THEN WaitersIn(g, o, m) \cup {t} ELSE WaitersIn(g, o, m)
  BY <1>1, <1>4, <1>5, <1>7, <1>11 DEF Pris, WaitersIn
<1>13. InQueues(a, new, S)
  BY <1>2, <1>8, <1>10, <1>12 DEF InQueues
<1>14. SchedFrom(Chosen(a), S) /\ Chosen(a) \in S \cup {NULL}
  BY <1>3, <1>13, PrisType, TopInOrder DEF InQueues, Chosen, SchedFrom
<1> HIDE DEF S
<1>15. InQueues(j, new, S) /\ SameTasks(j, a) /\ j.sched = Chosen(a)
  BY <1>3, <1>13, <1>14, SchedQueues
<1> HIDE DEF j
<1>16. OthersKeep(j, k, t) /\ SameTask(j.tcb[t], k.tcb[t]) /\ j.tcb[t].klockwait
  <2>1. \A u \in Tasks : k.tcb[u].klockwait \in BOOLEAN
    BY <1>1 DEF KernelType, TCB
  <2> QED BY <1>1, <1>2, <1>5, <1>11, <1>15, <2>1
          DEF OthersKeep, SameTasks, SameTask, SameFields, TakenOut
<1>17. Exec(j) = S
  BY <1>1, <1>16 DEF OthersKeep, SameTask, Exec, R, S
<1>18. \A u \in Tasks : j.tcb[u].klockwait => j.tcb[u].state = "READY" /\ new[u] # NULL
  <2>1. l # NULL
    BY TaskSchedAssumption
  <2> QED BY <1>1, <1>7, <1>16, <2>1 DEF OthersKeep, SameTask, InKernel
<1>19. Ranks(j, S)
  <2>1. Unheld(j) => Unheld(k)
    BY <1>16 DEF OthersKeep, SameTask, SameFields, Unheld
  <2>2. Unheld(k) => a.rq.klocktsk = NULL
    <3>1. k.rq \in RDYQUE /\ (Unheld(k) => k.rq.klocktsk = NULL)
      BY <1>1 DEF InKernel, Ranks, Leads, KernelType
    <3>2. Unheld(k) => g.rq.klocktsk = NULL
      BY <1>1, <3>1 DEF Delete, ready_queue_delete, KernelType, RDYQUE, g
    <3> QED BY <1>10, <3>2
  <2>3. a.rq.klocktsk = NULL => Leads(a.rq, S, Pris(a), Chosen(a))
    <3>1. S \in SUBSET Tasks /\ InOrder(a.rq, S, Pris(a)) /\ Pris(a) \in [Tasks -> Pri]
      BY <1>3, <1>10, <1>13, PrisType DEF InQueues
    <3> QED BY <3>1, TopLeads DEF Chosen
  <2>4. j.rq = a.rq /\ Pris(j) = Pris(a)
    BY <1>10, <1>15 DEF j, KernelType, Pris, SameTasks, SameTask, SameFields
  <2> QED BY <1>15, <2>1, <2>2, <2>3, <2>4 DEF Ranks
<1> QED BY <1>6, <1>14, <1>15, <1>16, <1>17, <1>18, <1>19 DEF InKernel, j, new, g

(* From k to j the lock l passes from task t to task h. *)
PassedOn(j, k, t, h) ==
    \A u \in Tasks :
        /\ j.tcb[u].state = k.tcb[u].state
        /\ j.tcb[u].wspec = k.tcb[u].wspec
        /\ j.tcb[u].suscnt = k.tcb[u].suscnt
        /\ j.tcb[u].wupcnt = k.tcb[u].wupcnt
        /\ j.tcb[u].klockwait = (u # h /\ k.tcb[u].klockwait)
        /\ j.tcb[u].klocked = (u = h \/ (u # t /\ k.tcb[u].klocked))

(* UnlockOBJ by a task t that has lock l, or has just begun to wait *)
LEMMA Unlocks ==
    ASSUME NEW k, NEW o \in ObjType, InKernel(k, o), NEW t \in Tasks, NEW l \in Locks,
           o[t] = l, ~k.tcb[t].klockwait
    PROVE  LET j    == Unlocked(k, t, l)
               heir == Head(k.wtskq[l])
               new  == [o EXCEPT ![t] = NULL]
           IN  /\ InKernel(j, new)
               /\ k.wtskq[l] = <<>> => PassedOn(j, k, t, NULL)
               /\ k.wtskq[l] # <<>> => /\ heir \in WaitersIn(k, o, l)
                                      /\ PassedOn(j, k, t, heir)
<1> DEFINE R    == Exec(k)
           j    == Unlocked(k, t, l)
           new  == [o EXCEPT ![t] = NULL]
           heir == Head(k.wtskq[l])
           c    == [k.tcb[t] EXCEPT !.klocked = FALSE]
           q    == [k.rq EXCEPT !.klocktsk = NULL]
           free == [k EXCEPT !.tcb = [k.tcb EXCEPT ![t] = c], !.rq = q]
<1>1. /\ k \in KernelType /\ k.tcb[t] \in TCB /\ InQueues(k, o, R) /\ R \in SUBSET Tasks
      /\ \A u \in Tasks : k.tcb[u].klockwait \in BOOLEAN /\ k.tcb[u].klocked \in BOOLEAN
      /\ NULL \notin Tasks
  BY ReadyQueueAssumption DEF InKernel, InQueues, KernelType, TCB, Exec
<1>2. /\ c \in TCB /\ c.klocked = FALSE
      /\ c.state = k.tcb[t].state /\ c.wspec = k.tcb[t].wspec
      /\ c.suscnt = k.tcb[t].suscnt /\ c.wupcnt = k.tcb[t].wupcnt
      /\ c.klockwait = k.tcb[t].klockwait /\ c.priority = k.tcb[t].priority
  BY <1>1 DEF TCB
<1>3. InOrder(q, R, Pris(k)) /\ q \in RDYQUE
  BY <1>1 DEF InQueues, InOrder, RDYQUE, Holds, Indexed
<1>4. free = [k EXCEPT !.tcb[t].klocked = FALSE, !.rq.klocktsk = NULL]
  BY <1>1 DEF KernelType
<1> HIDE DEF c, q, R
<1>5. /\ free \in KernelType /\ free.rq = q /\ free.wtskq = k.wtskq
      /\ free.tcb = [k.tcb EXCEPT ![t] = c]
  BY <1>1, <1>2, <1>3 DEF KernelType
<1>6. \A u \in Tasks : free.tcb[u] = IF u = t THEN c ELSE k.tcb[u]
  BY <1>1, <1>5 DEF KernelType
<1>7. \A u \in Tasks : new[u] = IF u = t THEN NULL ELSE o[u]
  BY DEF ObjType
<1> HIDE DEF free, new
<1>8. Pris(free) = Pris(k) /\ Exec(free) = R
      /\ \A m \in Locks : WaitersIn(free, new, m) = WaitersIn(k, o, m)
  BY <1>2, <1>6, <1>7 DEF Pris, Exec, WaitersIn, R
<1>9. InQueues(free, new, R)
  BY <1>1, <1>3, <1>5, <1>8 DEF InQueues
<1>10. \A u \in Tasks : k.tcb[u].klockwait => k.tcb[u].state = "READY" /\ new[u] # NULL
  BY <1>7 DEF InKernel
<1>11. ASSUME NEW n, NEW S \in SUBSET Tasks, InQueues(n, new, S), Exec(n) = S,
              j = [n EXCEPT !.sched = Chosen(n)], NEW h,
              PassedOn(n, k, t, h), n.rq.klocktsk = NULL \/ h \in Tasks
       PROVE  InKernel(j, new) /\ PassedOn(j, k, t, h)
  <2> HIDE DEF j
  <2>1. SchedFrom(Chosen(n), S) /\ Chosen(n) \in S \cup {NULL}
    BY <1>11, PrisType, TopInOrder DEF InQueues, Chosen, SchedFrom
  <2>2. InQueues(j, new, S) /\ SameTasks(j, n) /\ j.sched = Chosen(n)
    BY <1>11, <2>1, SchedQueues
  <2>3. PassedOn(j, k, t, h)
    BY <1>11, <2>2 DEF PassedOn, SameTasks, SameTask, SameFields
  <2>4. Exec(j) = S
    BY <1>11, <2>2 DEF SameTasks, SameTask, Exec
  <2>5. Ranks(j, S)
    <3>1. CASE h \in Tasks
      <4>1. j.tcb[h].klocked
        BY <2>3, <3>1 DEF PassedOn
      <4> QED BY <3>1, <4>1 DEF Ranks, Unheld
    <3>2. CASE n.rq.klocktsk = NULL
      <4>1. InOrder(n.rq, S, Pris(n)) /\ Pris(n) \in [Tasks -> Pri]
        BY <1>11, PrisType DEF InQueues
      <4>2. Leads(n.rq, S, Pris(n), Chosen(n))
        BY <3>2, <4>1, TopLeads DEF Chosen
      <4>3. j.rq = n.rq /\ Pris(j) = Pris(n)
        BY <1>11, <2>2 DEF InQueues, KernelType, Pris, SameTasks, SameTask, SameFields
      <4> QED BY <2>2, <4>2, <4>3 DEF Ranks
    <3> QED BY <1>11, <3>1, <3>2
  <2> QED BY <1>10, <2>1, <2>2, <2>3, <2>4, <2>5 DEF InKernel, PassedOn
<1>12. ASSUME k.wtskq[l] = <<>> PROVE InKernel(j, new) /\ PassedOn(j, k, t, NULL)
  <2>1. j = [free EXCEPT !.sched = Chosen(free)]
    BY <1>4, <1>12 DEF Unlocked
  <2> HIDE DEF j
  <2>2. PassedOn(free, k, t, NULL)
    BY <1>1, <1>2, <1>6 DEF PassedOn
  <2>3. free.rq.klocktsk = NULL
    BY <1>1, <1>5 DEF q, KernelType, RDYQUE
  <2> QED BY <1>1, <1>8, <1>9, <1>11, <2>1, <2>2, <2>3
<1>13. ASSUME k.wtskq[l] # <<>>
       PROVE  /\ InKernel(j, new)
              /\ heir \in WaitersIn(k, o, l)
              /\ PassedOn(j, k, t, heir)
  <2> DEFINE d    == [free.tcb[heir] EXCEPT !.klockwait = FALSE, !.klocked = TRUE]
             w    == [k.wtskq EXCEPT ![l] = Tail(k.wtskq[l])]
             p    == k.tcb[heir].priority
             r    == ready_queue_insert_top(free.rq, heir, p, TRUE)
             held == [free EXCEPT !.tcb = [free.tcb EXCEPT ![heir] = d],
                                  !.wtskq = w, !.rq = r]
  <2>1. /\ heir \in WaitersIn(k, o, l)
        /\ Links(Tail(k.wtskq[l]), WaitersIn(k, o, l) \ {heir})
    BY <1>1, <1>13, HeadElement DEF InQueues
  <2>2. heir \in Tasks /\ heir # t /\ heir \notin R /\ free.tcb[heir] = k.tcb[heir]
        /\ k.tcb[heir].klockwait /\ k.tcb[heir].state = "READY" /\ o[heir] = l
    <3>1. heir \in Tasks /\ k.tcb[heir].klockwait /\ o[heir] = l
      BY <2>1 DEF WaitersIn
    <3> QED BY <1>6, <3>1 DEF InKernel, Exec, R
  <2>3. held = [free EXCEPT !.tcb[heir].klockwait = FALSE, !.tcb[heir].klocked = TRUE,
                            !.wtskq[l] = Tail(k.wtskq[l]), !.rq = r]
    <3>1. free.tcb \in [Tasks -> TCB] /\ free.tcb[heir] \in TCB
      BY <1>5, <2>2 DEF KernelType
    <3> DEFINE e == [free.tcb[heir] EXCEPT !.klockwait = FALSE]
    <3>2. d = [e EXCEPT !.klocked = TRUE]
      OBVIOUS
    <3>3. [[free.tcb EXCEPT ![heir] = e] EXCEPT ![heir] = [e EXCEPT !.klocked = TRUE]]
            = [free.tcb EXCEPT ![heir] = d]
      <4> HIDE DEF e, d, heir
      <4> QED BY <2>2, <3>1, <3>2
    <3>4. [free EXCEPT !.tcb[heir].klockwait = FALSE, !.tcb[heir].klocked = TRUE]
            = [free EXCEPT !.tcb = [free.tcb EXCEPT ![heir] = d]]
      <4> DEFINE f == [free EXCEPT !.tcb[heir].klockwait = FALSE]
      <4>1. f = [free EXCEPT !.tcb = [free.tcb EXCEPT ![heir] = e]]
        BY <1>5 DEF KernelType
      <4> HIDE DEF e, d, heir
      <4>2. f.tcb = [free.tcb EXCEPT ![heir] = e] /\ f.tcb[heir] = e
        BY <1>5, <2>2, <3>1, <4>1 DEF KernelType
      <4>3. [f EXCEPT !.tcb[heir].klocked = TRUE]
              = [f EXCEPT !.tcb = [f.tcb EXCEPT ![heir] = [f.tcb[heir] EXCEPT !.klocked = TRUE]]]
        <5> HIDE DEF f
        <5> QED OBVIOUS
      <4>4. [f EXCEPT !.tcb = [free.tcb EXCEPT ![heir] = d]]
              = [free EXCEPT !.tcb = [free.tcb EXCEPT ![heir] = d]]
        BY <1>5, <4>1 DEF KernelType
      <4> QED BY <3>2, <3>3, <4>2, <4>3, <4>4
    <3> QED BY <1>5, <3>4 DEF KernelType
  <2>4. j = [held EXCEPT !.sched = Chosen(held)]
    <3> HIDE DEF held, r
    <3>1. held = [free EXCEPT !.tcb[heir].klockwait = FALSE, !.tcb[heir].klocked = TRUE,
                              !.wtskq[l] = Tail(free.wtskq[l]),
                              !.rq = ready_queue_insert_top(free.rq, heir,
                                                            k.tcb[heir].priority, TRUE)]
      BY <1>5, <2>3 DEF r
    <3> QED BY <1>4, <1>13, <3>1 DEF Unlocked
  <2> HIDE DEF j
  <2>5. k.tcb[heir] \in TCB
    BY <1>1, <2>2 DEF KernelType
  <2>6. /\ d \in TCB /\ d.klocked = TRUE /\ d.klockwait = FALSE
        /\ d.state = k.tcb[heir].state /\ d.wspec = k.tcb[heir].wspec
        /\ d.suscnt = k.tcb[heir].suscnt /\ d.wupcnt = k.tcb[heir].wupcnt
        /\ d.priority = k.tcb[heir].priority
    BY <2>2, <2>5 DEF TCB
  <2>7. InOrder(r, R \cup {heir}, Pris(k)) /\ r \in RDYQUE
    <3>1. Pris(k)[heir] = p
      BY <2>2 DEF Pris
    <3>2. heir \in Tasks \ R
      BY <2>2
    <3>3. InOrder(ready_queue_insert_top(q, heir, Pris(k)[heir], TRUE),
                  R \cup {heir}, Pris(k))
      <4> HIDE DEF heir
      <4> QED BY <1>1, <1>3, <3>2, PrisType, InsertTopInOrder
    <3> QED BY <1>5, <3>1, <3>3 DEF InOrder
  <2>8. ASSUME NEW m \in Locks
        PROVE  Links(w[m], IF m = l THEN WaitersIn(k, o, m) \ {heir} ELSE WaitersIn(k, o, m))
    <3>1. w[m] = IF m = l THEN Tail(k.wtskq[l]) ELSE k.wtskq[m]
      BY <1>1 DEF KernelType
    <3> QED BY <1>1, <2>1, <3>1 DEF InQueues
  <2>9. w \in [Locks -> Seq(Tasks)]
    BY <1>1, <2>8 DEF Links, KernelType
  <2> HIDE DEF d, w, r, heir
  <2>10. /\ held \in KernelType /\ held.rq = r /\ held.wtskq = w
         /\ held.tcb = [free.tcb EXCEPT ![heir] = d]
    BY <1>5, <2>6, <2>7, <2>9 DEF KernelType
  <2>11. \A u \in Tasks : held.tcb[u] = IF u = heir THEN d ELSE free.tcb[u]
    BY <1>5, <2>10 DEF KernelType
  <2> HIDE DEF held
  <2>12. PassedOn(held, k, t, heir)
    <3>1. ASSUME NEW u \in Tasks
          PROVE  held.tcb[u] = IF u = heir THEN d ELSE IF u = t THEN c ELSE k.tcb[u]
      BY <1>6, <2>11
    <3>2. ASSUME NEW u \in Tasks
          PROVE  /\ held.tcb[u].state = k.tcb[u].state
                 /\ held.tcb[u].wspec = k.tcb[u].wspec
                 /\ held.tcb[u].suscnt = k.tcb[u].suscnt
                 /\ held.tcb[u].wupcnt = k.tcb[u].wupcnt
                 /\ held.tcb[u].klockwait = (u # heir /\ k.tcb[u].klockwait)
                 /\ held.tcb[u].klocked = (u = heir \/ (u # t /\ k.tcb[u].klocked))
      <4>1. k.tcb[u] \in TCB
        BY <1>1 DEF KernelType
      <4>2. k.tcb[u].klockwait \in BOOLEAN /\ k.tcb[u].klocked \in BOOLEAN
        BY <4>1 DEF TCB
      <4>3. CASE u = heir
        <5>1. held.tcb[u] = d
          BY <3>1, <4>3
        <5> QED BY <2>6, <4>3, <5>1
      <4>4. CASE u # heir /\ u = t
        <5>1. held.tcb[u] = c
          BY <3>1, <4>4
        <5> QED BY <1>1, <1>2, <4>1, <4>2, <4>4, <5>1
      <4>5. CASE u # heir /\ u # t
        <5>1. held.tcb[u] = k.tcb[u]
          BY <3>1, <4>5
        <5> QED BY <4>2, <4>5, <5>1
      <4> QED BY <4>3, <4>4, <4>5
    <3> QED BY <3>2, Zenon DEF PassedOn
  <2>13. /\ Pris(held) = Pris(k) /\ Exec(held) = R \cup {heir}
         /\ \A m \in Locks : WaitersIn(held, new, m)
                 = IF m = l THEN WaitersIn(k, o, m) \ {heir} ELSE WaitersIn(k, o, m)
    <3>1. Pris(held) = Pris(k)
      BY <1>2, <1>6, <2>6, <2>11 DEF Pris
    <3>2. Exec(held) = R \cup {heir}
      <4>1. ASSUME NEW u \in Tasks
            PROVE  /\ held.tcb[u].state = k.tcb[u].state
                   /\ held.tcb[u].klockwait = (u # heir /\ k.tcb[u].klockwait)
        BY <2>12 DEF PassedOn
      <4>2. \A u \in Tasks : u \in Exec(held) <=> u \in R \/ u = heir
        BY <2>2, <4>1 DEF Exec, R
      <4>3. Exec(held) \subseteq Tasks /\ R \cup {heir} \subseteq Tasks
        BY <2>2 DEF Exec, R
      <4> QED BY <4>2, <4>3
    <3>3. ASSUME NEW m \in Locks
          PROVE  WaitersIn(held, new, m)
                   = IF m = l THEN WaitersIn(k, o, m) \ {heir} ELSE WaitersIn(k, o, m)
      <4>1. \A u \in Tasks : held.tcb[u].klockwait <=> u # heir /\ k.tcb[u].klockwait
        BY <1>1, <2>12 DEF PassedOn
      <4>2. \A u \in Tasks : k.tcb[u].klockwait => new[u] = o[u]
        BY <1>7
      <4> QED BY <2>2, <4>1, <4>2 DEF WaitersIn
    <3> QED BY <3>1, <3>2, <3>3
  <2>14. InQueues(held, new, R \cup {heir})
    BY <2>7, <2>8, <2>10, <2>13 DEF InQueues
  <2>15. R \cup {heir} \in SUBSET Tasks
    BY <1>1, <2>2
  <2>16. InKernel(j, new) /\ PassedOn(j, k, t, heir)
    BY <1>11, <2>2, <2>4, <2>12, <2>13, <2>14, <2>15
  <2> QED BY <2>1, <2>16 DEF heir
<1> HIDE DEF j, heir
<1> QED BY <1>12, <1>13 DEF new, j, heir

-----------------------------------------------------------------------------
(* Each lock that is taken has one owner, and a task waits for no other. *)
LockFacts(k, o, lk) ==
    /\ \A l \in Locks : lk[l] <=> \E t \in Tasks : k.tcb[t].klocked /\ o[t] = l
    /\ \A t, u \in Tasks : k.tcb[t].klocked /\ k.tcb[u].klocked /\ o[t] = o[u] => t = u
    /\ \A t \in Tasks : k.tcb[t].klockwait => lk[o[t]]
    /\ \A t \in Tasks : k.tcb[t].klocked => o[t] # NULL

(* The tasks that may go on while dispatch is held off: those that can     *)
(* execute, and one that a handler has terminated.                         *)
GoesOn(k) ==
    {t \in Tasks : t \in Exec(k) \/ k.tcb[t].state \in {"DORMANT", "NONEXIST"}}

(* The task at interrupt level 1 disabled dispatch itself, outside of all  *)
(* pool calls, and neither waits nor is suspended.                         *)
HeldOff ==
    pil = 1 => ctxtsk \in GoesOn(Kernel) /\ dispatch_disabled /\ obj[ctxtsk] = NULL

(* The inductive invariant *)
IInv ==
    /\ TypeOK
    /\ InKernel(Kernel, obj)
    /\ LockFacts(Kernel, obj, locked)
    /\ \A t \in Tasks : TaskFact(tcb[t])
    /\ HeldOff

LEMMA BecomesKernel ==
    ASSUME NEW j, j \in KernelType, Becomes(j)
    PROVE  Kernel' = j
  BY DEF KernelType, Becomes, Kernel

(* A kernel state is typed, and so are the variables it becomes. *)
LEMMA KernelTyped ==
    ASSUME NEW j, j \in KernelType, Becomes(j)
    PROVE  /\ tcb' \in [Tasks -> TCB] /\ ready_queue' \in RDYQUE
           /\ wtskq' \in [Locks -> Seq(Tasks)] /\ schedtsk' \in Tasks \cup {NULL}
           /\ tcb' = j.tcb
  BY DEF KernelType, Becomes

(* The action of OnlyOwnerUnlocks *)
OwnerUnlocks == \A t \in Tasks : tcb[t].klocked /\ ~tcb'[t].klocked => ctxtsk = t

(* What a step may do to the locks: a task stops waiting or nothing, takes *)
(* a free lock, queues up for a taken one, or gives its lock to h, who has *)
(* waited for it, or to nobody.                                            *)
Has(t, l) == tcb[t].klocked /\ obj[t] = l
Awaits(t, l) == tcb[t].klockwait /\ obj[t] = l

WithdrawMove(t) ==
    \A u \in Tasks, m \in Locks :
        /\ Has(u, m)' <=> Has(u, m)
        /\ Awaits(u, m)' => Awaits(u, m)
        /\ u # t => (Awaits(u, m) => Awaits(u, m)')

TakeMove(t, l) ==
    /\ \A u \in Tasks : ~Has(u, l)
    /\ ~tcb[t].klocked /\ ~tcb[t].klockwait
    /\ \A u \in Tasks, m \in Locks :
        /\ Has(u, m)' <=> Has(u, m) \/ (u = t /\ m = l)
        /\ Awaits(u, m)' <=> Awaits(u, m)

QueueMove(t, l) ==
    /\ \E u \in Tasks : Has(u, l)
    /\ ~tcb[t].klocked /\ ~tcb[t].klockwait
    /\ \A u \in Tasks, m \in Locks :
        /\ Has(u, m)' <=> Has(u, m)
        /\ Awaits(u, m)' <=> Awaits(u, m) \/ (u = t /\ m = l)

PassMove(t, l, h) ==
    /\ Has(t, l)
    /\ h = NULL => \A u \in Tasks : ~Awaits(u, l)
    /\ h # NULL => Awaits(h, l)
    /\ \A u \in Tasks, m \in Locks :
        /\ Has(u, m)' <=> IF m = l THEN u = h ELSE Has(u, m)
        /\ Awaits(u, m)' <=> Awaits(u, m) /\ u # h

LockMoves ==
    \E t \in Tasks :
        \/ WithdrawMove(t)
        \/ \E l \in Locks : \/ TakeMove(t, l) \/ QueueMove(t, l)
                            \/ \E h \in Tasks \cup {NULL} : PassMove(t, l, h)

(* A call on t that takes and frees no lock keeps the invariant. *)
LEMMA ServedStep ==
    ASSUME IInv, NEW t \in Tasks, NEW j, Serves(j, Kernel, obj, t), Becomes(j),
           pil = 1 /\ t = ctxtsk => t \in GoesOn(j),
           UNCHANGED <<ctxtsk, dispatch_disabled, pil, locked, obj>>
    PROVE  IInv' /\ OwnerUnlocks /\ LockMoves
<1>1. /\ j \in KernelType /\ InKernel(j, obj) /\ OthersKeep(j, Kernel, t)
      /\ NoLocking(tcb[t], j.tcb[t])
      /\ TaskFact(tcb[t]) => TaskFact(j.tcb[t])
  BY DEF Serves, InKernel, InQueues, Kernel
<1>2. Kernel' = j /\ tcb' = j.tcb /\ Kernel.tcb = tcb
  BY <1>1, BecomesKernel, KernelTyped DEF Kernel
<1>3. TypeOK'
  BY <1>1, KernelTyped DEF IInv, TypeOK
<1>4. InKernel(Kernel, obj)'
  BY <1>1, <1>2
<1>5. \A u \in Tasks : /\ tcb'[u].klocked = tcb[u].klocked
                       /\ tcb'[u].klockwait => tcb[u].klockwait
                       /\ TaskFact(tcb[u]) => TaskFact(tcb'[u])
  <2>1. \A u \in Tasks \ {t} : SameTask(tcb'[u], tcb[u]) /\ tcb'[u].klockwait = tcb[u].klockwait
    BY <1>1, <1>2 DEF OthersKeep
  <2>2. /\ tcb'[t].klocked = tcb[t].klocked
        /\ tcb'[t].klockwait => tcb[t].klockwait
        /\ TaskFact(tcb[t]) => TaskFact(tcb'[t])
    BY <1>1, <1>2 DEF NoLocking
  <2>3. ASSUME NEW u \in Tasks \ {t}
        PROVE  /\ tcb'[u].klocked = tcb[u].klocked
               /\ tcb'[u].klockwait => tcb[u].klockwait
               /\ TaskFact(tcb[u]) => TaskFact(tcb'[u])
    BY <2>1 DEF SameTask, SameFields, TaskFact
  <2> QED BY <2>2, <2>3
<1>6. \A u \in Tasks : TaskFact(tcb'[u])
  BY <1>5 DEF IInv
<1>7. LockFacts(Kernel, obj, locked)'
  <2>1. LockFacts(Kernel', obj, locked)
    BY <1>2, <1>5 DEF IInv, LockFacts
  <2> QED BY <2>1
<1>8. HeldOff'
  <2>1. pil = 1 => ctxtsk \in GoesOn(j)
    <3>1. pil = 1 => ctxtsk \in GoesOn(Kernel)
      BY DEF IInv, HeldOff
    <3>2. ASSUME ctxtsk \in GoesOn(Kernel), ctxtsk # t PROVE ctxtsk \in GoesOn(j)
      BY <1>1, <3>2 DEF GoesOn, Exec, OthersKeep, SameTask
    <3> QED BY <3>1, <3>2
  <2> QED BY <1>2, <2>1 DEF IInv, HeldOff
<1>9. WithdrawMove(t)
  <2>1. \A u \in Tasks \ {t} : tcb'[u].klockwait = tcb[u].klockwait
    BY <1>1, <1>2 DEF OthersKeep
  <2> QED BY <1>5, <2>1 DEF WithdrawMove, Has, Awaits
<1> QED BY <1>3, <1>4, <1>5, <1>6, <1>7, <1>8, <1>9 DEF IInv, OwnerUnlocks, LockMoves

(* Tasks that execute are not those that a call of another task is about.  *)
LEMMA RunnerIsReady ==
    ASSUME IInv, NEW t \in Tasks, Running(t)
    PROVE  /\ t = ctxtsk
           /\ pil # 1 => t \in Exec(Kernel)
           /\ pil = 1 => t \in GoesOn(Kernel) /\ dispatch_disabled /\ obj[t] = NULL
<1>1. SchedFrom(schedtsk, Exec(Kernel))
  BY DEF IInv, InKernel, Kernel
<1> QED BY <1>1, ReadyQueueAssumption DEF IInv, HeldOff, Running, SchedFrom

LEMMA KernelInv ==
    ASSUME IInv
    PROVE  /\ InKernel(Kernel, obj) /\ Kernel.tcb = tcb /\ obj \in ObjType
           /\ \A t \in Tasks : tcb[t] \in TCB /\ TaskFact(tcb[t])
  BY DEF IInv, Kernel, TypeOK, ObjType

(* The calls that attach to a task *)
LEMMA AttachedStep ==
    ASSUME IInv, NEW t \in Tasks, Attached(t)
    PROVE  IInv' /\ OwnerUnlocks /\ LockMoves
<1>1. CASE tk_sus_tsk(t)
  <2> DEFINE j == ForceWait([Kernel EXCEPT !.tcb[t].suscnt = Kernel.tcb[t].suscnt + 1], t)
  <2>1. task_alive(t) /\ tcb[t].suscnt < MaxSus /\ ~(t = ctxtsk /\ dispatch_disabled)
    BY <1>1 DEF tk_sus_tsk, MaySuspend
  <2>2. Serves(j, Kernel, obj, t)
    BY <2>1, KernelInv, Suspends DEF task_alive
  <2>3. ~(pil = 1 /\ t = ctxtsk)
    BY <2>1 DEF IInv, HeldOff
  <2>4. Becomes(j) /\ UNCHANGED <<ctxtsk, dispatch_disabled, pil, locked, obj>>
    BY <1>1 DEF tk_sus_tsk
  <2> HIDE DEF j
  <2> QED BY <2>2, <2>3, <2>4, ServedStep
<1>2. CASE tk_rsm_tsk(t)
  <2> DEFINE k == [Kernel EXCEPT !.tcb[t].suscnt = Kernel.tcb[t].suscnt - 1]
             c == [tcb[t] EXCEPT !.suscnt = tcb[t].suscnt - 1]
             j == IF k.tcb[t].suscnt = 0 THEN Resume(k, t) ELSE k
  <2>1. /\ tcb[t].state \in {"SUSPEND", "WAITSUS"} /\ Becomes(j)
        /\ UNCHANGED <<ctxtsk, dispatch_disabled, pil, locked, obj>>
    BY <1>2 DEF tk_rsm_tsk
  <2>2. tcb[t] \in TCB /\ tcb[t].suscnt \in 1 .. MaxSus /\ tcb \in [Tasks -> TCB]
    <3>1. tcb[t] \in TCB /\ TaskFact(tcb[t]) /\ tcb \in [Tasks -> TCB]
      BY KernelInv DEF IInv, TypeOK
    <3>2. tcb[t].suscnt \in 0 .. MaxSus /\ tcb[t].suscnt > 0
      BY <2>1, <3>1 DEF TCB, TaskFact
    <3> QED BY <3>1, <3>2
  <2>3. tcb[t].suscnt - 1 \in 0 .. MaxSus
    BY <2>2, TaskSchedAssumption
  <2>4. /\ c \in TCB /\ c.state = tcb[t].state /\ c.klockwait = tcb[t].klockwait
        /\ c.priority = tcb[t].priority /\ c.klocked = tcb[t].klocked
        /\ c.suscnt = tcb[t].suscnt - 1 /\ c.wspec = tcb[t].wspec /\ c.wupcnt = tcb[t].wupcnt
    BY <2>2, <2>3 DEF TCB
  <2>5. k = [Kernel EXCEPT !.tcb[t] = c] /\ k.tcb[t] = c
    BY <2>2 DEF Kernel
  <2> HIDE DEF c
  <2>6. Serves(j, Kernel, obj, t)
    <3>1. CASE c.suscnt = 0
      <4>1. k = [Kernel EXCEPT !.tcb[t].suscnt = 0]
        BY <2>4, <3>1, KernelInv
      <4>2. j = Resume(k, t)
        BY <2>5, <3>1
      <4> HIDE DEF k, j
      <4> QED BY <2>1, <4>1, <4>2, KernelInv, Resumes
    <3>2. CASE c.suscnt # 0
      <4>1. j = k
        BY <2>5, <3>2
      <4>2. TaskFact(tcb[t]) => TaskFact(c)
        BY <2>1, <2>2, <2>4, <3>2 DEF TaskFact
      <4> HIDE DEF k, j
      <4> QED BY <2>4, <2>5, <4>1, <4>2, KernelInv, FieldsServe
    <3> QED BY <3>1, <3>2
  <2>7. ~(pil = 1 /\ t = ctxtsk)
    BY <2>1 DEF IInv, HeldOff, GoesOn, Exec, Kernel
  <2> HIDE DEF j
  <2> QED BY <2>1, <2>6, <2>7, ServedStep
<1>3. CASE tk_frsm_tsk(t)
  <2> DEFINE j == Resume([Kernel EXCEPT !.tcb[t].suscnt = 0], t)
  <2>1. /\ tcb[t].state \in {"SUSPEND", "WAITSUS"} /\ Becomes(j)
        /\ UNCHANGED <<ctxtsk, dispatch_disabled, pil, locked, obj>>
    BY <1>3 DEF tk_frsm_tsk
  <2>2. Serves(j, Kernel, obj, t)
    BY <2>1, KernelInv, Resumes
  <2>3. ~(pil = 1 /\ t = ctxtsk)
    BY <2>1 DEF IInv, HeldOff, GoesOn, Exec, Kernel
  <2> HIDE DEF j
  <2> QED BY <2>1, <2>2, <2>3, ServedStep
<1>4. CASE tk_slp_tsk(t)
  <2>1. /\ Running(t) /\ pil = 0
        /\ UNCHANGED <<ctxtsk, dispatch_disabled, pil, locked, obj>>
    BY <1>4 DEF tk_slp_tsk, InTask
  <2>2. tcb[t].state = "READY" /\ tcb[t] \in TCB /\ tcb \in [Tasks -> TCB]
    BY <2>1, RunnerIsReady, KernelInv DEF Exec, IInv, TypeOK
  <2>3. CASE tcb[t].wupcnt > 0
    <3> DEFINE c == [tcb[t] EXCEPT !.wupcnt = tcb[t].wupcnt - 1]
               j == [Kernel EXCEPT !.tcb[t] = c]
    <3>1. tcb[t].wupcnt \in 0 .. MaxWup
      BY <2>2 DEF TCB
    <3>2. tcb[t].wupcnt - 1 \in 0 .. MaxWup
      BY <2>3, <3>1, TaskSchedAssumption
    <3>3. /\ c \in TCB /\ c.state = tcb[t].state /\ c.klockwait = tcb[t].klockwait
          /\ c.priority = tcb[t].priority /\ c.klocked = tcb[t].klocked
          /\ c.suscnt = tcb[t].suscnt
      BY <2>2, <3>2 DEF TCB
    <3>4. j = [Kernel EXCEPT !.tcb[t].wupcnt = Kernel.tcb[t].wupcnt - 1]
      BY <2>2 DEF Kernel
    <3> HIDE DEF c
    <3>5. TaskFact(tcb[t]) => TaskFact(c)
      BY <2>2, <3>3 DEF TaskFact
    <3>6. Serves(j, Kernel, obj, t)
      BY <3>3, <3>5, KernelInv, FieldsServe
    <3> HIDE DEF j
    <3>7. Becomes(j)
      BY <1>4, <2>3, <3>4 DEF tk_slp_tsk
    <3> QED BY <2>1, <3>6, <3>7, ServedStep
  <2>4. CASE ~(tcb[t].wupcnt > 0)
    <3> DEFINE j == make_wait(Kernel, t, "slp")
    <3>1. tcb[t].wupcnt = 0
      BY <2>2, <2>4, TaskSchedAssumption DEF TCB
    <3>2. Serves(j, Kernel, obj, t)
      BY <2>2, <3>1, KernelInv, MakeWait
    <3>3. Becomes(j)
      BY <1>4, <2>4 DEF tk_slp_tsk
    <3> HIDE DEF j
    <3> QED BY <2>1, <3>2, <3>3, ServedStep
  <2> QED BY <2>3, <2>4
<1>5. CASE tk_wup_tsk(t)
  <2>1. UNCHANGED <<ctxtsk, dispatch_disabled, pil, locked, obj>>
    BY <1>5 DEF tk_wup_tsk
  <2>2. CASE Waiting(t) /\ tcb[t].wspec = "slp" /\ Becomes(make_non_wait(Kernel, t))
    <3>1. Serves(make_non_wait(Kernel, t), Kernel, obj, t)
      BY <2>2, KernelInv, MakeNonWait DEF Serves, Waiting
    <3>2. ~(pil = 1 /\ t = ctxtsk)
      BY <2>2 DEF IInv, HeldOff, GoesOn, Exec, Kernel, Waiting
    <3> QED BY <2>1, <2>2, <3>1, <3>2, ServedStep
  <2>3. CASE /\ ~(Waiting(t) /\ tcb[t].wspec = "slp")
             /\ tcb[t].wupcnt < MaxWup
             /\ Becomes([Kernel EXCEPT !.tcb[t].wupcnt = Kernel.tcb[t].wupcnt + 1])
    <3> DEFINE c == [tcb[t] EXCEPT !.wupcnt = tcb[t].wupcnt + 1]
               j == [Kernel EXCEPT !.tcb[t] = c]
    <3>1. tcb[t] \in TCB /\ tcb[t].wupcnt \in 0 .. MaxWup /\ tcb \in [Tasks -> TCB]
      BY KernelInv DEF TCB, IInv, TypeOK
    <3>2. tcb[t].wupcnt + 1 \in 0 .. MaxWup
      BY <2>3, <3>1, TaskSchedAssumption
    <3>3. /\ c \in TCB /\ c.state = tcb[t].state /\ c.klockwait = tcb[t].klockwait
          /\ c.priority = tcb[t].priority /\ c.klocked = tcb[t].klocked
          /\ c.suscnt = tcb[t].suscnt /\ c.wspec = tcb[t].wspec
      BY <3>1, <3>2 DEF TCB
    <3>4. j = [Kernel EXCEPT !.tcb[t].wupcnt = Kernel.tcb[t].wupcnt + 1]
      BY <3>1 DEF Kernel
    <3> HIDE DEF c
    <3>5. TaskFact(tcb[t]) => TaskFact(c)
      BY <2>3, <3>3 DEF TaskFact, Waiting
    <3>6. Serves(j, Kernel, obj, t) /\ (t \in GoesOn(Kernel) => t \in GoesOn(j))
      <4>1. j.tcb[t] = c
        BY <3>1 DEF Kernel
      <4> QED BY <3>3, <3>5, <4>1, KernelInv, FieldsServe DEF GoesOn, Exec
    <3> HIDE DEF j
    <3> QED BY <2>1, <2>3, <3>4, <3>6, ServedStep DEF IInv, HeldOff
  <2> QED BY <1>5, <2>2, <2>3 DEF tk_wup_tsk
<1>6. CASE tk_can_wup(t)
  <2> DEFINE c == [tcb[t] EXCEPT !.wupcnt = 0]
             j == [Kernel EXCEPT !.tcb[t] = c]
  <2>1. tcb[t] \in TCB /\ 0 \in 0 .. MaxWup /\ tcb \in [Tasks -> TCB]
    BY KernelInv, TaskSchedAssumption DEF IInv, TypeOK
  <2>2. /\ c \in TCB /\ c.state = tcb[t].state /\ c.klockwait = tcb[t].klockwait
        /\ c.priority = tcb[t].priority /\ c.klocked = tcb[t].klocked
        /\ c.suscnt = tcb[t].suscnt /\ c.wupcnt = 0
    BY <2>1 DEF TCB
  <2>3. TaskFact(tcb[t]) => TaskFact(c)
    BY <2>2 DEF TaskFact
  <2>4. Becomes(j) /\ UNCHANGED <<ctxtsk, dispatch_disabled, pil, locked, obj>>
    BY <1>6 DEF tk_can_wup, Becomes, Kernel
  <2> HIDE DEF c
  <2>5. Serves(j, Kernel, obj, t) /\ (t \in GoesOn(Kernel) => t \in GoesOn(j))
    <3>1. j.tcb[t] = c
      BY <2>1 DEF Kernel
    <3> QED BY <2>2, <2>3, <3>1, KernelInv, FieldsServe DEF GoesOn, Exec
  <2> HIDE DEF j
  <2> QED BY <2>4, <2>5, ServedStep DEF IInv, HeldOff
<1>7. CASE tk_rel_wai(t)
  <2>1. /\ Waiting(t) /\ Becomes(make_non_wait(Kernel, t))
        /\ UNCHANGED <<ctxtsk, dispatch_disabled, pil, locked, obj>>
    BY <1>7 DEF tk_rel_wai
  <2>2. Serves(make_non_wait(Kernel, t), Kernel, obj, t)
    BY <2>1, KernelInv, MakeNonWait DEF Serves, Waiting
  <2>3. ~(pil = 1 /\ t = ctxtsk)
    BY <2>1 DEF IInv, HeldOff, GoesOn, Exec, Kernel, Waiting
  <2> QED BY <2>1, <2>2, <2>3, ServedStep
<1> QED BY <1>1, <1>2, <1>3, <1>4, <1>5, <1>6, <1>7 DEF Attached

(* A task that has no lock ends, or its TCB is created or freed. *)
LEMMA EndsStep ==
    ASSUME IInv, NEW t \in Tasks, ~tcb[t].klocked,
           NEW c \in TCB, c.state \in {"DORMANT", "NONEXIST"},
           ~c.klockwait, ~c.klocked, TaskFact(c),
           Becomes([_ter_tsk(Kernel, t) EXCEPT !.tcb[t] = c]),
           obj' \in ObjType, \A u \in Tasks \ {t} : obj'[u] = obj[u],
           obj'[t] \in {obj[t], NULL},
           locked' = locked, ctxtsk' \in Tasks \cup {NULL},
           dispatch_disabled' = dispatch_disabled,
           pil' \in {0, 1}, pil' = 1 => pil = 1 /\ ctxtsk' = ctxtsk
    PROVE  IInv' /\ OwnerUnlocks /\ LockMoves
<1> DEFINE j == [_ter_tsk(Kernel, t) EXCEPT !.tcb[t] = c]
<1>1. InKernel(j, obj') /\ OthersKeep(j, Kernel, t) /\ j.tcb[t] = c /\ Becomes(j)
  <2> DEFINE new == obj'
  <2>1. new \in ObjType /\ \A u \in Tasks \ {t} : new[u] = obj[u]
    OBVIOUS
  <2> HIDE DEF new
  <2>2. InKernel(j, new) /\ OthersKeep(j, Kernel, t) /\ j.tcb[t] = c
    BY <2>1, KernelInv, Ends
  <2> QED BY <2>2 DEF new
<1> HIDE DEF j
<1>2. j \in KernelType /\ Kernel' = j /\ tcb' = j.tcb /\ Kernel.tcb = tcb
  BY <1>1, BecomesKernel, KernelTyped DEF InKernel, InQueues, Kernel
<1>3. TypeOK'
  BY <1>1, <1>2, KernelTyped DEF IInv, TypeOK, ObjType
<1>4. InKernel(Kernel, obj)'
  BY <1>1, <1>2
<1>5. /\ tcb'[t] = c
      /\ \A u \in Tasks \ {t} : SameTask(tcb'[u], tcb[u]) /\ tcb'[u].klockwait = tcb[u].klockwait
  BY <1>1, <1>2 DEF OthersKeep
<1>6. \A u \in Tasks : TaskFact(tcb'[u])
  <2>1. ASSUME NEW u \in Tasks \ {t} PROVE TaskFact(tcb'[u])
    BY <1>5, KernelInv DEF SameTask, SameFields, TaskFact
  <2> QED BY <1>5, <2>1
<1>7. LockFacts(Kernel, obj, locked)'
  <2> DEFINE new == obj'
             k   == Kernel
  <2>1. /\ LockFacts(k, obj, locked) /\ k.tcb = tcb
    BY <1>2 DEF IInv
  <2>2. /\ \A u \in Tasks : j.tcb[u].klocked <=> u # t /\ k.tcb[u].klocked
        /\ \A u \in Tasks : j.tcb[u].klockwait => u # t /\ k.tcb[u].klockwait
        /\ \A u \in Tasks \ {t} : new[u] = obj[u]
        /\ ~k.tcb[t].klocked
    BY <1>2, <1>5 DEF SameTask, SameFields
  <2> HIDE DEF new, k
  <2>3. LockFacts(j, new, locked)
    BY <2>1, <2>2 DEF LockFacts
  <2> QED BY <1>2, <2>3 DEF new
<1>8. HeldOff'
  <2>1. ASSUME pil' = 1 PROVE ctxtsk' \in GoesOn(j) /\ dispatch_disabled' /\ obj'[ctxtsk'] = NULL
    <3>1. /\ ctxtsk \in GoesOn(Kernel) /\ dispatch_disabled /\ obj[ctxtsk] = NULL
          /\ ctxtsk' = ctxtsk /\ ctxtsk \in Tasks
      BY <2>1 DEF IInv, HeldOff, GoesOn
    <3>2. ctxtsk \in GoesOn(j)
      BY <1>2, <1>5, <3>1 DEF GoesOn, Exec, SameTask
    <3>3. obj'[ctxtsk] = NULL
      BY <3>1
    <3> QED BY <3>1, <3>2, <3>3
  <2> QED BY <1>2, <2>1 DEF HeldOff
<1>9. OwnerUnlocks
  BY <1>5 DEF OwnerUnlocks, SameTask, SameFields
<1>10. WithdrawMove(t)
  BY <1>5 DEF WithdrawMove, Has, Awaits, SameTask, SameFields
<1> QED BY <1>3, <1>4, <1>6, <1>7, <1>8, <1>9, <1>10 DEF IInv, LockMoves

LEMMA DormantTask ==
    ASSUME NEW p \in Pri
    PROVE  /\ Dormant(p) \in TCB /\ Dormant(p).state = "DORMANT" /\ ~Dormant(p).klockwait
           /\ ~Dormant(p).klocked /\ TaskFact(Dormant(p))
  BY TaskSchedAssumption DEF Dormant, TCB, TSTAT, TaskFact

LEMMA FreeTask ==
    /\ FreeTCB \in TCB /\ FreeTCB.state = "NONEXIST" /\ ~FreeTCB.klockwait
    /\ ~FreeTCB.klocked /\ TaskFact(FreeTCB)
<1>1. 0 \in Pri
  BY ReadyQueueAssumption DEF Pri
<1> DEFINE c == Dormant(0)
<1>2. /\ c \in TCB /\ ~c.klockwait /\ ~c.klocked /\ c.suscnt = 0
  BY <1>1, DormantTask DEF Dormant
<1>3. FreeTCB = [c EXCEPT !.state = "NONEXIST"]
  BY DEF FreeTCB
<1> HIDE DEF c
<1> QED BY <1>2, <1>3 DEF TCB, TSTAT, TaskFact

(* The life cycle of a task *)
LEMMA LifeCycleStep ==
    ASSUME IInv, NEW t \in Tasks, LifeCycle(t)
    PROVE  IInv' /\ OwnerUnlocks /\ LockMoves
<1>1. /\ tcb \in [Tasks -> TCB] /\ tcb[t] \in TCB /\ TaskFact(tcb[t])
      /\ obj \in ObjType /\ ctxtsk \in Tasks \cup {NULL} /\ pil \in {0, 1}
      /\ Kernel.tcb = tcb /\ tcb[t].ipriority \in Pri
  BY KernelInv DEF IInv, TypeOK, TCB
<1>3. ASSUME tcb[t].state \in {"NONEXIST", "DORMANT"}
      PROVE  ~tcb[t].klocked /\ _ter_tsk(Kernel, t) = Kernel
  BY <1>1, <1>3 DEF TaskFact, _ter_tsk
<1>4. CASE \E p \in Pri : tk_cre_tsk(t, p)
  <2>1. PICK p \in Pri : tk_cre_tsk(t, p)
    BY <1>4
  <2> DEFINE c == Dormant(p)
  <2>2. /\ tcb[t].state = "NONEXIST" /\ Becomes([Kernel EXCEPT !.tcb[t] = c])
        /\ UNCHANGED <<ctxtsk, dispatch_disabled, pil, locked, obj>>
    BY <2>1 DEF tk_cre_tsk, Becomes, Kernel
  <2>3. c \in TCB /\ c.state = "DORMANT" /\ ~c.klockwait /\ ~c.klocked /\ TaskFact(c)
    BY DormantTask
  <2> HIDE DEF c
  <2> QED BY <1>1, <1>3, <2>2, <2>3, EndsStep
<1>5. CASE tk_del_tsk(t)
  <2>1. /\ tcb[t].state = "DORMANT"
        /\ Becomes([Kernel EXCEPT !.tcb[t] = FreeTCB])
        /\ UNCHANGED <<ctxtsk, dispatch_disabled, pil, locked, obj>>
    BY <1>5 DEF tk_del_tsk, Becomes, Kernel
  <2> QED BY <1>1, <1>3, <2>1, FreeTask, EndsStep
<1>6. CASE tk_sta_tsk(t)
  <2> DEFINE j == make_ready(Kernel, t)
  <2>1. /\ tcb[t].state = "DORMANT" /\ Becomes(j)
        /\ UNCHANGED <<ctxtsk, dispatch_disabled, pil, locked, obj>>
    BY <1>6 DEF tk_sta_tsk
  <2>2. InKernel(j, obj) /\ MovedTo(j, Kernel, t, "READY")
    BY <1>1, <2>1, KernelInv, MakeReady
  <2> HIDE DEF j
  <2>3. /\ j.tcb[t].state = "READY" /\ SameFields(j.tcb[t], tcb[t]) /\ ~j.tcb[t].klockwait
        /\ OthersKeep(j, Kernel, t)
    <3>1. \A u \in Tasks : Kernel.tcb[u].klockwait \in BOOLEAN
      BY <1>1 DEF TCB
    <3> QED BY <1>1, <2>2, <3>1 DEF MovedTo, OthersKeep, SameTask
  <2>4. Serves(j, Kernel, obj, t)
    BY <1>1, <2>1, <2>2, <2>3 DEF Serves, NoLocking, SameFields, TaskFact
  <2>5. t \in GoesOn(j)
    BY <2>3 DEF GoesOn, Exec
  <2> QED BY <2>1, <2>4, <2>5, ServedStep
<1>7. ASSUME InTask(t) PROVE ctxtsk = t /\ ~tcb[t].klocked
  BY <1>1, <1>7 DEF InTask, Running, IInv, LockFacts
<1>8. make_dormant(_ter_tsk(Kernel, t), t)
         = [_ter_tsk(Kernel, t) EXCEPT !.tcb[t] = Dormant(tcb[t].ipriority)]
  <2>1. _ter_tsk(Kernel, t).tcb[t].ipriority = tcb[t].ipriority
    <3>1. CASE tcb[t].state = "READY"
      <4>1. TakenOut(make_non_ready(Kernel, t), Kernel, t)
        BY <1>1, <3>1, KernelInv, MakeNonReady
      <4> QED BY <1>1, <3>1, <4>1 DEF _ter_tsk, TakenOut, SameTask, SameFields
    <3>2. CASE tcb[t].state # "READY"
      BY <1>1, <3>2 DEF _ter_tsk
    <3> QED BY <3>1, <3>2
  <2> QED BY <2>1 DEF make_dormant
<1>9. CASE tk_ext_tsk(t)
  <2> DEFINE c == Dormant(tcb[t].ipriority)
  <2>1. InTask(t) /\ Leave(t) /\ Becomes(make_dormant(_ter_tsk(Kernel, t), t))
    BY <1>9 DEF tk_ext_tsk
  <2>2. c \in TCB /\ c.state = "DORMANT" /\ ~c.klockwait /\ ~c.klocked /\ TaskFact(c)
    BY <1>1, DormantTask
  <2> HIDE DEF c
  <2> QED BY <1>1, <1>7, <1>8, <2>1, <2>2, EndsStep DEF Leave, c
<1>10. CASE tk_exd_tsk(t)
  <2>1. InTask(t) /\ Leave(t) /\ Becomes([_ter_tsk(Kernel, t) EXCEPT !.tcb[t] = FreeTCB])
    BY <1>10 DEF tk_exd_tsk
  <2> QED BY <1>1, <1>7, <2>1, FreeTask, EndsStep DEF Leave
<1>11. CASE tk_ter_tsk(t)
  <2> DEFINE c == Dormant(tcb[t].ipriority)
  <2>1. /\ ~tcb[t].klocked /\ Becomes(make_dormant(_ter_tsk(Kernel, t), t))
        /\ obj' = [obj EXCEPT ![t] = NULL]
        /\ UNCHANGED <<ctxtsk, dispatch_disabled, pil, locked>>
    BY <1>11 DEF tk_ter_tsk, MayTerminate
  <2>2. /\ obj' \in ObjType /\ \A u \in Tasks \ {t} : obj'[u] = obj[u]
        /\ obj'[t] = NULL
    BY <1>1, <2>1 DEF ObjType
  <2>3. c \in TCB /\ c.state = "DORMANT" /\ ~c.klockwait /\ ~c.klocked /\ TaskFact(c)
    BY <1>1, DormantTask
  <2> HIDE DEF c
  <2> QED BY <1>1, <1>8, <2>1, <2>2, <2>3, EndsStep DEF c
<1> QED BY <1>4, <1>5, <1>6, <1>9, <1>10, <1>11 DEF LifeCycle

(* A step that leaves the kernel and the locks as they are *)
LEMMA DispatchStep ==
    ASSUME IInv, UNCHANGED <<tcb, ready_queue, wtskq, schedtsk, locked, obj>>,
           ctxtsk' \in Tasks \cup {NULL}, dispatch_disabled' \in BOOLEAN, pil' \in {0, 1},
           pil' = 1 => ctxtsk' \in GoesOn(Kernel) /\ dispatch_disabled' /\ obj[ctxtsk'] = NULL
    PROVE  IInv' /\ OwnerUnlocks /\ LockMoves
<1>1. Kernel' = Kernel
  BY DEF Kernel
<1>2. TypeOK' /\ \A t \in Tasks : TaskFact(tcb'[t])
  BY DEF IInv, TypeOK
<1>3. InKernel(Kernel, obj)' /\ LockFacts(Kernel, obj, locked)'
  BY <1>1 DEF IInv
<1>4. HeldOff'
  BY <1>1 DEF HeldOff
<1>5. LockMoves
  <2>1. PICK t \in Tasks : TRUE
    BY TaskSchedAssumption
  <2>2. WithdrawMove(t)
    BY DEF WithdrawMove, Has, Awaits
  <2> QED BY <2>2 DEF LockMoves
<1> QED BY <1>2, <1>3, <1>4, <1>5 DEF IInv, OwnerUnlocks

(* Scheduling, the timer interrupt and the dispatcher *)
LEMMA SchedulingStep ==
    ASSUME IInv, Scheduling
    PROVE  IInv' /\ OwnerUnlocks /\ LockMoves
<1>1. /\ tcb \in [Tasks -> TCB] /\ obj \in ObjType /\ ctxtsk \in Tasks \cup {NULL}
      /\ pil \in {0, 1} /\ schedtsk \in Tasks \cup {NULL} /\ dispatch_disabled \in BOOLEAN
      /\ InKernel(Kernel, obj) /\ Kernel.tcb = tcb /\ Kernel.sched = schedtsk
  BY KernelInv DEF IInv, TypeOK, Kernel
<1>2. ASSUME NEW t \in Tasks, NEW p \in Pri, tk_chg_pri(t, p) PROVE IInv' /\ OwnerUnlocks /\ LockMoves
  <2> DEFINE j == change_task_priority(Kernel, t, p)
  <2>1. Becomes(j) /\ UNCHANGED <<ctxtsk, dispatch_disabled, pil, locked, obj>>
    BY <1>2 DEF tk_chg_pri
  <2>2. Serves(j, Kernel, obj, t) /\ (t \in Exec(Kernel) => t \in Exec(j))
    BY <1>1, ChangesPriority
  <2>3. tcb[t].state # "READY" => j.tcb[t].state = tcb[t].state
    BY <1>1 DEF change_task_priority, IInv, TypeOK, TCB
  <2>4. t \in GoesOn(Kernel) => t \in GoesOn(j)
    BY <1>1, <2>2, <2>3 DEF GoesOn
  <2> HIDE DEF j
  <2> QED BY <2>1, <2>2, <2>4, ServedStep DEF IInv, HeldOff
<1>3. ASSUME NEW j, InKernel(j, obj), SameTasks(j, Kernel), Becomes(j),
             UNCHANGED <<ctxtsk, dispatch_disabled, pil, locked, obj>>
      PROVE  IInv' /\ OwnerUnlocks /\ LockMoves
  <2>1. PICK t \in Tasks : TRUE
    BY TaskSchedAssumption
  <2>2. Serves(j, Kernel, obj, t) /\ (t \in GoesOn(Kernel) => t \in GoesOn(j))
    BY <1>3, ReorderServes DEF SameTasks, SameTask, GoesOn, Exec
  <2> QED BY <1>3, <2>2, ServedStep DEF IInv, HeldOff
<1>4. ASSUME NEW p \in Pri, tk_rot_rdq(p) PROVE IInv' /\ OwnerUnlocks /\ LockMoves
  BY <1>1, <1>3, <1>4, Rotates DEF tk_rot_rdq
<1>5. ASSUME NEW t \in Tasks, NEW s \in SliceTimes, tk_chg_slt(t, s)
      PROVE  IInv' /\ OwnerUnlocks /\ LockMoves
  <2> DEFINE c == [tcb[t] EXCEPT !.slicetime = s]
             j == [Kernel EXCEPT !.tcb[t] = c]
  <2>1. tcb[t] \in TCB
    BY <1>1
  <2>2. /\ c \in TCB /\ c.state = tcb[t].state /\ c.klockwait = tcb[t].klockwait
        /\ c.priority = tcb[t].priority /\ c.klocked = tcb[t].klocked
        /\ c.suscnt = tcb[t].suscnt /\ c.wupcnt = tcb[t].wupcnt /\ c.wspec = tcb[t].wspec
    BY <2>1 DEF TCB
  <2>3. Becomes(j) /\ UNCHANGED <<ctxtsk, dispatch_disabled, pil, locked, obj>>
    BY <1>5 DEF tk_chg_slt, Becomes, Kernel
  <2>4. (TaskFact(tcb[t]) => TaskFact(c)) /\ j.tcb[t] = c
    BY <1>1, <2>2 DEF TaskFact, Kernel
  <2> HIDE DEF c
  <2>5. Serves(j, Kernel, obj, t) /\ (t \in GoesOn(Kernel) => t \in GoesOn(j))
    BY <1>1, <2>2, <2>4, FieldsServe DEF GoesOn, Exec
  <2> HIDE DEF j
  <2> QED BY <2>3, <2>5, ServedStep DEF IInv, HeldOff
<1>6. ASSUME NEW due \in Tasks \cup {NULL}, timer_handler(due) PROVE IInv' /\ OwnerUnlocks /\ LockMoves
  <2> DEFINE k == Charged(Kernel)
  <2>1. InKernel(k, obj) /\ SameTasks(k, Kernel)
    BY <1>1, Charges
  <2>2. /\ due # NULL => Waiting(due)
        /\ Becomes(IF due = NULL THEN k ELSE make_non_wait(k, due))
        /\ UNCHANGED <<ctxtsk, dispatch_disabled, pil, locked, obj>>
    BY <1>6 DEF timer_handler
  <2> HIDE DEF k
  <2>3. CASE due = NULL
    BY <1>3, <2>1, <2>2, <2>3
  <2>4. CASE due # NULL
    <3> DEFINE j == make_non_wait(k, due)
    <3>1. due \in Tasks /\ k.tcb[due].state \in {"WAIT", "WAITSUS"}
      BY <1>1, <2>1, <2>2, <2>4 DEF SameTasks, SameTask, Waiting
    <3>2. /\ InKernel(j, obj) /\ OthersKeep(j, k, due) /\ NoLocking(k.tcb[due], j.tcb[due])
          /\ (TaskFact(k.tcb[due]) => TaskFact(j.tcb[due]))
      BY <2>1, <3>1, MakeNonWait
    <3>3. Becomes(j)
      BY <2>2, <2>4
    <3> HIDE DEF j
    <3>4. Serves(j, Kernel, obj, due)
      <4>1. OthersKeep(j, Kernel, due)
        BY <2>1, <3>1, <3>2 DEF OthersKeep, SameTasks, SameTask, SameFields
      <4>2. NoLocking(Kernel.tcb[due], j.tcb[due])
        BY <2>1, <3>1, <3>2 DEF NoLocking, SameTasks, SameTask, SameFields
      <4>3. TaskFact(Kernel.tcb[due]) => TaskFact(k.tcb[due])
        BY <2>1, <3>1 DEF TaskFact, SameTasks, SameTask, SameFields
      <4> QED BY <3>2, <4>1, <4>2, <4>3 DEF Serves
    <3>5. ~(pil = 1 /\ due = ctxtsk)
      BY <1>1, <2>2, <2>4 DEF IInv, HeldOff, GoesOn, Exec, Waiting
    <3> QED BY <2>2, <3>1, <3>3, <3>4, <3>5, ServedStep
  <2> QED BY <2>3, <2>4
<1>7. ASSUME NEW t \in Tasks, tk_dis_dsp(t) \/ tk_ena_dsp(t) PROVE IInv' /\ OwnerUnlocks /\ LockMoves
  <2>1. InTask(t) /\ t \in GoesOn(Kernel) /\ ctxtsk = t
    BY <1>7, RunnerIsReady DEF tk_dis_dsp, tk_ena_dsp, InTask, GoesOn
  <2>2. /\ UNCHANGED <<tcb, ready_queue, wtskq, schedtsk, ctxtsk, locked, obj>>
        /\ dispatch_disabled' \in BOOLEAN /\ pil' \in {0, 1}
        /\ pil' = 1 => dispatch_disabled'
        /\ obj[t] = NULL
    <3>1. CASE tk_dis_dsp(t)
      BY <3>1 DEF tk_dis_dsp, InTask
    <3>2. CASE tk_ena_dsp(t)
      <4>1. /\ UNCHANGED <<tcb, ready_queue, wtskq, schedtsk, ctxtsk, locked, obj>>
            /\ dispatch_disabled' = FALSE /\ pil' = 0 /\ obj[t] = NULL
        BY <3>2 DEF tk_ena_dsp, InTask
      <4>2. pil' # 1 /\ pil' \in {0, 1}
        BY <4>1
      <4>3. dispatch_disabled' \in BOOLEAN
        BY <4>1, Zenon
      <4> QED BY <4>1, <4>2, <4>3
    <3> QED BY <1>7, <3>1, <3>2
  <2> QED BY <1>1, <2>1, <2>2, DispatchStep
<1>8. ASSUME DispatchOut PROVE IInv' /\ OwnerUnlocks /\ LockMoves
  BY <1>1, <1>8, DispatchStep DEF DispatchOut
<1>9. ASSUME DispatchIn PROVE IInv' /\ OwnerUnlocks /\ LockMoves
  <2>1. pil # 1
    BY <1>9, ReadyQueueAssumption DEF DispatchIn, IInv, HeldOff, GoesOn
  <2> QED BY <1>1, <1>9, <2>1, DispatchStep DEF DispatchIn
<1> QED BY <1>2, <1>4, <1>5, <1>6, <1>7, <1>8, <1>9 DEF Scheduling

-----------------------------------------------------------------------------
(* LockOBJ *)
LEMMA LockStep ==
    ASSUME IInv, NEW t \in Tasks, NEW l \in Locks, LockOBJ(t, l)
    PROVE  IInv' /\ OwnerUnlocks /\ LockMoves
<1> DEFINE new == [obj EXCEPT ![t] = l]
           lk  == [locked EXCEPT ![l] = TRUE]
<1>1. /\ tcb \in [Tasks -> TCB] /\ obj \in ObjType /\ locked \in [Locks -> BOOLEAN]
      /\ InKernel(Kernel, obj) /\ Kernel.tcb = tcb /\ LockFacts(Kernel, obj, locked)
      /\ \A u \in Tasks : TaskFact(tcb[u])
  BY KernelInv DEF IInv, TypeOK
<1>2. /\ t \in Exec(Kernel) /\ ctxtsk = t /\ pil = 0 /\ ~tcb[t].klocked
      /\ ~tcb[t].klockwait /\ tcb[t].state = "READY"
      /\ obj' = new /\ UNCHANGED <<ctxtsk, dispatch_disabled, pil>>
      /\ IF LockFree(l) THEN TakeLock(t, l) ELSE QueueForLock(t, l)
  BY <1>1, RunnerIsReady DEF LockOBJ, Exec
<1>3. /\ new \in ObjType /\ \A u \in Tasks : new[u] = IF u = t THEN l ELSE obj[u]
      /\ l # NULL
  BY <1>1, TaskSchedAssumption DEF ObjType
<1>4. ASSUME NEW j, InKernel(j, new), Becomes(j),
             locked' \in [Locks -> BOOLEAN], LockFacts(j, new, locked'),
             OthersKeep(j, Kernel, t), tcb[t].klocked => j.tcb[t].klocked,
             TaskFact(j.tcb[t])
      PROVE  IInv' /\ OwnerUnlocks /\ tcb' = j.tcb
  <2> HIDE DEF new
  <2>1. j \in KernelType /\ Kernel' = j /\ tcb' = j.tcb
    BY <1>4, BecomesKernel, KernelTyped DEF InKernel, InQueues
  <2>2. TypeOK'
    BY <1>2, <1>3, <1>4, <2>1, KernelTyped DEF IInv, TypeOK, ObjType
  <2>3. InKernel(Kernel, obj)' /\ LockFacts(Kernel, obj, locked)'
    BY <1>2, <1>4, <2>1
  <2>4. \A u \in Tasks \ {t} : SameTask(tcb'[u], tcb[u])
    BY <1>1, <1>4, <2>1 DEF OthersKeep
  <2>5. \A u \in Tasks : TaskFact(tcb'[u])
    <3>1. ASSUME NEW u \in Tasks \ {t} PROVE TaskFact(tcb'[u])
      BY <1>1, <2>4 DEF SameTask, SameFields, TaskFact
    <3> QED BY <1>4, <2>1, <3>1
  <2>6. HeldOff'
    BY <1>2 DEF HeldOff
  <2>7. OwnerUnlocks
    BY <1>2, <1>4, <2>1, <2>4 DEF OwnerUnlocks, SameTask, SameFields
  <2> QED BY <2>1, <2>2, <2>3, <2>5, <2>6, <2>7 DEF IInv
<1>5. CASE LockFree(l)
  <2> DEFINE j == [Kernel EXCEPT !.tcb[t].klocked = TRUE, !.rq.klocktsk = t]
             c == [tcb[t] EXCEPT !.klocked = TRUE]
  <2>1. Becomes(j) /\ locked' = lk /\ ~locked[l]
    BY <1>1, <1>2, <1>5 DEF TakeLock, LockFree, Becomes, Kernel
  <2>2. InKernel(j, new) /\ OthersKeep(j, Kernel, t) /\ j.tcb[t] = c
    <3> DEFINE k == Kernel
    <3>1. InKernel(k, obj) /\ t \in Exec(k) /\ obj \in ObjType /\ k.tcb = tcb
      BY <1>1, <1>2
    <3> HIDE DEF k
    <3>2. LET i == [k EXCEPT !.tcb[t].klocked = TRUE, !.rq.klocktsk = t]
          IN  InKernel(i, new) /\ OthersKeep(i, k, t)
              /\ i.tcb[t] = [k.tcb[t] EXCEPT !.klocked = TRUE]
      BY <3>1, TakesLock
    <3> QED BY <3>1, <3>2 DEF k
  <2>3. /\ c.klocked /\ c.state = "READY" /\ ~c.klockwait
        /\ c.suscnt = tcb[t].suscnt
    <3>1. tcb[t] \in TCB
      BY <1>1
    <3> QED BY <1>2, <3>1 DEF TCB
  <2> HIDE DEF j, c, new
  <2>4. TaskFact(j.tcb[t])
    BY <1>1, <1>2, <2>2, <2>3 DEF TaskFact
  <2>5. \A m \in Locks : lk[m] = IF m = l THEN TRUE ELSE locked[m]
    BY <1>1
  <2>6. LockFacts(j, new, lk)
    <3>1. \A u \in Tasks : /\ j.tcb[u].klocked <=> u = t \/ tcb[u].klocked
                           /\ j.tcb[u].klockwait => tcb[u].klockwait /\ u # t
      BY <1>1, <2>2, <2>3 DEF OthersKeep, SameTask, SameFields
    <3>2. \A u \in Tasks : tcb[u].klocked => obj[u] # l /\ u # t
      BY <1>1, <1>2, <2>1 DEF LockFacts
    <3>3. \A m \in Locks : lk[m] <=> \E u \in Tasks : j.tcb[u].klocked /\ new[u] = m
      <4>1. ASSUME NEW m \in Locks, m # l
            PROVE  lk[m] <=> \E u \in Tasks : j.tcb[u].klocked /\ new[u] = m
        BY <1>1, <1>3, <2>5, <3>1, <3>2, <4>1 DEF LockFacts
      <4> QED BY <1>3, <2>5, <3>1, <4>1
    <3>4. \A u, v \in Tasks : j.tcb[u].klocked /\ j.tcb[v].klocked /\ new[u] = new[v] => u = v
      BY <1>1, <1>3, <3>1, <3>2 DEF LockFacts
    <3>5. \A u \in Tasks : j.tcb[u].klockwait => lk[new[u]]
      <4>1. \A u \in Tasks : tcb[u].klockwait => locked[obj[u]] /\ obj[u] \in Locks
        BY <1>1 DEF LockFacts, InKernel, ObjType
      <4> QED BY <1>3, <2>5, <3>1, <4>1
    <3> QED BY <1>1, <1>3, <3>1, <3>3, <3>4, <3>5 DEF LockFacts
  <2>7. lk \in [Locks -> BOOLEAN]
    BY <1>1
  <2> HIDE DEF lk
  <2>8. IInv' /\ OwnerUnlocks /\ tcb' = j.tcb
    BY <1>2, <1>4, <2>1, <2>2, <2>4, <2>6, <2>7
  <2>9. TakeMove(t, l)
    <3>1. \A u \in Tasks : ~Has(u, l)
      BY <1>1, <2>1 DEF LockFacts, Has
    <3>2. \A u \in Tasks : /\ tcb'[u].klocked <=> u = t \/ tcb[u].klocked
                           /\ u # t => tcb'[u].klockwait = tcb[u].klockwait
      BY <1>1, <2>2, <2>3, <2>8 DEF OthersKeep, SameTask, SameFields
    <3>3. ~tcb'[t].klockwait
      BY <2>2, <2>3, <2>8
    <3>4. \A u \in Tasks : obj'[u] = IF u = t THEN l ELSE obj[u]
      BY <1>2, <1>3
    <3> QED BY <1>2, <3>1, <3>2, <3>3, <3>4 DEF TakeMove, Has, Awaits
  <2> QED BY <2>8, <2>9 DEF LockMoves
<1>6. CASE ~LockFree(l)
  <2> DEFINE gone == Delete(Kernel, t)
             a    == [gone EXCEPT !.tcb[t].klockwait = TRUE,
                                  !.wtskq[l] = Append(gone.wtskq[l], t)]
             j    == [a EXCEPT !.sched = Chosen(a)]
  <2>1. Becomes(j) /\ locked' = locked /\ locked[l]
    BY <1>2, <1>6 DEF QueueForLock, LockFree
  <2>2. /\ InKernel(j, new) /\ OthersKeep(j, Kernel, t)
        /\ SameTask(j.tcb[t], tcb[t]) /\ j.tcb[t].klockwait
    BY <1>1, <1>2, QueuesForLock
  <2> HIDE DEF j, new
  <2>3. TaskFact(j.tcb[t])
    BY <1>1, <2>2 DEF TaskFact, SameTask, SameFields
  <2>4. LockFacts(j, new, locked)
    <3>1. \A u \in Tasks : /\ j.tcb[u].klocked <=> tcb[u].klocked
                           /\ j.tcb[u].klockwait => tcb[u].klockwait \/ u = t
      BY <1>1, <2>2 DEF OthersKeep, SameTask, SameFields
    <3> QED BY <1>1, <1>2, <1>3, <2>1, <3>1 DEF LockFacts
  <2>5. IInv' /\ OwnerUnlocks /\ tcb' = j.tcb
    BY <1>1, <1>2, <1>4, <2>1, <2>2, <2>3, <2>4
  <2>6. QueueMove(t, l)
    <3>1. \E u \in Tasks : Has(u, l)
      BY <1>1, <2>1 DEF LockFacts, Has
    <3>2. \A u \in Tasks : /\ tcb'[u].klocked = tcb[u].klocked
                           /\ u # t => tcb'[u].klockwait = tcb[u].klockwait
      BY <1>1, <2>2, <2>5 DEF OthersKeep, SameTask, SameFields
    <3>3. tcb'[t].klockwait
      BY <2>2, <2>5
    <3>4. \A u \in Tasks : obj'[u] = IF u = t THEN l ELSE obj[u]
      BY <1>2, <1>3
    <3> QED BY <1>2, <3>1, <3>2, <3>3, <3>4 DEF QueueMove, Has, Awaits
  <2> QED BY <2>5, <2>6 DEF LockMoves
<1> QED BY <1>5, <1>6

(* UnlockOBJ in a kernel state k, which a pool call may have changed *)
UnlocksFrom(k, t, l) ==
    /\ InKernel(k, obj) /\ LockFacts(k, obj, locked)
    /\ \A u \in Tasks : TaskFact(k.tcb[u])
    /\ \A u \in Tasks : /\ k.tcb[u].klocked = tcb[u].klocked
                       /\ k.tcb[u].klockwait = tcb[u].klockwait
    /\ k.tcb[t].klocked /\ ~k.tcb[t].klockwait
    /\ obj[t] = l /\ ctxtsk = t /\ pil # 1
    /\ Becomes(Unlocked(k, t, l))
    /\ locked' = [locked EXCEPT ![l] = (k.wtskq[l] # <<>>)]
    /\ obj' = [obj EXCEPT ![t] = NULL]
    /\ UNCHANGED <<ctxtsk, dispatch_disabled, pil>>

LEMMA UnlockStep ==
    ASSUME IInv, NEW t \in Tasks, NEW l \in Locks, NEW k, UnlocksFrom(k, t, l)
    PROVE  IInv' /\ OwnerUnlocks /\ LockMoves
<1> USE DEF UnlocksFrom
<1> DEFINE j    == Unlocked(k, t, l)
           new  == [obj EXCEPT ![t] = NULL]
           lk   == [locked EXCEPT ![l] = (k.wtskq[l] # <<>>)]
           heir == Head(k.wtskq[l])
           h    == IF k.wtskq[l] = <<>> THEN NULL ELSE heir
<1>1. /\ obj \in ObjType /\ locked \in [Locks -> BOOLEAN] /\ NULL \notin Tasks
      /\ NULL \notin Locks /\ lk \in [Locks -> BOOLEAN] /\ new \in ObjType
      /\ \A u \in Tasks : new[u] = IF u = t THEN NULL ELSE obj[u]
      /\ \A m \in Locks : lk[m] <=> IF m = l THEN k.wtskq[l] # <<>> ELSE locked[m]
  BY ReadyQueueAssumption, TaskSchedAssumption DEF IInv, TypeOK, ObjType
<1>2. /\ InKernel(j, new) /\ PassedOn(j, k, t, h)
      /\ k.wtskq[l] # <<>> => h \in WaitersIn(k, obj, l)
  BY <1>1, Unlocks
<1>3. k.wtskq[l] = <<>> => WaitersIn(k, obj, l) = {}
  BY EmptyQueue DEF InKernel, InQueues
<1>4. Becomes(j) /\ locked' = lk /\ obj' = new
  OBVIOUS
<1> HIDE DEF j, new, lk, heir, h
<1>5. j \in KernelType /\ Kernel' = j /\ tcb' = j.tcb
  BY <1>2, <1>4, BecomesKernel, KernelTyped DEF InKernel, InQueues
<1>6. TypeOK'
  BY <1>1, <1>4, <1>5, KernelTyped DEF IInv, TypeOK, ObjType
<1>7. \A u \in Tasks : TaskFact(j.tcb[u])
  <2>1. ASSUME NEW u \in Tasks
        PROVE  /\ j.tcb[u].state = k.tcb[u].state /\ j.tcb[u].wspec = k.tcb[u].wspec
               /\ j.tcb[u].suscnt = k.tcb[u].suscnt /\ j.tcb[u].wupcnt = k.tcb[u].wupcnt
               /\ j.tcb[u].klocked => k.tcb[u].klocked \/ k.tcb[u].state = "READY"
    BY <1>1, <1>2 DEF PassedOn, WaitersIn, InKernel, h
  <2> QED BY <2>1 DEF TaskFact
<1>8. LockFacts(j, new, lk)
  <2>1. /\ \A u \in Tasks : j.tcb[u].klocked <=> u = h \/ (u # t /\ k.tcb[u].klocked)
        /\ \A u \in Tasks : j.tcb[u].klockwait <=> u # h /\ k.tcb[u].klockwait
    <3>1. \A u \in Tasks : k.tcb[u].klockwait \in BOOLEAN /\ k.tcb[u].klocked \in BOOLEAN
      BY DEF InKernel, InQueues, KernelType, TCB
    <3> QED BY <1>2, <3>1 DEF PassedOn
  <2>2. /\ \A u, v \in Tasks : k.tcb[u].klocked /\ k.tcb[v].klocked /\ obj[u] = obj[v] => u = v
        /\ \A m \in Locks : locked[m] <=> \E u \in Tasks : k.tcb[u].klocked /\ obj[u] = m
        /\ \A u \in Tasks : k.tcb[u].klocked => obj[u] \in Locks
        /\ \A u \in Tasks : k.tcb[u].klockwait => locked[obj[u]] /\ obj[u] \in Locks
    BY <1>1 DEF LockFacts, InKernel, ObjType
  <2>3. h \in Tasks => k.wtskq[l] # <<>> /\ h # t /\ obj[h] = l /\ k.tcb[h].klockwait
    BY <1>1, <1>2 DEF WaitersIn, h
  <2>4. k.wtskq[l] # <<>> => h \in Tasks
    BY <1>2 DEF WaitersIn
  <2>5. \A u \in Tasks : k.tcb[u].klocked /\ u # t => obj[u] # l
    BY <2>2
  <2>6. ASSUME NEW m \in Locks
        PROVE  lk[m] <=> \E u \in Tasks : j.tcb[u].klocked /\ new[u] = m
    <3>1. CASE m = l
      BY <1>1, <2>1, <2>3, <2>4, <2>5, <3>1
    <3>2. CASE m # l
      BY <1>1, <2>1, <2>2, <2>3, <3>2
    <3> QED BY <3>1, <3>2
  <2>7. \A u, v \in Tasks : j.tcb[u].klocked /\ j.tcb[v].klocked /\ new[u] = new[v] => u = v
    <3>1. ASSUME NEW u \in Tasks, j.tcb[u].klocked
          PROVE  u # t /\ new[u] = obj[u] /\ (u = h \/ k.tcb[u].klocked)
      BY <1>1, <2>1, <2>3, <3>1
    <3>2. ASSUME NEW u \in Tasks, NEW v \in Tasks, j.tcb[u].klocked, j.tcb[v].klocked,
                 new[u] = new[v]
          PROVE  u = v
      <4>1. /\ u # t /\ (u = h \/ k.tcb[u].klocked)
            /\ v # t /\ (v = h \/ k.tcb[v].klocked) /\ obj[u] = obj[v]
        BY <3>1, <3>2
      <4> QED BY <2>2, <2>3, <2>5, <4>1
    <3> QED BY <3>2
  <2>8. ASSUME NEW u \in Tasks, j.tcb[u].klockwait PROVE lk[new[u]]
    <3>1. u # h /\ k.tcb[u].klockwait /\ u # t /\ new[u] = obj[u]
      BY <1>1, <2>1, <2>8
    <3>2. obj[u] = l => k.wtskq[l] # <<>>
      BY <1>3, <3>1 DEF WaitersIn
    <3> QED BY <1>1, <2>2, <3>1, <3>2
  <2>9. \A u \in Tasks : j.tcb[u].klocked => new[u] # NULL
    BY <1>1, <2>1, <2>2, <2>3
  <2> QED BY <2>6, <2>7, <2>8, <2>9 DEF LockFacts
<1>9. InKernel(Kernel, obj)' /\ LockFacts(Kernel, obj, locked)'
  BY <1>2, <1>4, <1>5, <1>8
<1>10. OwnerUnlocks
  BY <1>2, <1>5 DEF OwnerUnlocks, PassedOn
<1>11. PassMove(t, l, h)
  <2>1. /\ Has(t, l)
        /\ h # NULL => h \in Tasks /\ Awaits(h, l)
        /\ h = NULL => \A u \in Tasks : ~Awaits(u, l)
    BY <1>1, <1>2, <1>3 DEF Has, Awaits, WaitersIn, h
  <2>2. \A u \in Tasks : /\ tcb'[u].klocked <=> u = h \/ (u # t /\ tcb[u].klocked)
                         /\ tcb'[u].klockwait <=> u # h /\ tcb[u].klockwait
    <3>1. \A u \in Tasks : k.tcb[u].klockwait \in BOOLEAN /\ k.tcb[u].klocked \in BOOLEAN
      BY DEF InKernel, InQueues, KernelType, TCB
    <3> QED BY <1>2, <1>5, <3>1 DEF PassedOn
  <2>3. \A u \in Tasks : obj'[u] = IF u = t THEN NULL ELSE obj[u]
    BY <1>1, <1>4
  <2>4. \A u, v \in Tasks : tcb[u].klocked /\ tcb[v].klocked /\ obj[u] = obj[v] => u = v
    BY DEF LockFacts
  <2> QED BY <1>1, <2>1, <2>2, <2>3, <2>4 DEF PassMove, Has, Awaits
<1>12. LockMoves
  BY <1>1, <1>2, <1>11 DEF LockMoves, h, WaitersIn
<1> QED BY <1>5, <1>6, <1>7, <1>9, <1>10, <1>12 DEF IInv, HeldOff

(* The object lock *)
LEMMA LockingStep ==
    ASSUME IInv, NEW t \in Tasks, NEW l \in Locks, Locking(t, l)
    PROVE  IInv' /\ OwnerUnlocks /\ LockMoves
<1>1. /\ obj \in ObjType /\ InKernel(Kernel, obj) /\ Kernel.tcb = tcb
      /\ Kernel.wtskq = wtskq /\ LockFacts(Kernel, obj, locked)
      /\ \A u \in Tasks : TaskFact(tcb[u])
  BY KernelInv DEF IInv, Kernel
<1>2. CASE LockOBJ(t, l)
  BY <1>2, LockStep
<1>3. ASSUME InSection(t, l)
      PROVE  /\ tcb[t].klocked /\ obj[t] = l /\ ctxtsk = t /\ pil # 1
             /\ ~tcb[t].klockwait /\ tcb[t].state = "READY"
  <2>1. obj[t] = l /\ l # NULL
    BY <1>3, TaskSchedAssumption DEF InSection
  <2>2. t \in Exec(Kernel) /\ ctxtsk = t /\ pil # 1
    BY <1>3, <2>1, RunnerIsReady DEF InSection
  <2> QED BY <1>1, <1>3, <2>1, <2>2 DEF InSection, Exec
<1>4. CASE UnlockOBJ(t, l)
  <2>1. UnlocksFrom(Kernel, t, l)
    BY <1>1, <1>3, <1>4 DEF UnlockOBJ, FreedLock, UnlocksFrom
  <2> QED BY <2>1, UnlockStep
<1>5. CASE WaitAndUnlock(t, l)
  <2> DEFINE k == make_wait(Kernel, t, "mpf")
  <2>1. /\ tcb[t].klocked /\ obj[t] = l /\ ctxtsk = t /\ pil # 1
        /\ ~tcb[t].klockwait /\ tcb[t].state = "READY"
    BY <1>3, <1>5 DEF WaitAndUnlock
  <2>2. /\ Becomes(Unlocked(k, t, l)) /\ obj' = [obj EXCEPT ![t] = NULL]
        /\ locked' = [locked EXCEPT ![l] = (wtskq[l] # <<>>)]
        /\ UNCHANGED <<ctxtsk, dispatch_disabled, pil>>
    BY <1>5 DEF WaitAndUnlock, FreedLock
  <2>3. Serves(k, Kernel, obj, t) /\ ~k.tcb[t].klockwait
    BY <1>1, <2>1, MakeWait
  <2> HIDE DEF k
  <2>4. /\ InKernel(k, obj)
        /\ \A u \in Tasks : k.tcb[u].klocked = tcb[u].klocked
        /\ \A u \in Tasks : k.tcb[u].klockwait = tcb[u].klockwait
    <3>1. \A u \in Tasks : k.tcb[u].klockwait \in BOOLEAN /\ tcb[u].klockwait \in BOOLEAN
      BY <1>1, <2>3 DEF Serves, InKernel, InQueues, KernelType, TCB
    <3> QED BY <1>1, <2>1, <2>3, <3>1 DEF Serves, OthersKeep, NoLocking, SameTask, SameFields
  <2>5. \A u \in Tasks : TaskFact(k.tcb[u])
    <3>1. ASSUME NEW u \in Tasks \ {t} PROVE TaskFact(k.tcb[u])
      BY <1>1, <2>3 DEF Serves, OthersKeep, SameTask, SameFields, TaskFact
    <3> QED BY <1>1, <2>3, <3>1 DEF Serves
  <2>6. LockFacts(k, obj, locked)
    BY <1>1, <2>4 DEF LockFacts
  <2>7. wtskq[l] # <<>> <=> k.wtskq[l] # <<>>
    <3>1. WaitersIn(k, obj, l) = WaitersIn(Kernel, obj, l)
      BY <1>1, <2>4 DEF WaitersIn
    <3>2. /\ Links(k.wtskq[l], WaitersIn(k, obj, l))
          /\ Links(wtskq[l], WaitersIn(Kernel, obj, l))
      BY <1>1, <2>4 DEF InKernel, InQueues
    <3> QED BY <3>1, <3>2, EmptyQueue
  <2>8. locked' = [locked EXCEPT ![l] = (k.wtskq[l] # <<>>)]
    BY <2>2, <2>7
  <2>9. k.tcb[t].klocked /\ ~k.tcb[t].klockwait
    BY <2>1, <2>4
  <2>10. \A u \in Tasks : /\ k.tcb[u].klocked = tcb[u].klocked
                          /\ k.tcb[u].klockwait = tcb[u].klockwait
    BY <2>4
  <2>11. UnlocksFrom(k, t, l)
    BY <2>1, <2>2, <2>4, <2>5, <2>6, <2>8, <2>9, <2>10 DEF UnlocksFrom
  <2> QED BY <2>11, UnlockStep
<1> QED BY <1>2, <1>4, <1>5 DEF Locking

-----------------------------------------------------------------------------
LEMMA InitIInv == Init => IInv
<1> SUFFICES ASSUME Init PROVE IInv
  OBVIOUS
<1>1. PICK t \in Tasks, p \in Pri :
        /\ tcb = [u \in Tasks |-> IF u = t THEN [Dormant(p) EXCEPT !.state = "READY"]
                                  ELSE FreeTCB]
        /\ ready_queue = ready_queue_insert(ready_queue_initialize, t, p, FALSE)
        /\ schedtsk = t
  BY DEF Init
<1>2. /\ wtskq = [l \in Locks |-> <<>>] /\ ctxtsk = NULL /\ dispatch_disabled = FALSE
      /\ pil = 0 /\ locked = [l \in Locks |-> FALSE] /\ obj = [u \in Tasks |-> NULL]
  BY DEF Init
<1> DEFINE c == [Dormant(p) EXCEPT !.state = "READY"]
<1>3. /\ c \in TCB /\ c.state = "READY" /\ ~c.klockwait /\ ~c.klocked /\ c.priority = p
      /\ TaskFact(c)
  <2>1. Dormant(p) \in TCB /\ Dormant(p).suscnt = 0 /\ Dormant(p).priority = p
        /\ ~Dormant(p).klockwait /\ ~Dormant(p).klocked
    BY DormantTask DEF Dormant
  <2> QED BY <2>1 DEF TCB, TSTAT, TaskFact
<1> HIDE DEF c
<1>4. \A u \in Tasks : tcb[u] = IF u = t THEN c ELSE FreeTCB
  BY <1>1 DEF c
<1>5. /\ tcb \in [Tasks -> TCB]
      /\ \A u \in Tasks : TaskFact(tcb[u]) /\ ~tcb[u].klockwait /\ ~tcb[u].klocked
  <2>1. \A u \in Tasks : tcb[u] \in TCB
    BY <1>3, <1>4, FreeTask
  <2> QED BY <1>1, <1>3, <1>4, <2>1, FreeTask
<1>6. Exec(Kernel) = {t}
  BY <1>3, <1>4, FreeTask DEF Exec, Kernel
<1>7. Pris(Kernel) \in [Tasks -> Pri] /\ Pris(Kernel)[t] = p
  BY <1>3, <1>4, <1>5 DEF Pris, Kernel, TCB
<1>8. InOrder(ready_queue, {t}, Pris(Kernel))
  <2>1. InOrder(ready_queue_initialize, {}, Pris(Kernel))
    BY EmptyInOrder
  <2>2. InOrder(ready_queue_insert(ready_queue_initialize, t, Pris(Kernel)[t], FALSE),
                {} \cup {t}, Pris(Kernel))
    BY <1>7, <2>1, InsertInOrder
  <2> QED BY <1>1, <1>7, <2>2
<1>9. ready_queue \in RDYQUE
  BY <1>8 DEF InOrder
<1>10. /\ wtskq \in [Locks -> Seq(Tasks)] /\ locked \in [Locks -> BOOLEAN]
       /\ obj \in [Tasks -> Locks \cup {NULL}] /\ schedtsk \in Tasks \cup {NULL}
       /\ Kernel \in KernelType
  <2>1. wtskq \in [Locks -> Seq(Tasks)]
    <3>1. <<>> \in Seq(Tasks)
      OBVIOUS
    <3> QED BY <1>2, <3>1
  <2>2. locked \in [Locks -> BOOLEAN] /\ obj \in [Tasks -> Locks \cup {NULL}]
    BY <1>2
  <2>3. schedtsk \in Tasks \cup {NULL}
    BY <1>1
  <2> QED BY <1>5, <1>9, <2>1, <2>2, <2>3 DEF Kernel, KernelType
<1>11. \A l \in Locks : Links(wtskq[l], WaitersIn(Kernel, obj, l))
  <2>1. \A l \in Locks : WaitersIn(Kernel, obj, l) = {}
    BY <1>5 DEF WaitersIn, Kernel
  <2>2. Links(<<>>, {})
    BY DEF Links, ToSet, IsInjective
  <2> QED BY <1>2, <2>1, <2>2
<1>12. InKernel(Kernel, obj)
  <2>1. Ranks(Kernel, {t})
    <3>1. InOrder(ready_queue_initialize, {}, Pris(Kernel))
      BY EmptyInOrder
    <3>2. Leads(ready_queue_initialize, {}, Pris(Kernel), NULL)
      BY DEF Leads, ready_queue_initialize
    <3>3. Leads(ready_queue_insert(ready_queue_initialize, t, Pris(Kernel)[t], FALSE),
                {} \cup {t}, Pris(Kernel),
                IF RaisesTop(ready_queue_initialize, Pris(Kernel)[t]) THEN t ELSE NULL)
      BY <1>7, <3>1, <3>2, InsertLeads
    <3>4. RaisesTop(ready_queue_initialize, p)
      BY ReadyQueueAssumption DEF RaisesTop, ready_queue_initialize, Pri
    <3> QED BY <1>1, <1>7, <3>3, <3>4 DEF Ranks, Kernel
  <2> QED BY <1>1, <1>5, <1>6, <1>8, <1>10, <1>11, <2>1
          DEF InKernel, InQueues, SchedFrom, Kernel
<1>13. LockFacts(Kernel, obj, locked)
  BY <1>2, <1>5 DEF LockFacts, Kernel
<1>14. TypeOK
  <2>1. ctxtsk \in Tasks \cup {NULL} /\ pil \in {0, 1}
    BY <1>2
  <2>2. dispatch_disabled \in BOOLEAN
    BY <1>2, Zenon
  <2> QED BY <1>5, <1>9, <1>10, <2>1, <2>2 DEF TypeOK
<1> QED BY <1>2, <1>5, <1>12, <1>13, <1>14 DEF IInv, HeldOff

LEMMA NextIInv == IInv /\ [Next]_vars => IInv' /\ OwnerUnlocks /\ LockMoves
<1> SUFFICES ASSUME IInv, [Next]_vars PROVE IInv' /\ OwnerUnlocks /\ LockMoves
  OBVIOUS
<1>1. CASE \E t \in Tasks : LifeCycle(t) \/ Attached(t)
  BY <1>1, LifeCycleStep, AttachedStep
<1>2. CASE Scheduling
  BY <1>2, SchedulingStep
<1>3. CASE \E t \in Tasks, l \in Locks : Locking(t, l)
  BY <1>3, LockingStep
<1>4. CASE UNCHANGED vars
  <2>1. UNCHANGED <<tcb, ready_queue, wtskq, schedtsk, ctxtsk, dispatch_disabled,
                    pil, locked, obj>>
    BY <1>4 DEF vars
  <2> QED BY <2>1, DispatchStep DEF IInv, TypeOK, HeldOff
<1> QED BY <1>1, <1>2, <1>3, <1>4 DEF Next

(* Every reachable state of the kernel satisfies the invariant. *)
THEOREM Invariant == Spec => []IInv
<1>1. IInv /\ [Next]_vars => IInv'
  BY NextIInv
<1> QED BY InitIInv, <1>1, PTL DEF Spec

(* The variables have their types: a suspension or a wakeup is counted     *)
(* within its bounds and the ready queue stays one, whatever the calls.    *)
THEOREM TypeCorrect == Spec => []TypeOK
<1>1. IInv => TypeOK
  BY DEF IInv
<1> QED BY Invariant, <1>1, PTL

(* Each task is in the one queue its state calls for, through every call   *)
(* that moves tasks between the ready queue and the queues of the locks.   *)
THEOREM QueuesCorrect == Spec => []QueuesExact
<1>1. IInv => QueuesExact
  <2> SUFFICES ASSUME IInv PROVE QueuesExact
    OBVIOUS
  <2>1. InKernel(Kernel, obj) /\ Kernel.tcb = tcb /\ Kernel.rq = ready_queue
        /\ Kernel.wtskq = wtskq
    BY KernelInv DEF Kernel
  <2>2. Exec(Kernel) = Executable /\ Pris(Kernel) = [t \in Tasks |-> tcb[t].priority]
        /\ \A l \in Locks : WaitersIn(Kernel, obj, l) = LockWaiters(l)
    BY <2>1 DEF Exec, Executable, Pris, WaitersIn, LockWaiters
  <2> QED BY <2>1, <2>2 DEF InKernel, InQueues, InOrder, Links, QueuesExact
<1> QED BY Invariant, <1>1, PTL

(* The bitmap and the top priority agree with the queues after any         *)
(* sequence of insertions and deletions.                                   *)
THEOREM IndexCorrect == Spec => []IndexExact
<1>1. IInv => IndexExact
  BY DEF IInv, InKernel, InQueues, InOrder, Kernel, IndexExact
<1> QED BY Invariant, <1>1, PTL

(* The dispatcher is never sent to a task that cannot execute.             *)
THEOREM ScheduleCorrect == Spec => []SchedExecutable
<1>1. IInv => SchedExecutable
  BY DEF IInv, InKernel, SchedFrom, Exec, Kernel, SchedExecutable, Executable
<1> QED BY Invariant, <1>1, PTL

(* A task in execution never waits, is suspended or is queued for a lock;  *)
(* one that a handler has terminated goes on only while it holds off       *)
(* dispatch itself, outside of all pool calls.                             *)
THEOREM RunnerCorrect == Spec => []RunnerExecutable
<1>1. IInv => RunnerExecutable
  <2> SUFFICES ASSUME IInv, NEW t \in Tasks, Running(t)
               PROVE  \/ t \in Executable
                      \/ Ended(t) /\ pil = 1 /\ dispatch_disabled /\ obj[t] = NULL
    BY DEF RunnerExecutable
  <2> QED BY RunnerIsReady DEF GoesOn, Exec, Executable, Ended, Kernel
<1> QED BY Invariant, <1>1, PTL

(* ready_queue_top is asked for only when a call may have changed what it  *)
(* returns: without a kernel lock, schedtsk is always that task.           *)
THEOREM TopCorrect == Spec => []TopScheduled
<1>1. IInv => TopScheduled
  <2> SUFFICES ASSUME IInv, \A t \in Tasks : ~tcb[t].klocked
               PROVE  schedtsk = ready_queue_top(ready_queue)
    BY DEF TopScheduled
  <2>1. /\ InKernel(Kernel, obj) /\ Kernel.tcb = tcb
        /\ Kernel.rq = ready_queue /\ Kernel.sched = schedtsk
    BY DEF IInv, Kernel
  <2>2. /\ Leads(ready_queue, Exec(Kernel), Pris(Kernel), schedtsk)
        /\ InOrder(ready_queue, Exec(Kernel), Pris(Kernel))
        /\ Kernel \in KernelType /\ ready_queue.klocktsk = NULL
    BY <2>1 DEF InKernel, InQueues, Ranks, Unheld, Leads
  <2> QED BY <2>2, ExecInTasks, PrisType, TopLeads
<1> QED BY Invariant, <1>1, PTL

(* A task is suspended exactly while suspensions of it are counted.        *)
THEOREM SuspensionsCorrect == Spec => []SuspendCounted
<1>1. IInv => SuspendCounted
  BY DEF IInv, TaskFact, SuspendCounted
<1> QED BY Invariant, <1>1, PTL

(* No wakeup is kept from a sleeping task. *)
THEOREM WakeupsCorrect == Spec => []NoWakeupLost
<1>1. IInv => NoWakeupLost
  BY DEF IInv, TaskFact, NoWakeupLost, Waiting
<1> QED BY Invariant, <1>1, PTL

(* A kernel lock has one owner exactly when it is taken, and nobody waits  *)
(* for a free one.                                                         *)
THEOREM LocksCorrect == Spec => []LockOwned
<1>1. IInv => LockOwned
  <2> SUFFICES ASSUME IInv PROVE LockOwned
    OBVIOUS
  <2>1. LockFacts(Kernel, obj, locked) /\ Kernel.tcb = tcb /\ Kernel.wtskq = wtskq
    BY DEF IInv, Kernel
  <2>2. ASSUME NEW l \in Locks, wtskq[l] # <<>> PROVE locked[l]
    <3>1. Links(wtskq[l], WaitersIn(Kernel, obj, l))
      BY <2>1 DEF IInv, InKernel, InQueues
    <3>2. PICK t \in WaitersIn(Kernel, obj, l) : TRUE
      BY <2>2, <3>1, EmptyQueue
    <3> QED BY <2>1, <3>2 DEF WaitersIn, LockFacts
  <2>3. ASSUME NEW l \in Locks PROVE locked[l] <=> Owners(l) # {}
    BY <2>1 DEF LockFacts, Owners
  <2>4. ASSUME NEW l \in Locks, NEW t \in Owners(l), NEW u \in Owners(l) PROVE t = u
    BY <2>1 DEF LockFacts, Owners
  <2>5. \A t \in Tasks : tcb[t].klocked => obj[t] # NULL
    BY <2>1 DEF LockFacts
  <2> QED BY <2>2, <2>3, <2>4, <2>5 DEF LockOwned
<1> QED BY Invariant, <1>1, PTL

(* Only its owner gives a kernel lock away. *)
THEOREM UnlockCorrect == Spec => OnlyOwnerUnlocks
<1>1. IInv /\ [Next]_vars => [OwnerUnlocks]_vars
  BY NextIInv
<1>2. Spec => [][OwnerUnlocks]_vars
  BY <1>1, Invariant, PTL DEF Spec
<1> QED BY <1>2 DEF OnlyOwnerUnlocks, OwnerUnlocks

-----------------------------------------------------------------------------
(* The object locks of module TaskSched implement module ObjLock, for any  *)
(* tasks and locks.  Each step of the kernel makes a move on the locks     *)
(* (LockMoves above); here each move is shown to be a step of the abstract *)
(* lock, or none.                                                          *)

(* The abstract state as it is read off the task control blocks *)
owner == [l \in Locks |-> OwnerOf(l)]
waiters == [l \in Locks |-> ToSet(wtskq[l])]

ReadOff ==
    /\ \A l \in Locks : owner[l] \in Tasks \cup {NULL}
    /\ \A l \in Locks, t \in Tasks : owner[l] = t <=> Has(t, l)
    /\ \A l \in Locks : waiters[l] = {t \in Tasks : Awaits(t, l)}

LEMMA StateReadOff == IInv => ReadOff
<1> SUFFICES ASSUME IInv PROVE ReadOff
  OBVIOUS
<1>1. LockFacts(Kernel, obj, locked) /\ Kernel.tcb = tcb /\ Kernel.wtskq = wtskq
  BY DEF IInv, Kernel
<1>2. ASSUME NEW l \in Locks
      PROVE  /\ OwnerOf(l) \in Tasks \cup {NULL}
             /\ \A t \in Tasks : OwnerOf(l) = t <=> Has(t, l)
  <2>1. Owners(l) = {t \in Tasks : Has(t, l)}
    BY DEF Owners, Has
  <2>2. \A t, u \in Owners(l) : t = u
    BY <1>1, <2>1 DEF LockFacts, Has
  <2>3. CASE Owners(l) = {}
    BY <2>1, <2>3, ReadyQueueAssumption DEF OwnerOf
  <2>4. CASE Owners(l) # {}
    <3>1. OwnerOf(l) \in Owners(l)
      BY <2>4 DEF OwnerOf
    <3> QED BY <3>1, <2>1, <2>2
  <2> QED BY <2>3, <2>4
<1>3. ASSUME NEW l \in Locks PROVE ToSet(wtskq[l]) = {t \in Tasks : Awaits(t, l)}
  <2>1. Links(wtskq[l], WaitersIn(Kernel, obj, l))
    BY <1>1 DEF IInv, InKernel, InQueues
  <2> QED BY <2>1, <1>1 DEF Links, WaitersIn, Awaits
<1> QED BY <1>2, <1>3 DEF ReadOff, owner, waiters

(* Who has no lock and waits for none is idle. *)
LEMMA IdleTask ==
    ASSUME ReadOff, NEW t \in Tasks, ~tcb[t].klocked, ~tcb[t].klockwait
    PROVE  \A l \in Locks : owner[l] # t /\ t \notin waiters[l]
  BY DEF ReadOff, Has, Awaits

(* Functions on Locks that agree are equal. *)
LEMMA SameOwners ==
    ASSUME NEW f, \A l \in Locks : owner'[l] = f[l], f = [l \in Locks |-> f[l]]
    PROVE  owner' = f
  BY DEF owner

LEMMA SameWaiters ==
    ASSUME NEW f, \A l \in Locks : waiters'[l] = f[l], f = [l \in Locks |-> f[l]]
    PROVE  waiters' = f
  BY DEF waiters

LEMMA OwnersKept ==
    ASSUME ReadOff, ReadOff', \A u \in Tasks, m \in Locks : Has(u, m)' <=> Has(u, m)
    PROVE  owner' = owner
<1>1. ASSUME NEW m \in Locks PROVE owner'[m] = owner[m]
  BY ReadyQueueAssumption DEF ReadOff
<1> QED BY <1>1, SameOwners DEF owner

LEMMA WaitersKept ==
    ASSUME ReadOff, ReadOff', \A u \in Tasks, m \in Locks : Awaits(u, m)' <=> Awaits(u, m)
    PROVE  waiters' = waiters
<1>1. ASSUME NEW m \in Locks PROVE waiters'[m] = waiters[m]
  BY DEF ReadOff
<1> QED BY <1>1, SameWaiters DEF waiters

(* Only the owner of l changes, to h. *)
LEMMA OwnerSet ==
    ASSUME ReadOff, ReadOff', NEW l \in Locks, NEW h \in Tasks \cup {NULL},
           \A u \in Tasks, m \in Locks :
              Has(u, m)' <=> IF m = l THEN u = h ELSE Has(u, m)
    PROVE  owner' = [owner EXCEPT ![l] = h]
<1>1. ASSUME NEW m \in Locks PROVE owner'[m] = [owner EXCEPT ![l] = h][m]
  <2>1. CASE m = l
    BY <2>1, ReadyQueueAssumption DEF ReadOff, owner
  <2>2. CASE m # l
    <3>1. owner'[m] = owner[m]
      BY <2>2, ReadyQueueAssumption DEF ReadOff
    <3> QED BY <3>1, <2>2 DEF owner
  <2> QED BY <2>1, <2>2
<1> QED BY <1>1, SameOwners DEF owner

(* t, who waits for l, and nobody else, leaves the queues. *)
LEMMA WaiterGone ==
    ASSUME ReadOff, ReadOff', NEW t \in Tasks, NEW l \in Locks, Awaits(t, l),
           \A u \in Tasks, m \in Locks : Awaits(u, m)' <=> Awaits(u, m) /\ u # t
    PROVE  waiters' = [waiters EXCEPT ![l] = @ \ {t}]
<1>1. ASSUME NEW m \in Locks PROVE waiters'[m] = [waiters EXCEPT ![l] = @ \ {t}][m]
  <2>1. CASE m = l
    BY <2>1 DEF ReadOff, waiters
  <2>2. CASE m # l
    <3>1. ~Awaits(t, m)
      BY <2>2 DEF Awaits
    <3>2. \A u \in Tasks : Awaits(u, m)' <=> Awaits(u, m)
      BY <3>1
    <3>3. waiters'[m] = waiters[m]
      BY <3>2 DEF ReadOff
    <3> QED BY <3>3, <2>2 DEF waiters
  <2> QED BY <2>1, <2>2
<1> QED BY <1>1, SameWaiters DEF waiters

-----------------------------------------------------------------------------
(* Each move is a step of the abstract lock, or leaves it as it was. *)
LEMMA WithdrawImplements ==
    ASSUME ReadOff, ReadOff', NEW t \in Tasks, WithdrawMove(t)
    PROVE  UNCHANGED <<owner, waiters>> \/ \E l \in Locks : ObjectLock!Withdraw(t, l)
<1>1. owner' = owner
  BY OwnersKept DEF WithdrawMove
<1>2. CASE \A m \in Locks : Awaits(t, m) => Awaits(t, m)'
  <2>1. waiters' = waiters
    BY <1>2, WaitersKept DEF WithdrawMove
  <2> QED BY <1>1, <2>1
<1>3. ASSUME NEW l \in Locks, Awaits(t, l), ~Awaits(t, l)'
      PROVE  ObjectLock!Withdraw(t, l)
  <2>1. \A u \in Tasks, m \in Locks : Awaits(u, m)' <=> Awaits(u, m) /\ u # t
    BY <1>3 DEF WithdrawMove, Awaits
  <2>2. waiters' = [waiters EXCEPT ![l] = @ \ {t}]
    BY <1>3, <2>1, WaiterGone
  <2>3. t \in waiters[l]
    BY <1>3 DEF ReadOff
  <2> QED BY <1>1, <2>2, <2>3 DEF ObjectLock!Withdraw, owner, waiters
<1> QED BY <1>2, <1>3

LEMMA TakeImplements ==
    ASSUME ReadOff, ReadOff', NEW t \in Tasks, NEW l \in Locks, TakeMove(t, l)
    PROVE  ObjectLock!Take(t, l)
<1>1. owner[l] = NULL
  BY DEF TakeMove, ReadOff
<1>2. \A m \in Locks : owner[m] # t /\ t \notin waiters[m]
  BY IdleTask DEF TakeMove
<1>3. owner' = [owner EXCEPT ![l] = t]
  <2>1. \A u \in Tasks, m \in Locks : Has(u, m)' <=> IF m = l THEN u = t ELSE Has(u, m)
    BY DEF TakeMove
  <2> QED BY <2>1, OwnerSet
<1>4. waiters' = waiters
  BY WaitersKept DEF TakeMove
<1> QED BY <1>1, <1>2, <1>3, <1>4 DEF ObjectLock!Take, ObjectLock!Idle, owner, waiters

LEMMA QueueImplements ==
    ASSUME ReadOff, ReadOff', NEW t \in Tasks, NEW l \in Locks, QueueMove(t, l)
    PROVE  ObjectLock!Queue(t, l)
<1>1. owner[l] # NULL
  BY ReadyQueueAssumption DEF QueueMove, ReadOff
<1>2. \A m \in Locks : owner[m] # t /\ t \notin waiters[m]
  BY IdleTask DEF QueueMove
<1>3. owner' = owner
  BY OwnersKept DEF QueueMove
<1>4. waiters' = [waiters EXCEPT ![l] = @ \cup {t}]
  <2>1. ASSUME NEW m \in Locks PROVE waiters'[m] = [waiters EXCEPT ![l] = @ \cup {t}][m]
    <3>1. \A u \in Tasks : Awaits(u, m)' <=> Awaits(u, m) \/ (u = t /\ m = l)
      BY DEF QueueMove
    <3>2. waiters'[m] = {u \in Tasks : Awaits(u, m) \/ (u = t /\ m = l)}
      BY <3>1 DEF ReadOff
    <3>3. waiters[m] = {u \in Tasks : Awaits(u, m)}
      BY DEF ReadOff
    <3> QED BY <3>2, <3>3 DEF waiters
  <2> QED BY <2>1, SameWaiters DEF waiters
<1> QED BY <1>1, <1>2, <1>3, <1>4 DEF ObjectLock!Queue, ObjectLock!Idle, owner, waiters

LEMMA PassImplements ==
    ASSUME ReadOff, ReadOff', NEW t \in Tasks, NEW l \in Locks,
           NEW h \in Tasks \cup {NULL}, PassMove(t, l, h)
    PROVE  ObjectLock!Free(l) \/ \E u \in Tasks : ObjectLock!HandOver(u, l)
<1>1. owner[l] # NULL
  BY ReadyQueueAssumption DEF PassMove, ReadOff
<1>2. owner' = [owner EXCEPT ![l] = h]
  BY OwnerSet DEF PassMove
<1>3. CASE h = NULL
  <2>1. waiters[l] = {}
    BY <1>3 DEF PassMove, ReadOff
  <2>2. \A u \in Tasks, m \in Locks : Awaits(u, m)' <=> Awaits(u, m)
    BY <1>3, ReadyQueueAssumption DEF PassMove
  <2>3. waiters' = waiters
    BY <2>2, WaitersKept
  <2> QED BY <1>1, <1>2, <1>3, <2>1, <2>3 DEF ObjectLock!Free, owner, waiters
<1>4. CASE h \in Tasks
  <2>1. Awaits(h, l)
    BY <1>4, ReadyQueueAssumption DEF PassMove
  <2>2. \A u \in Tasks, m \in Locks : Awaits(u, m)' <=> Awaits(u, m) /\ u # h
    BY DEF PassMove
  <2>3. waiters' = [waiters EXCEPT ![l] = @ \ {h}]
    BY <1>4, <2>1, <2>2, WaiterGone
  <2>4. h \in waiters[l]
    BY <1>4, <2>1 DEF ReadOff
  <2>5. ObjectLock!HandOver(h, l)
    BY <1>1, <1>2, <2>3, <2>4 DEF ObjectLock!HandOver, owner, waiters
  <2> QED BY <1>4, <2>5
<1> QED BY <1>3, <1>4

(* A step of the kernel is a step of the abstract lock, or none. *)
LEMMA StepImplements ==
    ASSUME IInv, IInv', LockMoves
    PROVE  [ObjectLock!Next]_<<owner, waiters>>
<1>1. ReadOff /\ ReadOff'
  <2>1. ReadOff
    BY StateReadOff
  <2>2. ReadOff'
    BY StateReadOff, PTL
  <2> QED BY <2>1, <2>2
<1>2. PICK t \in Tasks :
        \/ WithdrawMove(t)
        \/ \E l \in Locks : \/ TakeMove(t, l) \/ QueueMove(t, l)
                            \/ \E h \in Tasks \cup {NULL} : PassMove(t, l, h)
  BY DEF LockMoves
<1>3. CASE WithdrawMove(t)
  BY <1>1, <1>3, WithdrawImplements DEF ObjectLock!Next
<1>4. ASSUME NEW l \in Locks, TakeMove(t, l) PROVE ObjectLock!Next
  BY <1>1, <1>4, TakeImplements DEF ObjectLock!Next
<1>5. ASSUME NEW l \in Locks, QueueMove(t, l) PROVE ObjectLock!Next
  BY <1>1, <1>5, QueueImplements DEF ObjectLock!Next
<1>6. ASSUME NEW l \in Locks, NEW h \in Tasks \cup {NULL}, PassMove(t, l, h)
      PROVE  ObjectLock!Next
  BY <1>1, <1>6, PassImplements DEF ObjectLock!Next
<1> QED BY <1>2, <1>3, <1>4, <1>5, <1>6

(* At the start nobody has a lock, and nobody waits. *)
LEMMA InitImplements == Init => ObjectLock!Init
<1> SUFFICES ASSUME Init PROVE ObjectLock!Init
  OBVIOUS
<1>1. ASSUME NEW l \in Locks PROVE OwnerOf(l) = NULL /\ ToSet(wtskq[l]) = {}
  <2>1. Owners(l) = {}
    <3>1. \A t \in Tasks : obj[t] = NULL
      BY DEF Init
    <3> QED BY <3>1, TaskSchedAssumption DEF Owners
  <2>2. wtskq[l] = <<>>
    BY DEF Init
  <2>3. ToSet(wtskq[l]) = {}
    BY <2>2 DEF ToSet
  <2> QED BY <2>1, <2>3 DEF OwnerOf
<1> QED BY <1>1 DEF ObjectLock!Init

(* LockOBJ and UnlockOBJ, with every call that may take a waiting task out *)
(* of the queue of a lock (a suspension, a termination, a change of its    *)
(* priority), implement the abstract lock for any number of tasks and      *)
(* locks: nobody takes a lock past its waiters, one that is given up has   *)
(* its next owner at once, and none is free while a task waits for it.     *)
THEOREM ObjectLockImplemented == Spec => ImplementsObjectLock
<1>1. IInv /\ IInv' /\ [Next]_vars => [ObjectLock!Next]_(ObjectLock!vars)
  BY NextIInv, StepImplements DEF ObjectLock!vars, owner, waiters
<1> QED BY <1>1, Invariant, InitImplements, PTL DEF Spec, ImplementsObjectLock, ObjectLock!Spec
=============================================================================
