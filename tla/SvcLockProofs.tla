---------------------------- MODULE SvcLockProofs ----------------------------
(***************************************************************************)
(* The extended SVC locks of module SvcLock for any tasks and any depth of *)
(* calls, while no task asks for a lock that it has and none is terminated *)
(* with one: what klock.c takes for granted, see the runs svclock_reenter  *)
(* and svclock_terminate.                                                  *)
(***************************************************************************)
EXTENDS SvcLock, QueueLemmas

Places == {"lock", "locked", "run", "relock", "unlock"}

Call == [op     : {"svc", "ras"},
         lock   : Tasks,
         at     : Places,
         broken : BOOLEAN]

TypeOK ==
    /\ alive \in [Tasks -> BOOLEAN]
    /\ calls \in [Tasks -> Seq(Call)]
    /\ svclocked \in [Tasks -> Seq(Tasks)]
    /\ taken \in [Tasks -> BOOLEAN]
    /\ wtskq \in [Tasks -> Seq(Tasks)]
    /\ klockwait \in [Tasks -> BOOLEAN]

Asks(r) == r.at \in {"lock", "relock"}

(* The calls c of task t: an outer call is in its handler or break         *)
(* function, and the lock of an outer break function is not asked for      *)
(* again.                                                                  *)
Frames(t, c) ==
    \A i \in DOMAIN c :
        /\ c[i].op = "svc" => c[i].lock = t
        /\ c[i].op = "ras" => c[i].at # "relock"
        /\ i < Len(c) => c[i].at = "run"
        /\ \A j \in DOMAIN c : j < i /\ c[j].op = "ras" => c[j].lock # c[i].lock

-----------------------------------------------------------------------------
(* What each step of a call does to the calls of a task and to its list    *)

LEMMA NestedEmpty == Nested(<<>>, <<>>)
<1> DEFINE place == [i \in DOMAIN <<>> |-> 1]
<1>1. DOMAIN <<>> = {} /\ Holding(<<>>, <<>>) = {}
  BY DEF Holding
<1>2. place \in [DOMAIN <<>> -> Holding(<<>>, <<>>)]
  BY <1>1
<1> QED BY <1>1, <1>2 DEF Nested

(* The innermost call is not in a section, and the lock it names is not    *)
(* its own yet: then the task does not have it.                            *)
LEMMA NotHeld ==
    ASSUME NEW t \in Tasks, NEW s \in Seq(Tasks), NEW c \in Seq(Call), c # <<>>,
           Nested(s, c), Frames(t, c), Len(c) \notin Holding(s, c)
    PROVE  c[Len(c)].lock \notin ToSet(s)
<1> SUFFICES ASSUME NEW i \in DOMAIN s, s[i] = c[Len(c)].lock PROVE FALSE
  BY DEF ToSet
<1>1. PICK place \in [DOMAIN s -> Holding(s, c)] :
        \A k \in DOMAIN s : s[k] = c[place[k]].lock
  BY DEF Nested
<1>2. place[i] \in Holding(s, c) /\ place[i] \in DOMAIN c /\ s[i] = c[place[i]].lock
  BY <1>1 DEF Holding
<1>3. place[i] < Len(c) /\ Len(c) \in DOMAIN c
  BY <1>2, PlacesOf
<1>4. c[place[i]].op = "ras"
  BY <1>2, <1>3 DEF Frames, Holding, InSection, Call
<1> QED BY <1>2, <1>3, <1>4 DEF Frames

(* A call begins. *)
LEMMA NestedBegin ==
    ASSUME NEW s \in Seq(Tasks), NEW c \in Seq(Call), Nested(s, c),
           c # <<>> => ~Asks(c[Len(c)]),
           NEW r \in Call, r.at = "lock", r.lock \notin ToSet(s)
    PROVE  Nested(s, Append(c, r))
<1> DEFINE d == Append(c, r)
<1>1. /\ DOMAIN c = 1 .. Len(c) /\ Len(c) \in Nat /\ DOMAIN d = 1 .. Len(d)
      /\ Len(d) = Len(c) + 1 /\ d[Len(d)] = r /\ \A i \in 1 .. Len(c) : d[i] = c[i]
      /\ c = <<>> <=> Len(c) = 0
  BY AppendProperties, PlacesOf
<1> HIDE DEF d
<1>2. s # <<>> => Head(s) # r.lock
  BY PlacesOf
<1>3. Holding(s, d) = Holding(s, c)
  BY <1>1, <1>2 DEF Holding, InSection, Asks
<1>4. \A h \in Holding(s, c) : d[h] = c[h]
  BY <1>1 DEF Holding
<1>5. PICK place \in [DOMAIN s -> Holding(s, c)] :
        /\ \A i, j \in DOMAIN s : i < j => place[i] > place[j]
        /\ \A h \in Holding(s, c) : \E i \in DOMAIN s : place[i] = h
        /\ \A i \in DOMAIN s : s[i] = c[place[i]].lock
  BY DEF Nested
<1>6. \A i \in DOMAIN s : s[i] = d[place[i]].lock
  <2>1. \A i \in DOMAIN s : place[i] \in Holding(s, c)
    BY <1>5
  <2> QED BY <1>4, <1>5, <2>1
<1>7. place \in [DOMAIN s -> Holding(s, d)]
  BY <1>3, <1>5
<1>8. Nested(s, d)
  BY <1>3, <1>5, <1>6, <1>7 DEF Nested
<1> QED BY <1>8 DEF d

(* The lock that the innermost call asks for becomes the task's. *)
LEMMA NestedGiven ==
    ASSUME NEW s \in Seq(Tasks), NEW c \in Seq(Call), c # <<>>, Nested(s, c),
           Asks(c[Len(c)]), c[Len(c)].lock \notin ToSet(s)
    PROVE  Nested(<<c[Len(c)].lock>> \o s, c)
<1> DEFINE l == c[Len(c)].lock
           r == <<l>> \o s
<1>1. /\ DOMAIN c = 1 .. Len(c) /\ Len(c) \in Nat \ {0} /\ l \in Tasks
      /\ DOMAIN s = 1 .. Len(s) /\ Len(s) \in Nat
  <2>1. DOMAIN c = 1 .. Len(c) /\ Len(c) \in Nat \ {0}
    BY PlacesOf
  <2>2. c[Len(c)] \in Call
    BY <2>1, PlacesOf
  <2>3. DOMAIN s = 1 .. Len(s) /\ Len(s) \in Nat
    BY PlacesOf
  <2> QED BY <2>1, <2>2, <2>3 DEF Call
<1>2. /\ r \in Seq(Tasks) /\ Len(r) = Len(s) + 1 /\ r[1] = l
      /\ \A i \in 2 .. Len(r) : r[i] = s[i - 1]
  BY <1>1, ConcatProperties
<1>3. DOMAIN r = 1 .. Len(s) + 1 /\ r # <<>> /\ Head(r) = l
  BY <1>1, <1>2, PlacesOf
<1>4. s # <<>> => Head(s) # l
  BY PlacesOf
<1> HIDE DEF r, l
<1>5. PICK place \in [DOMAIN s -> Holding(s, c)] :
        /\ \A i, j \in DOMAIN s : i < j => place[i] > place[j]
        /\ \A h \in Holding(s, c) : \E i \in DOMAIN s : place[i] = h
        /\ \A i \in DOMAIN s : s[i] = c[place[i]].lock
  BY DEF Nested
<1>6. Holding(r, c) = Holding(s, c) \cup {Len(c)}
  BY <1>1, <1>3 DEF Holding, Asks, l
<1>7. Len(c) \notin Holding(s, c)
  BY <1>1, <1>4 DEF Holding, Asks, l, InSection
<1>8. \A h \in Holding(s, c) : h \in 1 .. Len(c)
  BY <1>1 DEF Holding
<1> DEFINE new == [i \in 1 .. Len(s) + 1 |-> IF i = 1 THEN Len(c) ELSE place[i - 1]]
<1>9. ASSUME NEW i \in 2 .. Len(s) + 1
      PROVE  i - 1 \in DOMAIN s /\ new[i] = place[i - 1] /\ new[i] \in Holding(s, c)
  BY <1>1, <1>5
<1>10. new \in [DOMAIN r -> Holding(r, c)] /\ new[1] = Len(c)
  BY <1>1, <1>3, <1>6, <1>9
<1> HIDE DEF new
<1>11. ASSUME NEW i \in DOMAIN r, NEW j \in DOMAIN r, i < j PROVE new[i] > new[j]
  <2>1. j \in 2 .. Len(s) + 1
    BY <1>1, <1>3, <1>11
  <2>2. CASE i = 1
    <3>1. new[j] \in 1 .. Len(c) /\ new[j] # Len(c)
      BY <1>7, <1>8, <1>9, <2>1
    <3> QED BY <1>1, <1>10, <2>2, <3>1
  <2>3. CASE i # 1
    <3>1. i \in 2 .. Len(s) + 1 /\ i - 1 < j - 1
      BY <1>1, <1>3, <1>11, <2>3
    <3> QED BY <1>5, <1>9, <2>1, <3>1
  <2> QED BY <2>2, <2>3
<1>12. ASSUME NEW h \in Holding(r, c) PROVE \E i \in DOMAIN r : new[i] = h
  <2>1. CASE h = Len(c)
    BY <1>1, <1>3, <1>10, <2>1
  <2>2. CASE h # Len(c)
    <3>1. PICK i \in DOMAIN s : place[i] = h
      BY <1>5, <1>6, <2>2
    <3>2. i + 1 \in 2 .. Len(s) + 1 /\ (i + 1) - 1 = i /\ i + 1 \in DOMAIN r
      BY <1>1, <1>3
    <3> QED BY <1>9, <3>1, <3>2
  <2> QED BY <2>1, <2>2
<1>13. ASSUME NEW i \in DOMAIN r PROVE r[i] = c[new[i]].lock
  <2>1. CASE i = 1
    BY <1>2, <1>10, <2>1 DEF l
  <2>2. CASE i # 1
    <3>1. i \in 2 .. Len(s) + 1
      BY <1>1, <1>3, <2>2
    <3> QED BY <1>1, <1>2, <1>5, <1>9, <3>1
  <2> QED BY <2>1, <2>2
<1> QED BY <1>10, <1>11, <1>12, <1>13 DEF Nested, r, l

(* The innermost call goes on to another step, and holds a lock after it   *)
(* if and only if it did before.                                           *)
LEMMA NestedGoOn ==
    ASSUME NEW s \in Seq(Tasks), NEW c \in Seq(Call), Nested(s, c),
           NEW d \in Seq(Call), Len(d) = Len(c),
           \A i \in 1 .. Len(c) : d[i].lock = c[i].lock,
           \A i \in 1 .. Len(c) : i # Len(c) => (InSection(d[i]) <=> InSection(c[i])),
           Len(c) \in Holding(s, d) <=> Len(c) \in Holding(s, c)
    PROVE  Nested(s, d)
<1>1. DOMAIN c = 1 .. Len(c) /\ DOMAIN d = 1 .. Len(c)
  BY PlacesOf
<1>2. Holding(s, d) = Holding(s, c)
  BY <1>1 DEF Holding
<1>3. \A h \in Holding(s, c) : d[h].lock = c[h].lock
  BY <1>1 DEF Holding
<1>4. PICK place \in [DOMAIN s -> Holding(s, c)] :
         /\ \A i, j \in DOMAIN s : i < j => place[i] > place[j]
         /\ \A h \in Holding(s, c) : \E i \in DOMAIN s : place[i] = h
         /\ \A i \in DOMAIN s : s[i] = c[place[i]].lock
  BY DEF Nested
<1>5. \A i \in DOMAIN s : s[i] = d[place[i]].lock
  BY <1>3, <1>4
<1>6. place \in [DOMAIN s -> Holding(s, d)]
      /\ \A h \in Holding(s, d) : \E i \in DOMAIN s : place[i] = h
  BY <1>2, <1>4
<1>7. \A i, j \in DOMAIN s : i < j => place[i] > place[j]
  BY <1>4
<1> QED BY <1>5, <1>6, <1>7, Zenon DEF Nested

(* The innermost call is in its section: its lock is the first of the      *)
(* list, and without the lock the list is that of the other calls.         *)
LEMMA NestedEnds ==
    ASSUME NEW s \in Seq(Tasks), NEW c \in Seq(Call), c # <<>>, Nested(s, c),
           InSection(c[Len(c)])
    PROVE  /\ s # <<>> /\ Head(s) = c[Len(c)].lock
           /\ \A d \in Seq(Call) :
                /\ Len(d) = Len(c) \/ Len(d) = Len(c) - 1
                /\ \A i \in 1 .. Len(c) - 1 : d[i].lock = c[i].lock
                /\ \A i \in 1 .. Len(c) - 1 : InSection(d[i]) <=> InSection(c[i])
                /\ Len(d) # 0 => ~Asks(d[Len(d)])
                /\ Len(d) = Len(c) => ~InSection(d[Len(d)])
                => Nested(Tail(s), d)
<1>1. /\ DOMAIN c = 1 .. Len(c) /\ Len(c) \in Nat \ {0}
      /\ DOMAIN s = 1 .. Len(s) /\ Len(s) \in Nat
  BY PlacesOf
<1>2. PICK place \in [DOMAIN s -> Holding(s, c)] :
        /\ \A i, j \in DOMAIN s : i < j => place[i] > place[j]
        /\ \A h \in Holding(s, c) : \E i \in DOMAIN s : place[i] = h
        /\ \A i \in DOMAIN s : s[i] = c[place[i]].lock
  BY DEF Nested
<1>3. Len(c) \in Holding(s, c) /\ \A h \in Holding(s, c) : h \in 1 .. Len(c)
  BY <1>1 DEF Holding
<1>4. PICK k \in DOMAIN s : place[k] = Len(c)
  BY <1>2, <1>3
<1>5. 1 \in DOMAIN s /\ place[1] = Len(c)
  <2>1. k = 1 \/ (1 \in DOMAIN s /\ 1 < k)
    BY <1>1, <1>4
  <2>2. ASSUME 1 \in DOMAIN s, 1 < k PROVE FALSE
    <3>1. place[1] > Len(c) /\ place[1] \in 1 .. Len(c)
      BY <1>2, <1>3, <1>4, <2>2
    <3> QED BY <1>1, <3>1
  <2> QED BY <1>4, <2>1, <2>2
<1>6. s # <<>> /\ Head(s) = c[Len(c)].lock
  BY <1>1, <1>2, <1>5, PlacesOf
<1>7. /\ Tail(s) \in Seq(Tasks) /\ Len(Tail(s)) = Len(s) - 1
      /\ \A i \in 1 .. Len(s) - 1 : Tail(s)[i] = s[i + 1]
  BY <1>6, HeadTailProperties
<1>8. ASSUME NEW d \in Seq(Call), Len(d) = Len(c) \/ Len(d) = Len(c) - 1,
             \A i \in 1 .. Len(c) - 1 : d[i].lock = c[i].lock,
             \A i \in 1 .. Len(c) - 1 : InSection(d[i]) <=> InSection(c[i]),
             Len(d) # 0 => ~Asks(d[Len(d)]),
             Len(d) = Len(c) => ~InSection(d[Len(d)])
      PROVE  Nested(Tail(s), d)
  <2> DEFINE r == Tail(s)
             new == [i \in 1 .. Len(s) - 1 |-> place[i + 1]]
  <2>1. DOMAIN d = 1 .. Len(d) /\ DOMAIN r = 1 .. Len(s) - 1
    BY <1>7, PlacesOf
  <2>2. Holding(r, d) = Holding(s, c) \ {Len(c)}
    <3>1. ASSUME NEW h \in Holding(r, d) PROVE h \in Holding(s, c) \ {Len(c)}
      <4>1. h \in 1 .. Len(d) /\ InSection(d[h])
        BY <1>8, <2>1, <3>1 DEF Holding, Asks
      <4>2. h \in 1 .. Len(c) - 1
        <5>1. CASE Len(d) = Len(c)
          BY <1>1, <1>8, <4>1, <5>1
        <5>2. CASE Len(d) = Len(c) - 1
          BY <1>1, <4>1, <5>2
        <5> QED BY <1>8, <5>1, <5>2
      <4>3. h \in DOMAIN c /\ h # Len(c)
        <5>1. \A n \in Nat \ {0} : \A i \in 1 .. n - 1 : i \in 1 .. n /\ i # n
          OBVIOUS
        <5>2. h \in 1 .. Len(c) /\ h # Len(c)
          BY <1>1, <4>2, <5>1, Zenon
        <5> QED BY <1>1, <5>2, Zenon
      <4>4. InSection(c[h])
        BY <1>8, <4>1, <4>2, Zenon
      <4> QED BY <4>3, <4>4 DEF Holding
    <3>2. ASSUME NEW h \in Holding(s, c) \ {Len(c)} PROVE h \in Holding(r, d)
      <4>1. h \in 1 .. Len(c) - 1
        BY <1>1, <1>3
      <4>2. h \in 1 .. Len(d) /\ InSection(c[h])
        BY <1>1, <1>8, <4>1 DEF Holding
      <4> QED BY <1>8, <2>1, <4>1, <4>2 DEF Holding
    <3> QED BY <3>1, <3>2
  <2> HIDE DEF r
  <2>3. ASSUME NEW i \in 1 .. Len(s) - 1
        PROVE  /\ i + 1 \in DOMAIN s /\ new[i] = place[i + 1]
               /\ new[i] \in Holding(r, d) /\ new[i] \in 1 .. Len(c) - 1
    <3>1. i + 1 \in DOMAIN s /\ 1 < i + 1
      BY <1>1
    <3>2. place[i + 1] # Len(c) /\ place[i + 1] \in Holding(s, c)
      <4>1. place[i + 1] < place[1] /\ place[i + 1] \in Holding(s, c)
        BY <1>2, <1>5, <3>1
      <4> QED BY <1>1, <1>3, <1>5, <4>1
    <3> QED BY <1>1, <1>3, <2>2, <3>1, <3>2
  <2>4. new \in [DOMAIN r -> Holding(r, d)]
    BY <2>1, <2>3
  <2> HIDE DEF new
  <2>5. ASSUME NEW i \in DOMAIN r, NEW j \in DOMAIN r, i < j PROVE new[i] > new[j]
    <3>1. i + 1 \in DOMAIN s /\ j + 1 \in DOMAIN s /\ i + 1 < j + 1
      BY <1>1, <2>1, <2>5
    <3>2. place[i + 1] > place[j + 1]
      BY <1>2, <3>1
    <3>3. new[i] = place[i + 1] /\ new[j] = place[j + 1]
      BY <2>1, <2>3, <2>5
    <3> QED BY <3>2, <3>3
  <2>6. ASSUME NEW h \in Holding(r, d) PROVE \E i \in DOMAIN r : new[i] = h
    <3>1. PICK i \in DOMAIN s : place[i] = h
      BY <1>2, <2>2
    <3>2. i # 1
      BY <1>5, <2>2, <3>1
    <3>3. i - 1 \in 1 .. Len(s) - 1 /\ (i - 1) + 1 = i
      BY <1>1, <3>2
    <3> QED BY <2>1, <2>3, <3>1, <3>3
  <2>7. ASSUME NEW i \in DOMAIN r PROVE r[i] = d[new[i]].lock
    <3>1. r[i] = s[i + 1] /\ s[i + 1] = c[place[i + 1]].lock
      BY <1>2, <1>7, <2>1, <2>3 DEF r
    <3>2. new[i] = place[i + 1] /\ new[i] \in 1 .. Len(c) - 1
      BY <2>1, <2>3
    <3> QED BY <1>8, <3>1, <3>2
  <2> QED BY <2>4, <2>5, <2>6, <2>7 DEF Nested, r
<1> QED BY <1>6, <1>8

-----------------------------------------------------------------------------
(* What is true of the locks alone: list, taken, queue and wait are the    *)
(* variables svclocked, taken, wtskq and klockwait, and w[t] is the lock   *)
(* that t waits for, if it waits.                                          *)
LocksOK(list, tkn, queue, wait, w) ==
    /\ list \in [Tasks -> Seq(Tasks)]
    /\ tkn \in [Tasks -> BOOLEAN]
    /\ queue \in [Tasks -> Seq(Tasks)]
    /\ wait \in [Tasks -> BOOLEAN]
    /\ \A l \in Tasks : tkn[l] <=> \E t \in Tasks : l \in ToSet(list[t])
    /\ \A l, t, u \in Tasks : l \in ToSet(list[t]) /\ l \in ToSet(list[u]) => t = u
    /\ \A t \in Tasks : IsInjective(list[t])
    /\ \A t \in Tasks : wait[t] => w[t] \in Tasks /\ tkn[w[t]]
    /\ \A l \in Tasks : Linked(Tasks, queue[l], {t \in Tasks : wait[t] /\ w[t] = l})

(* The tasks that are given a lock of the set mine. *)
Heirs(queue, wait, w, mine) ==
    {u \in Tasks : wait[u] /\ w[u] \in mine /\ Head(queue[w[u]]) = u}

LEMMA InList ==
    ASSUME NEW s \in Seq(Tasks), NEW l \in ToSet(s)
    PROVE  l \in Tasks
  BY PlacesOf

(* The task c gives up its locks in the set mine: what was list, tkn,      *)
(* queue and wait becomes list2, tkn2, queue2 and wait2.                   *)
HandsOver(list, tkn, queue, wait, w, c, mine, H, list2, tkn2, queue2, wait2) ==
    /\ ~wait[c] /\ mine \subseteq ToSet(list[c])
    /\ H = Heirs(queue, wait, w, mine)
    /\ list2 \in [Tasks -> Seq(Tasks)] /\ tkn2 \in [Tasks -> BOOLEAN]
    /\ queue2 \in [Tasks -> Seq(Tasks)] /\ wait2 \in [Tasks -> BOOLEAN]
    /\ Linked(Tasks, list2[c], ToSet(list[c]) \ mine)
    /\ \A u \in Tasks :
         u # c => list2[u] = IF u \in H THEN <<w[u]>> \o list[u] ELSE list[u]
    /\ \A l \in Tasks : tkn2[l] <=> tkn[l] /\ (l \in mine => queue[l] # <<>>)
    /\ \A l \in Tasks : queue2[l] = IF l \in mine /\ queue[l] # <<>>
                                      THEN Tail(queue[l]) ELSE queue[l]
    /\ \A u \in Tasks : wait2[u] <=> wait[u] /\ u \notin H

LEMMA HandOver ==
    ASSUME NEW list, NEW tkn, NEW queue, NEW wait, NEW w,
           LocksOK(list, tkn, queue, wait, w),
           NEW c \in Tasks, NEW mine, NEW H,
           NEW list2, NEW tkn2, NEW queue2, NEW wait2,
           HandsOver(list, tkn, queue, wait, w, c, mine, H, list2, tkn2, queue2, wait2)
    PROVE  LocksOK(list2, tkn2, queue2, wait2, w)
<1> USE DEF HandsOver
<1>1. mine \subseteq Tasks
  BY InList DEF LocksOK
<1>2. ASSUME NEW l \in Tasks, queue[l] # <<>>
      PROVE  Head(queue[l]) \in Tasks /\ wait[Head(queue[l])] /\ w[Head(queue[l])] = l
  <2>1. Linked(Tasks, queue[l], {t \in Tasks : wait[t] /\ w[t] = l})
    BY DEF LocksOK
  <2>2. Head(queue[l]) \in {t \in Tasks : wait[t] /\ w[t] = l}
    BY <1>2, <2>1, HeadLinked
  <2> QED BY <2>2
<1>3. ASSUME NEW u \in H
      PROVE  /\ u \in Tasks /\ u # c /\ wait[u] /\ w[u] \in mine /\ w[u] \in Tasks
             /\ w[u] \notin ToSet(list[u]) /\ queue[w[u]] # <<>>
             /\ Head(queue[w[u]]) = u
  <2>1. u \in Tasks /\ u # c /\ wait[u] /\ w[u] \in mine /\ w[u] \in Tasks
        /\ Head(queue[w[u]]) = u
    BY <1>1 DEF Heirs
  <2>2. w[u] \notin ToSet(list[u])
    BY <2>1 DEF LocksOK
  <2>3. queue[w[u]] # <<>>
    <3>1. Linked(Tasks, queue[w[u]], {t \in Tasks : wait[t] /\ w[t] = w[u]})
      BY <2>1 DEF LocksOK
    <3>2. u \in {t \in Tasks : wait[t] /\ w[t] = w[u]}
      BY <2>1
    <3> QED BY <3>1, <3>2, EmptyLinked
  <2> QED BY <2>1, <2>2, <2>3
<1>4. ASSUME NEW l \in mine, queue[l] # <<>>
      PROVE  Head(queue[l]) \in H /\ w[Head(queue[l])] = l
  BY <1>1, <1>2, <1>4 DEF Heirs
<1>5. ASSUME NEW u \in H
      PROVE  ToSet(list2[u]) = ToSet(list[u]) \cup {w[u]} /\ IsInjective(list2[u])
  <2>1. Linked(Tasks, list[u], ToSet(list[u])) /\ w[u] \in Tasks \ ToSet(list[u])
    BY <1>3 DEF LocksOK, Linked
  <2>2. list2[u] = <<w[u]>> \o list[u]
    BY <1>3
  <2> QED BY <2>1, <2>2, PrependLinked DEF Linked
<1>6. ASSUME NEW u \in Tasks, u # c, u \notin H
      PROVE  list2[u] = list[u] /\ IsInjective(list2[u])
  BY <1>6 DEF LocksOK
<1>7. ToSet(list2[c]) = ToSet(list[c]) \ mine /\ IsInjective(list2[c])
  BY DEF Linked
<1>8. ASSUME NEW l \in Tasks
      PROVE  tkn2[l] <=> \E t \in Tasks : l \in ToSet(list2[t])
  <2>1. ASSUME tkn2[l] PROVE \E t \in Tasks : l \in ToSet(list2[t])
    <3>1. PICK t \in Tasks : l \in ToSet(list[t])
      BY <2>1 DEF LocksOK
    <3>2. CASE t = c /\ l \in mine
      <4>1. queue[l] # <<>>
        BY <2>1, <3>2
      <4>2. Head(queue[l]) \in H /\ w[Head(queue[l])] = l
        BY <1>4, <3>2, <4>1
      <4> QED BY <1>3, <1>5, <4>2
    <3>3. CASE t = c /\ l \notin mine
      BY <1>7, <3>1, <3>3
    <3>4. CASE t # c
      BY <1>5, <1>6, <3>1, <3>4
    <3> QED BY <3>2, <3>3, <3>4
  <2>2. ASSUME NEW u \in Tasks, l \in ToSet(list2[u]) PROVE tkn2[l]
    <3>1. CASE u = c
      BY <1>7, <2>2, <3>1 DEF LocksOK
    <3>2. CASE u \in H /\ l = w[u]
      <4>1. l \in ToSet(list[c]) /\ queue[l] # <<>>
        BY <1>3, <3>2
      <4> QED BY <4>1 DEF LocksOK
    <3>3. CASE u # c /\ l \in ToSet(list[u])
      <4>1. tkn[l] /\ l \notin mine
        BY <3>3 DEF LocksOK
      <4> QED BY <4>1
    <3>4. CASE u \in H
      <4>1. u # c /\ l \in ToSet(list[u]) \cup {w[u]}
        BY <1>3, <1>5, <2>2, <3>4
      <4> QED BY <3>2, <3>3, <3>4, <4>1
    <3>5. CASE u # c /\ u \notin H
      BY <1>6, <2>2, <3>3, <3>5
    <3> QED BY <3>1, <3>4, <3>5
  <2> QED BY <2>1, <2>2
<1>9. ASSUME NEW l \in Tasks, NEW t \in Tasks, NEW u \in Tasks,
             l \in ToSet(list2[t]), l \in ToSet(list2[u])
      PROVE  t = u
  <2>1. ASSUME NEW v \in Tasks, l \in ToSet(list2[v])
        PROVE  IF l \in mine THEN v \in H /\ w[v] = l ELSE l \in ToSet(list[v])
    <3>1. CASE v = c
      BY <1>7, <2>1, <3>1
    <3>2. CASE v # c /\ l \in ToSet(list[v])
      BY <3>2 DEF LocksOK
    <3>3. CASE v \in H /\ l = w[v]
      BY <1>3, <3>3
    <3>4. CASE v \in H
      <4>1. v # c /\ l \in ToSet(list[v]) \cup {w[v]}
        BY <1>3, <1>5, <2>1, <3>4
      <4> QED BY <3>2, <3>3, <3>4, <4>1
    <3>5. CASE v # c /\ v \notin H
      BY <1>6, <2>1, <3>2, <3>5
    <3> QED BY <3>1, <3>4, <3>5
  <2>2. CASE l \in mine
    <3>1. t \in H /\ u \in H /\ w[t] = l /\ w[u] = l
      BY <1>9, <2>1, <2>2
    <3>2. Head(queue[w[t]]) = t /\ Head(queue[w[u]]) = u
      BY <1>3, <3>1, Zenon
    <3> QED BY <3>1, <3>2
  <2>3. CASE l \notin mine
    BY <1>9, <2>1, <2>3 DEF LocksOK
  <2> QED BY <2>2, <2>3
<1>10. \A t \in Tasks : IsInjective(list2[t])
  BY <1>5, <1>6, <1>7
<1>11. ASSUME NEW t \in Tasks, wait2[t] PROVE w[t] \in Tasks /\ tkn2[w[t]]
  <2>1. wait[t] /\ w[t] \in Tasks /\ tkn[w[t]]
    BY <1>11 DEF LocksOK
  <2>2. queue[w[t]] # <<>>
    <3>1. Linked(Tasks, queue[w[t]], {u \in Tasks : wait[u] /\ w[u] = w[t]})
      BY <2>1 DEF LocksOK
    <3>2. t \in {u \in Tasks : wait[u] /\ w[u] = w[t]}
      BY <2>1
    <3> QED BY <3>1, <3>2, EmptyLinked
  <2> QED BY <2>1, <2>2
<1>12. ASSUME NEW l \in Tasks
       PROVE  Linked(Tasks, queue2[l], {t \in Tasks : wait2[t] /\ w[t] = l})
  <2> DEFINE A == {t \in Tasks : wait[t] /\ w[t] = l}
             B == {t \in Tasks : wait2[t] /\ w[t] = l}
  <2>1. Linked(Tasks, queue[l], A)
    BY DEF LocksOK
  <2>2. CASE l \in mine /\ queue[l] # <<>>
    <3>1. B = A \ {Head(queue[l])}
      BY <1>3, <1>4, <2>2
    <3>2. Linked(Tasks, Tail(queue[l]), A \ {Head(queue[l])})
      <4> HIDE DEF A
      <4> QED BY <2>1, <2>2, HeadLinked
    <3> QED BY <2>2, <3>1, <3>2
  <2>3. CASE l \notin mine \/ queue[l] = <<>>
    <3>1. B = A
      BY <1>3, <2>3
    <3> QED BY <2>1, <2>3, <3>1
  <2> QED BY <2>2, <2>3
<1> QED BY <1>8, <1>9, <1>10, <1>11, <1>12 DEF LocksOK

LockRecord == [list  : [Tasks -> Seq(Tasks)],
               taken : [Tasks -> BOOLEAN],
               queue : [Tasks -> Seq(Tasks)],
               wait  : [Tasks -> BOOLEAN]]

RecordOK(k, w) == k \in LockRecord /\ LocksOK(k.list, k.taken, k.queue, k.wait, w)

(* Between k and g a task is left alone, or the lock it waits for is given *)
(* to it.                                                                  *)
LeftOrGiven(k, g, w, u) ==
    \/ g.list[u] = k.list[u] /\ g.wait[u] = k.wait[u]
    \/ k.wait[u] /\ ~g.wait[u] /\ g.list[u] = <<w[u]>> \o k.list[u]

LEMMA GiveUpLocks ==
    ASSUME NEW k, NEW w, RecordOK(k, w),
           NEW t \in Tasks, ~k.wait[t], k.list[t] # <<>>
    PROVE  /\ RecordOK(GiveUp(k, t), w)
           /\ GiveUp(k, t).list[t] = Tail(k.list[t]) /\ ~GiveUp(k, t).wait[t]
           /\ \A u \in Tasks : u # t => LeftOrGiven(k, GiveUp(k, t), w, u)
<1> DEFINE lock == Head(k.list[t])
           heir == Head(k.queue[lock])
           mine == {lock}
           H == Heirs(k.queue, k.wait, w, mine)
           g == GiveUp(k, t)
<1>1. /\ k.list \in [Tasks -> Seq(Tasks)] /\ k.taken \in [Tasks -> BOOLEAN]
      /\ k.queue \in [Tasks -> Seq(Tasks)] /\ k.wait \in [Tasks -> BOOLEAN]
      /\ LocksOK(k.list, k.taken, k.queue, k.wait, w)
  BY DEF RecordOK, LockRecord
<1>2. Linked(Tasks, k.list[t], ToSet(k.list[t]))
  BY <1>1 DEF LocksOK, Linked
<1>3. /\ lock \in Tasks /\ mine \subseteq ToSet(k.list[t])
      /\ Linked(Tasks, Tail(k.list[t]), ToSet(k.list[t]) \ mine)
  <2>1. Head(k.list[t]) \in ToSet(k.list[t]) /\ Head(k.list[t]) \in Tasks
        /\ Linked(Tasks, Tail(k.list[t]), ToSet(k.list[t]) \ {Head(k.list[t])})
    BY <1>2, HeadLinked
  <2> QED BY <2>1
<1>4. Linked(Tasks, k.queue[lock], {u \in Tasks : k.wait[u] /\ w[u] = lock})
  BY <1>1, <1>3 DEF LocksOK
<1>5. CASE k.queue[lock] = <<>>
  <2>1. H = {}
    <3>1. \A u \in Tasks : ~(k.wait[u] /\ w[u] = lock)
      BY <1>4, <1>5, EmptyLinked
    <3> QED BY <3>1 DEF Heirs
  <2>2. g = [k EXCEPT !.list[t] = Tail(@), !.taken[lock] = FALSE]
    BY <1>5 DEF GiveUp
  <2>3. /\ g \in LockRecord
        /\ g.list = [k.list EXCEPT ![t] = Tail(@)] /\ g.queue = k.queue
        /\ g.taken = [k.taken EXCEPT ![lock] = FALSE] /\ g.wait = k.wait
    <3>1. Tail(k.list[t]) \in Seq(Tasks)
      BY <1>3 DEF Linked
    <3> HIDE DEF g, lock
    <3>2. k \in LockRecord
      BY DEF RecordOK
    <3> QED BY <1>3, <2>2, <3>1, <3>2 DEF LockRecord
  <2> HIDE DEF g, lock
  <2>4. LocksOK(g.list, g.taken, g.queue, g.wait, w)
    <3> HIDE DEF H
    <3>1. /\ g.list[t] = Tail(k.list[t])
          /\ \A u \in Tasks : u # t => g.list[u] = k.list[u]
      BY <1>1, <2>3
    <3>2. \A l \in Tasks : g.taken[l] <=> k.taken[l] /\ (l \in mine => k.queue[l] # <<>>)
      BY <1>1, <1>5, <2>3
    <3>3. /\ \A l \in Tasks : g.queue[l] = IF l \in mine /\ k.queue[l] # <<>>
                                            THEN Tail(k.queue[l]) ELSE k.queue[l]
          /\ \A u \in Tasks : g.wait[u] <=> k.wait[u] /\ u \notin H
      BY <1>5, <2>1, <2>3
    <3>4. /\ g.list \in [Tasks -> Seq(Tasks)] /\ g.taken \in [Tasks -> BOOLEAN]
          /\ g.queue \in [Tasks -> Seq(Tasks)] /\ g.wait \in [Tasks -> BOOLEAN]
      BY <2>3 DEF LockRecord
    <3>5. H = Heirs(k.queue, k.wait, w, mine)
      BY DEF H
    <3>6. \A u \in Tasks : u # t =>
            g.list[u] = IF u \in H THEN <<w[u]>> \o k.list[u] ELSE k.list[u]
      BY <2>1, <3>1
    <3>7. HandsOver(k.list, k.taken, k.queue, k.wait, w, t, mine, H,
                    g.list, g.taken, g.queue, g.wait)
      <4> HIDE DEF mine
      <4> QED BY <1>1, <1>3, <3>1, <3>2, <3>3, <3>4, <3>5, <3>6 DEF HandsOver
    <3> HIDE DEF mine
    <3> QED BY <1>1, <3>7, HandOver
  <2> QED BY <1>1, <2>3, <2>4 DEF RecordOK, LeftOrGiven, g
<1>6. CASE k.queue[lock] # <<>>
  <2>1. /\ heir \in Tasks /\ k.wait[heir] /\ w[heir] = lock /\ heir # t
        /\ Tail(k.queue[lock]) \in Seq(Tasks)
    <3> DEFINE q == k.queue[lock]
               A == {u \in Tasks : k.wait[u] /\ w[u] = lock}
    <3>1. Linked(Tasks, q, A) /\ q # <<>>
      BY <1>4, <1>6
    <3> HIDE DEF q, A
    <3>2. Head(q) \in A /\ Linked(Tasks, Tail(q), A \ {Head(q)})
      BY <3>1, HeadLinked
    <3>3. heir \in A /\ Tail(k.queue[lock]) \in Seq(Tasks)
      BY <3>2 DEF q, Linked
    <3> QED BY <3>3 DEF A
  <2>2. H = {heir}
    BY <2>1 DEF Heirs
  <2>3. g = [[k EXCEPT !.list[t] = Tail(@)]
              EXCEPT !.wait[heir] = FALSE,
                     !.list[heir] = <<lock>> \o @, !.queue[lock] = Tail(@)]
    BY <1>6 DEF GiveUp
  <2>4. Tail(k.list[t]) \in Seq(Tasks) /\ <<lock>> \o k.list[heir] \in Seq(Tasks)
    <3> HIDE DEF lock, heir
    <3>1. /\ Tail(k.list[t]) \in Seq(Tasks) /\ lock \in Tasks
          /\ k.list[heir] \in Seq(Tasks)
      BY <1>1, <1>3, <2>1 DEF Linked
    <3>2. <<lock>> \in Seq(Tasks)
      BY <3>1
    <3> QED BY <3>1, <3>2, ConcatProperties
  <2> HIDE DEF g, lock, heir
  <2>5. /\ g.list = [[k.list EXCEPT ![t] = Tail(@)] EXCEPT ![heir] = <<lock>> \o @]
        /\ g.queue = [k.queue EXCEPT ![lock] = Tail(@)]
        /\ g.taken = k.taken /\ g.wait = [k.wait EXCEPT ![heir] = FALSE]
        /\ g = [list |-> g.list, taken |-> g.taken, queue |-> g.queue, wait |-> g.wait]
    BY <1>1, <2>1, <2>3 DEF RecordOK, LockRecord
  <2>6. /\ g.list \in [Tasks -> Seq(Tasks)] /\ g.taken \in [Tasks -> BOOLEAN]
        /\ g.queue \in [Tasks -> Seq(Tasks)] /\ g.wait \in [Tasks -> BOOLEAN]
        /\ g.list[t] = Tail(k.list[t]) /\ g.list[heir] = <<lock>> \o k.list[heir]
        /\ \A u \in Tasks : u # t /\ u # heir => g.list[u] = k.list[u]
    <3>1. /\ g.list \in [Tasks -> Seq(Tasks)] /\ g.list[t] = Tail(k.list[t])
          /\ g.list[heir] = <<lock>> \o k.list[heir]
          /\ \A u \in Tasks : u # t /\ u # heir => g.list[u] = k.list[u]
      <4> DEFINE a == [k.list EXCEPT ![t] = Tail(k.list[t])]
      <4>1. /\ a \in [Tasks -> Seq(Tasks)] /\ a[t] = Tail(k.list[t])
            /\ \A u \in Tasks : u # t => a[u] = k.list[u]
        BY <1>1, <2>4
      <4>2. g.list = [a EXCEPT ![heir] = <<lock>> \o a[heir]]
        BY <2>5
      <4> HIDE DEF a
      <4> DEFINE b == <<lock>> \o k.list[heir]
      <4>3. g.list = [a EXCEPT ![heir] = b] /\ b \in Seq(Tasks)
        BY <2>1, <2>4, <4>1, <4>2
      <4> HIDE DEF b
      <4>4. /\ g.list \in [Tasks -> Seq(Tasks)] /\ g.list[heir] = b
            /\ \A u \in Tasks : u # heir => g.list[u] = a[u]
        BY <2>1, <4>1, <4>3
      <4> QED BY <2>1, <4>1, <4>4 DEF b
    <3>2. /\ g.taken \in [Tasks -> BOOLEAN] /\ g.queue \in [Tasks -> Seq(Tasks)]
          /\ g.wait \in [Tasks -> BOOLEAN]
      <4>1. Tail(k.queue[lock]) \in Seq(Tasks)
        BY <2>1
      <4>2. g.queue \in [Tasks -> Seq(Tasks)]
        BY <1>1, <2>5, <4>1
      <4>3. g.taken \in [Tasks -> BOOLEAN] /\ g.wait \in [Tasks -> BOOLEAN]
        BY <1>1, <2>5
      <4> QED BY <4>2, <4>3
    <3> QED BY <3>1, <3>2
  <2>7. g \in LockRecord
    BY <2>5, <2>6 DEF LockRecord
  <2>8. /\ \A l \in Tasks : g.taken[l] <=> k.taken[l] /\ (l \in mine => k.queue[l] # <<>>)
        /\ \A l \in Tasks : g.queue[l] = IF l \in mine /\ k.queue[l] # <<>>
                                          THEN Tail(k.queue[l]) ELSE k.queue[l]
        /\ \A u \in Tasks : g.wait[u] <=> k.wait[u] /\ u \notin H
    <3>1. \A u \in Tasks : g.wait[u] <=> k.wait[u] /\ u # heir
      BY <1>1, <2>1, <2>5
    <3>2. \A l \in Tasks : l \in mine => k.queue[l] # <<>>
      BY <1>6
    <3>3. \A l \in Tasks : g.queue[l] = IF l = lock THEN Tail(k.queue[l]) ELSE k.queue[l]
      BY <1>1, <1>3, <2>5
    <3> QED BY <1>6, <2>2, <2>5, <3>1, <3>2, <3>3
  <2>9. \A u \in Tasks : u # t =>
          g.list[u] = IF u \in H THEN <<w[u]>> \o k.list[u] ELSE k.list[u]
    BY <2>1, <2>2, <2>6
  <2>10. LocksOK(g.list, g.taken, g.queue, g.wait, w)
    <3>1. H = Heirs(k.queue, k.wait, w, mine)
      OBVIOUS
    <3> HIDE DEF H, mine
    <3>2. HandsOver(k.list, k.taken, k.queue, k.wait, w, t, mine, H,
                    g.list, g.taken, g.queue, g.wait)
      BY <1>1, <1>3, <2>6, <2>8, <2>9, <3>1 DEF HandsOver
    <3> QED BY <1>1, <3>2, HandOver
  <2>11. \A u \in Tasks : u # t => LeftOrGiven(k, g, w, u)
    BY <1>1, <2>1, <2>5, <2>6 DEF LeftOrGiven
  <2> QED BY <1>1, <2>1, <2>5, <2>6, <2>7, <2>10, <2>11 DEF RecordOK, g
<1> QED BY <1>5, <1>6

LEMMA AllUnlockLocks ==
    ASSUME NEW k, NEW w, RecordOK(k, w), NEW c \in Tasks, ~k.wait[c]
    PROVE  /\ RecordOK(AllUnlockSVC(k, c), w)
           /\ AllUnlockSVC(k, c).list[c] = <<>> /\ ~AllUnlockSVC(k, c).wait[c]
           /\ \A u \in Tasks : u # c => LeftOrGiven(k, AllUnlockSVC(k, c), w, u)
<1> DEFINE mine == ToSet(k.list[c])
           H == Heirs(k.queue, k.wait, w, mine)
           g == AllUnlockSVC(k, c)
<1>1. /\ k.list \in [Tasks -> Seq(Tasks)] /\ k.taken \in [Tasks -> BOOLEAN]
      /\ k.queue \in [Tasks -> Seq(Tasks)] /\ k.wait \in [Tasks -> BOOLEAN]
      /\ LocksOK(k.list, k.taken, k.queue, k.wait, w)
  BY DEF RecordOK, LockRecord
<1>2. mine \subseteq Tasks
  BY <1>1, InList
<1>3. ASSUME NEW l \in Tasks, k.queue[l] # <<>>
      PROVE  /\ Head(k.queue[l]) \in Tasks /\ k.wait[Head(k.queue[l])]
             /\ w[Head(k.queue[l])] = l /\ Tail(k.queue[l]) \in Seq(Tasks)
  <2>1. Linked(Tasks, k.queue[l], {t \in Tasks : k.wait[t] /\ w[t] = l})
    BY <1>1 DEF LocksOK
  <2>2. Head(k.queue[l]) \in {t \in Tasks : k.wait[t] /\ w[t] = l}
    BY <1>3, <2>1, HeadLinked
  <2>3. Tail(k.queue[l]) \in Seq(Tasks)
    BY <1>1, <1>3
  <2> QED BY <2>2, <2>3
<1>4. ASSUME NEW u \in Tasks
      PROVE  /\ u \in H => Inherits(k, c, u) = {w[u]}
             /\ u \notin H => Inherits(k, c, u) = {}
  <2>1. ASSUME NEW l \in Inherits(k, c, u) PROVE u \in H /\ l = w[u]
    <3>1. l \in mine /\ l \in Tasks /\ k.queue[l] # <<>> /\ Head(k.queue[l]) = u
      BY <1>2 DEF Inherits
    <3>2. k.wait[u] /\ w[u] = l
      BY <1>3, <3>1
    <3> QED BY <3>1, <3>2 DEF Heirs
  <2>2. ASSUME u \in H PROVE w[u] \in Inherits(k, c, u)
    <3>1. k.wait[u] /\ w[u] \in mine /\ w[u] \in Tasks /\ Head(k.queue[w[u]]) = u
      BY <1>2, <2>2 DEF Heirs
    <3>2. Linked(Tasks, k.queue[w[u]], {t \in Tasks : k.wait[t] /\ w[t] = w[u]})
      BY <1>1, <3>1 DEF LocksOK
    <3>3. u \in {t \in Tasks : k.wait[t] /\ w[t] = w[u]}
      BY <3>1
    <3>4. k.queue[w[u]] # <<>>
      BY <3>2, <3>3, EmptyLinked
    <3> QED BY <3>1, <3>4 DEF Inherits
  <2> HIDE DEF H
  <2> QED BY <2>1, <2>2
<1>5. /\ g.list = [t \in Tasks |->
                      IF t = c THEN <<>>
                      ELSE IF Inherits(k, c, t) = {} THEN k.list[t]
                      ELSE <<CHOOSE l \in Inherits(k, c, t) : TRUE>> \o k.list[t]]
      /\ g.taken = [l \in Tasks |-> k.taken[l] /\ (l \in mine => k.queue[l] # <<>>)]
      /\ g.queue = [l \in Tasks |-> IF l \in mine /\ k.queue[l] # <<>>
                                     THEN Tail(k.queue[l]) ELSE k.queue[l]]
      /\ g.wait = [t \in Tasks |-> k.wait[t] /\ Inherits(k, c, t) = {}]
      /\ g = [list |-> g.list, taken |-> g.taken, queue |-> g.queue, wait |-> g.wait]
  BY DEF AllUnlockSVC
<1>6. \A x : (CHOOSE l \in {x} : TRUE) = x
  OBVIOUS
<1> HIDE DEF g
<1>7. /\ g.list[c] = <<>> /\ ~g.wait[c]
      /\ \A u \in Tasks :
          u # c => g.list[u] = IF u \in H THEN <<w[u]>> \o k.list[u] ELSE k.list[u]
  <2> HIDE DEF H
  <2>1. ASSUME NEW u \in Tasks, u # c, u \in H
        PROVE  g.list[u] = <<w[u]>> \o k.list[u]
    <3>1. Inherits(k, c, u) = {w[u]}
      BY <1>4, <2>1
    <3>2. (CHOOSE l \in Inherits(k, c, u) : TRUE) = w[u]
      BY <1>6, <3>1
    <3>3. Inherits(k, c, u) # {}
      BY <3>1
    <3> DEFINE gift == CHOOSE l \in Inherits(k, c, u) : TRUE
    <3>4. g.list[u] = <<gift>> \o k.list[u]
      BY <1>5, <2>1, <3>3, Zenon
    <3>5. gift = w[u]
      BY <3>2
    <3> HIDE DEF gift
    <3> QED BY <3>4, <3>5
  <2>2. ASSUME NEW u \in Tasks, u # c, u \notin H
        PROVE  g.list[u] = k.list[u]
    BY <1>4, <1>5, <2>2
  <2> QED BY <1>5, <2>1, <2>2
<1>8. \A u \in H : u \in Tasks /\ w[u] \in Tasks /\ k.wait[u]
  BY <1>2 DEF Heirs
<1>9. /\ g.list \in [Tasks -> Seq(Tasks)] /\ g.taken \in [Tasks -> BOOLEAN]
      /\ g.queue \in [Tasks -> Seq(Tasks)] /\ g.wait \in [Tasks -> BOOLEAN]
  <2>1. ASSUME NEW u \in Tasks PROVE g.list[u] \in Seq(Tasks)
    <3>1. CASE u = c
      <4>1. <<>> \in Seq(Tasks)
        OBVIOUS
      <4> QED BY <1>7, <3>1, <4>1
    <3>2. CASE u # c /\ u \in H
      <4>1. <<w[u]>> \o k.list[u] \in Seq(Tasks)
        BY <1>1, <1>8, <3>2, ConcatProperties
      <4> QED BY <1>7, <3>2, <4>1
    <3>3. CASE u # c /\ u \notin H
      BY <1>1, <1>7, <3>3
    <3> QED BY <3>1, <3>2, <3>3
  <2>2. g.list \in [Tasks -> Seq(Tasks)]
    BY <1>5, <2>1
  <2>3. g.taken \in [Tasks -> BOOLEAN] /\ g.wait \in [Tasks -> BOOLEAN]
    BY <1>1, <1>5
  <2>4. g.queue \in [Tasks -> Seq(Tasks)]
    BY <1>1, <1>3, <1>5
  <2> QED BY <2>2, <2>3, <2>4
<1>10. /\ \A l \in Tasks : g.taken[l] <=> k.taken[l] /\ (l \in mine => k.queue[l] # <<>>)
       /\ \A l \in Tasks : g.queue[l] = IF l \in mine /\ k.queue[l] # <<>>
                                         THEN Tail(k.queue[l]) ELSE k.queue[l]
       /\ \A u \in Tasks : g.wait[u] <=> k.wait[u] /\ u \notin H
  <2>1. \A u \in Tasks : Inherits(k, c, u) = {} <=> u \notin H
    BY <1>4
  <2> HIDE DEF H
  <2> QED BY <1>5, <2>1
<1>11. Linked(Tasks, g.list[c], ToSet(k.list[c]) \ mine)
  <2>1. ToSet(k.list[c]) \ mine = {} /\ <<>> \in Seq(Tasks) /\ ToSet(<<>>) = {}
    BY DEF ToSet
  <2> QED BY <1>7, <2>1 DEF Linked, IsInjective
<1>12. HandsOver(k.list, k.taken, k.queue, k.wait, w, c, mine, H,
                 g.list, g.taken, g.queue, g.wait)
  <2>1. H = Heirs(k.queue, k.wait, w, mine) /\ mine \subseteq ToSet(k.list[c])
    OBVIOUS
  <2> HIDE DEF H, mine
  <2> QED BY <1>7, <1>9, <1>10, <1>11, <2>1 DEF HandsOver
<1>13. LocksOK(g.list, g.taken, g.queue, g.wait, w)
  <2> HIDE DEF H, mine
  <2> QED BY <1>1, <1>12, HandOver
<1>14. \A u \in Tasks : u # c => LeftOrGiven(k, g, w, u)
  <2> HIDE DEF H
  <2>1. ASSUME NEW u \in Tasks, u # c PROVE LeftOrGiven(k, g, w, u)
    <3>1. CASE u \in H
      <4>1. k.wait[u] /\ ~g.wait[u] /\ g.list[u] = <<w[u]>> \o k.list[u]
        BY <1>7, <1>8, <1>10, <2>1, <3>1
      <4> QED BY <4>1 DEF LeftOrGiven
    <3>2. CASE u \notin H
      <4>1. g.list[u] = k.list[u] /\ (g.wait[u] <=> k.wait[u])
        BY <1>7, <1>10, <2>1, <3>2
      <4>2. g.wait[u] \in BOOLEAN /\ k.wait[u] \in BOOLEAN
        BY <1>1, <1>9
      <4>3. g.wait[u] = k.wait[u]
        BY <4>1, <4>2
      <4> QED BY <4>1, <4>3 DEF LeftOrGiven
    <3> QED BY <3>1, <3>2
  <2> QED BY <2>1
<1>15. g \in LockRecord
  BY <1>5, <1>9 DEF LockRecord
<1> QED BY <1>7, <1>13, <1>14, <1>15 DEF RecordOK, g

(* t leaves the queue that it is in, if it is in one. *)
LEMMA LeftLocks ==
    ASSUME NEW list, NEW tkn, NEW queue, NEW wait, NEW w, NEW t \in Tasks,
           LocksOK(list, tkn, queue, wait, w)
    PROVE  LocksOK(list, tkn, Left(queue, t), [wait EXCEPT ![t] = FALSE], w)
<1> DEFINE queue2 == Left(queue, t)
           wait2 == [wait EXCEPT ![t] = FALSE]
<1>1. /\ wait2 \in [Tasks -> BOOLEAN] /\ ~wait2[t]
      /\ \A u \in Tasks : u # t => wait2[u] = wait[u]
  BY DEF LocksOK
<1>2. queue2 = [l \in Tasks |-> RemoveFirst(queue[l], t)]
  BY DEF Left
<1> HIDE DEF queue2, wait2
<1>3. ASSUME NEW l \in Tasks
      PROVE  Linked(Tasks, queue2[l], {u \in Tasks : wait2[u] /\ w[u] = l})
  <2> DEFINE A == {u \in Tasks : wait[u] /\ w[u] = l}
             B == {u \in Tasks : wait2[u] /\ w[u] = l}
  <2>1. Linked(Tasks, queue[l], A) /\ queue2[l] = RemoveFirst(queue[l], t)
    BY <1>2 DEF LocksOK
  <2>2. B = A \ {t}
    BY <1>1
  <2> HIDE DEF A, B
  <2>3. CASE t \in A
    BY <2>1, <2>2, <2>3, RemoveLinked DEF B
  <2>4. CASE t \notin A
    <3>1. queue[l] \in Seq(Tasks) /\ ToSet(queue[l]) = A
      BY <2>1 DEF Linked
    <3>2. \A i \in 1 .. Len(queue[l]) : queue[l][i] # t
      BY <2>4, <3>1, PlacesOf
    <3>3. RemoveFirst(queue[l], t) = queue[l]
      BY <3>2 DEF RemoveFirst
    <3>4. B = A
      BY <2>2, <2>4
    <3> QED BY <2>1, <3>3, <3>4 DEF B
  <2> QED BY <2>3, <2>4
<1>4. queue2 \in [Tasks -> Seq(Tasks)]
  BY <1>2, <1>3 DEF Linked
<1> QED BY <1>1, <1>3, <1>4 DEF LocksOK, queue2, wait2

(* LockSVC takes a lock that is free, *)
LEMMA TakeLocks ==
    ASSUME NEW list, NEW tkn, NEW queue, NEW wait, NEW w, NEW t \in Tasks,
           LocksOK(list, tkn, queue, wait, w), NEW l \in Tasks, ~tkn[l]
    PROVE  LocksOK([list EXCEPT ![t] = <<l>> \o list[t]], [tkn EXCEPT ![l] = TRUE],
                   queue, wait, w)
<1> DEFINE list2 == [list EXCEPT ![t] = <<l>> \o list[t]]
           tkn2 == [tkn EXCEPT ![l] = TRUE]
<1>1. Linked(Tasks, list[t], ToSet(list[t])) /\ l \in Tasks \ ToSet(list[t])
  BY DEF LocksOK, Linked
<1>2. Linked(Tasks, <<l>> \o list[t], ToSet(list[t]) \cup {l})
  BY <1>1, PrependLinked
<1>3. /\ list2 \in [Tasks -> Seq(Tasks)] /\ list2[t] = <<l>> \o list[t]
      /\ \A u \in Tasks : u # t => list2[u] = list[u]
  BY <1>2 DEF LocksOK, Linked
<1>4. /\ tkn2 \in [Tasks -> BOOLEAN] /\ tkn2[l]
      /\ \A m \in Tasks : m # l => tkn2[m] = tkn[m]
  BY DEF LocksOK
<1> HIDE DEF list2, tkn2
<1>5. ASSUME NEW m \in Tasks, NEW u \in Tasks
      PROVE  m \in ToSet(list2[u]) <=> m \in ToSet(list[u]) \/ (m = l /\ u = t)
  <2>1. CASE u = t
    BY <1>2, <1>3, <2>1 DEF Linked
  <2>2. CASE u # t
    BY <1>3, <2>2
  <2> QED BY <2>1, <2>2
<1>6. \A u \in Tasks : IsInjective(list2[u])
  BY <1>2, <1>3 DEF Linked, LocksOK
<1>7. ASSUME NEW m \in Tasks PROVE tkn2[m] <=> \E u \in Tasks : m \in ToSet(list2[u])
  <2>1. CASE m = l
    BY <1>4, <1>5, <2>1
  <2>2. CASE m # l
    BY <1>4, <1>5, <2>2 DEF LocksOK
  <2> QED BY <2>1, <2>2
<1>8. ASSUME NEW m \in Tasks, NEW u \in Tasks, NEW v \in Tasks,
             m \in ToSet(list2[u]), m \in ToSet(list2[v])
      PROVE  u = v
  <2>1. CASE m = l
    <3>1. \A x \in Tasks : l \notin ToSet(list[x])
      BY DEF LocksOK
    <3> QED BY <1>5, <1>8, <2>1, <3>1
  <2>2. CASE m # l
    <3>1. m \in ToSet(list[u]) /\ m \in ToSet(list[v])
      BY <1>5, <1>8, <2>2
    <3> QED BY <3>1 DEF LocksOK
  <2> QED BY <2>1, <2>2
<1>9. \A u \in Tasks : wait[u] => w[u] \in Tasks /\ tkn2[w[u]]
  BY <1>4 DEF LocksOK
<1> QED BY <1>3, <1>4, <1>6, <1>7, <1>8, <1>9 DEF LocksOK, list2, tkn2

(* or waits for one that is taken.                                         *)
LEMMA QueueLocks ==
    ASSUME NEW list, NEW tkn, NEW queue, NEW wait, NEW w, NEW t \in Tasks,
           LocksOK(list, tkn, queue, wait, w), NEW l \in Tasks, tkn[l],
           ~wait[t], w[t] = l
    PROVE  LocksOK(list, tkn, [queue EXCEPT ![l] = Append(queue[l], t)],
                   [wait EXCEPT ![t] = TRUE], w)
<1> DEFINE queue2 == [queue EXCEPT ![l] = Append(queue[l], t)]
           wait2 == [wait EXCEPT ![t] = TRUE]
<1>1. /\ wait2 \in [Tasks -> BOOLEAN] /\ wait2[t]
      /\ \A u \in Tasks : u # t => wait2[u] = wait[u]
  BY DEF LocksOK
<1>2. Linked(Tasks, queue[l], {u \in Tasks : wait[u] /\ w[u] = l})
  BY DEF LocksOK
<1>3. Linked(Tasks, Append(queue[l], t), {u \in Tasks : wait[u] /\ w[u] = l} \cup {t})
  <2>1. t \in Tasks \ {u \in Tasks : wait[u] /\ w[u] = l}
    OBVIOUS
  <2> QED BY <1>2, <2>1, AppendLinked
<1>4. /\ queue2 \in [Tasks -> Seq(Tasks)] /\ queue2[l] = Append(queue[l], t)
      /\ \A m \in Tasks : m # l => queue2[m] = queue[m]
  BY <1>3 DEF LocksOK, Linked
<1> HIDE DEF queue2, wait2
<1>5. ASSUME NEW m \in Tasks
      PROVE  Linked(Tasks, queue2[m], {u \in Tasks : wait2[u] /\ w[u] = m})
  <2>1. CASE m = l
    <3>1. {u \in Tasks : wait2[u] /\ w[u] = l}
            = {u \in Tasks : wait[u] /\ w[u] = l} \cup {t}
      BY <1>1
    <3> QED BY <1>3, <1>4, <2>1, <3>1
  <2>2. CASE m # l
    <3>1. {u \in Tasks : wait2[u] /\ w[u] = m} = {u \in Tasks : wait[u] /\ w[u] = m}
      BY <1>1, <2>2
    <3> QED BY <1>4, <2>2, <3>1 DEF LocksOK
  <2> QED BY <2>1, <2>2
<1>6. \A u \in Tasks : wait2[u] => w[u] \in Tasks /\ tkn[w[u]]
  BY <1>1 DEF LocksOK
<1> QED BY <1>1, <1>4, <1>5, <1>6 DEF LocksOK, queue2, wait2

(* Only the locks that tasks wait for matter. *)
LEMMA SameWaits ==
    ASSUME NEW list, NEW tkn, NEW queue, NEW wait, NEW w, NEW w2,
           LocksOK(list, tkn, queue, wait, w),
           \A t \in Tasks : wait[t] => w2[t] = w[t]
    PROVE  LocksOK(list, tkn, queue, wait, w2)
<1>1. \A l \in Tasks : {t \in Tasks : wait[t] /\ w2[t] = l} = {t \in Tasks : wait[t] /\ w[t] = l}
  OBVIOUS
<1> QED BY <1>1 DEF LocksOK

-----------------------------------------------------------------------------
(* The sequence of the calls of a task *)

(* The calls d are c, with another place for the innermost one. *)
Onward(c, d, step) ==
    /\ c \in Seq(Call) /\ d \in Seq(Call) /\ c # <<>> /\ Len(d) = Len(c)
    /\ \A i \in 1 .. Len(c) : i # Len(c) => d[i].at = c[i].at
    /\ \A i \in 1 .. Len(c) : d[i].lock = c[i].lock /\ d[i].op = c[i].op
                               /\ d[i].broken = c[i].broken
    /\ d[Len(c)].at = step

LEMMA GoToCalls ==
    ASSUME NEW c \in Seq(Call), c # <<>>, NEW step \in Places
    PROVE  Onward(c, [c EXCEPT ![Len(c)].at = step], step)
<1> DEFINE d == [c EXCEPT ![Len(c)].at = step]
<1>1. /\ Len(c) \in Nat \ {0} /\ DOMAIN c = 1 .. Len(c)
      /\ \A i \in 1 .. Len(c) : c[i] \in Call
  BY PlacesOf
<1>2. /\ Len(c) \in 1 .. Len(c)
      /\ d = [c EXCEPT ![Len(c)] = [c[Len(c)] EXCEPT !.at = step]]
  BY <1>1
<1> DEFINE r == [c[Len(c)] EXCEPT !.at = step]
<1>3. /\ r \in Call /\ r.at = step
      /\ r.lock = c[Len(c)].lock /\ r.op = c[Len(c)].op /\ r.broken = c[Len(c)].broken
  BY <1>1, <1>2 DEF Call, Places
<1> HIDE DEF r
<1>4. d = [c EXCEPT ![Len(c)] = r]
  BY <1>2 DEF r
<1> HIDE DEF d
<1>5. d \in Seq(Call) /\ Len(d) = Len(c)
  BY <1>2, <1>3, <1>4, ExceptSeq
<1>6. d[Len(c)] = r /\ \A i \in 1 .. Len(c) : i # Len(c) => d[i] = c[i]
  BY <1>1, <1>2, <1>4
<1>7. ASSUME NEW i \in 1 .. Len(c)
      PROVE  d[i].lock = c[i].lock /\ d[i].op = c[i].op /\ d[i].broken = c[i].broken
  BY <1>3, <1>6
<1> QED BY <1>1, <1>3, <1>5, <1>6, <1>7 DEF Onward, d

LEMMA FrontCalls ==
    ASSUME NEW c \in Seq(Call), c # <<>>
    PROVE  /\ Front(c) \in Seq(Call) /\ Len(Front(c)) = Len(c) - 1 /\ Len(c) \in Nat \ {0}
           /\ \A i \in 1 .. Len(c) - 1 : Front(c)[i] = c[i]
<1>1. Len(c) \in Nat \ {0} /\ \A i \in 1 .. Len(c) : c[i] \in Call
  BY PlacesOf
<1>2. 1 \in Int /\ Len(c) - 1 \in Int /\ \A i \in 1 .. Len(c) - 1 : c[i] \in Call
  BY <1>1
<1>3. /\ SubSeq(c, 1, Len(c) - 1) \in Seq(Call)
      /\ Len(SubSeq(c, 1, Len(c) - 1)) = Len(c) - 1
      /\ \A i \in 1 .. Len(c) - 1 : SubSeq(c, 1, Len(c) - 1)[i] = c[i]
  <2> DEFINE m == 1
             n == Len(c) - 1
             r == SubSeq(c, m, n)
  <2>1. /\ r \in Seq(Call) /\ Len(r) = IF m <= n THEN n - m + 1 ELSE 0
        /\ \A i \in 1 .. n - m + 1 : r[i] = c[m + i - 1]
    <3>1. m \in Int /\ n \in Int /\ \A i \in m .. n : c[i] \in Call
      BY <1>2
    <3> HIDE DEF m, n, r
    <3> QED BY <3>1, SubSeqProperties DEF r
  <2> HIDE DEF r
  <2>2. Len(r) = Len(c) - 1
    <3>1. Len(r) = IF m <= n THEN n - m + 1 ELSE 0
      BY <2>1
    <3>2. \A k \in Nat \ {0} : (IF 1 <= k - 1 THEN (k - 1) - 1 + 1 ELSE 0) = k - 1
      OBVIOUS
    <3> HIDE DEF r
    <3> QED BY <1>1, <3>1, <3>2
  <2>3. ASSUME NEW i \in 1 .. Len(c) - 1 PROVE r[i] = c[i]
    <3>1. i \in 1 .. n - m + 1 /\ m + i - 1 = i
      BY <1>1
    <3> QED BY <2>1, <3>1
  <2> QED BY <2>1, <2>2, <2>3 DEF r
<1> QED BY <1>1, <1>3 DEF Front

LEMMA BeginCalls ==
    ASSUME NEW c \in Seq(Call), NEW r \in Call, NEW d, d = Append(c, r)
    PROVE  /\ d \in Seq(Call) /\ Len(d) = Len(c) + 1 /\ d # <<>> /\ Len(c) \in Nat
           /\ d[Len(c) + 1] = r
           /\ \A i \in 1 .. Len(c) : d[i] = c[i]
<1>1. /\ d \in Seq(Call) /\ Len(d) = Len(c) + 1 /\ Len(c) \in Nat
      /\ d[Len(c) + 1] = r
      /\ \A i \in 1 .. Len(c) : d[i] = c[i]
  BY AppendProperties
<1> QED BY <1>1, PlacesOf

LEMMA InnermostIs ==
    ASSUME NEW t \in Tasks, calls \in [Tasks -> Seq(Call)]
    PROVE  Innermost(t) = calls[t][Len(calls[t])]
  BY DEF Innermost, Last

-----------------------------------------------------------------------------
(* What is true of a task t, with the calls c and the list s: a is its     *)
(* alive, and wt its klockwait.                                            *)
TaskOK(t, a, c, s, wt) ==
    /\ Frames(t, c)
    /\ Nested(s, c)
    /\ wt => c # <<>> /\ Asks(c[Len(c)]) /\ Len(c) \notin Holding(s, c)
    /\ ~a => c = <<>>

LEMMA HeldInList ==
    ASSUME NEW s \in Seq(Tasks), NEW c \in Seq(Call), Nested(s, c),
           NEW h \in Holding(s, c)
    PROVE  c[h].lock \in ToSet(s)
<1>1. PICK place \in [DOMAIN s -> Holding(s, c)] :
        /\ \A k \in Holding(s, c) : \E i \in DOMAIN s : place[i] = k
        /\ \A i \in DOMAIN s : s[i] = c[place[i]].lock
  BY DEF Nested
<1>2. PICK i \in DOMAIN s : place[i] = h
  BY <1>1
<1>3. s[i] = c[h].lock
  BY <1>1, <1>2
<1> QED BY <1>3 DEF ToSet

LEMMA DomainOf ==
    ASSUME NEW c \in Seq(Call)
    PROVE  DOMAIN c = 1 .. Len(c) /\ Len(c) \in Nat /\ (c # <<>> => Len(c) \in Nat \ {0})
  BY PlacesOf

(* svc_ientry or tk_ras_tex begins a call. *)
LEMMA BeginOK ==
    ASSUME NEW t \in Tasks, NEW s \in Seq(Tasks), NEW c \in Seq(Call),
           TaskOK(t, TRUE, c, s, FALSE),
           c = <<>> \/ c[Len(c)].at = "run",
           NEW r \in Call, r.at = "lock", r.op = "svc" => r.lock = t,
           r.lock \notin ToSet(s),
           NEW d, d = Append(c, r)
    PROVE  TaskOK(t, TRUE, d, s, FALSE)
<1>1. /\ d \in Seq(Call) /\ Len(d) = Len(c) + 1 /\ d # <<>> /\ Len(c) \in Nat
      /\ d[Len(c) + 1] = r /\ \A i \in 1 .. Len(c) : d[i] = c[i]
  BY BeginCalls
<1>2. Frames(t, c) /\ Nested(s, c) /\ DOMAIN c = 1 .. Len(c) /\ DOMAIN d = 1 .. Len(c) + 1
  BY <1>1, DomainOf DEF TaskOK
<1>3. Nested(s, d)
  BY <1>2, NestedBegin DEF Asks
<1>4. ASSUME NEW i \in 1 .. Len(c)
      PROVE  d[i].at = "run" /\ (c[i].op = "ras" => c[i].lock # r.lock)
  <2>1. c[i].at = "run"
    <3>1. i < Len(c) \/ i = Len(c)
      BY <1>1
    <3>2. c # <<>>
      BY <1>2
    <3> QED BY <1>2, <3>1, <3>2 DEF Frames
  <2>2. ASSUME c[i].op = "ras" PROVE c[i].lock # r.lock
    <3>1. i \in Holding(s, c)
      BY <1>2, <2>1, <2>2 DEF Holding, InSection
    <3> QED BY <1>2, <3>1, HeldInList
  <2> QED BY <1>1, <2>1, <2>2
<1>5. ASSUME NEW i \in DOMAIN d
      PROVE  /\ d[i].op = "svc" => d[i].lock = t
             /\ d[i].op = "ras" => d[i].at # "relock"
             /\ i < Len(d) => d[i].at = "run"
             /\ \A j \in DOMAIN d : j < i /\ d[j].op = "ras" => d[j].lock # d[i].lock
  <2>1. CASE i \in 1 .. Len(c)
    <3>1. \A j \in DOMAIN d : j < i => j \in DOMAIN c /\ d[j] = c[j]
      BY <1>1, <1>2, <2>1
    <3>2. d[i] = c[i] /\ d[i].at = "run"
      BY <1>1, <1>4, <2>1
    <3> QED BY <1>2, <2>1, <3>1, <3>2 DEF Frames
  <2>2. CASE i = Len(c) + 1
    <3>1. \A j \in DOMAIN d : j < i => j \in 1 .. Len(c) /\ d[j] = c[j]
      BY <1>1, <1>2, <2>2
    <3>2. d[i] = r /\ ~(i < Len(d))
      BY <1>1, <2>2
    <3> QED BY <1>4, <3>1, <3>2
  <2>3. i \in 1 .. Len(c) \/ i = Len(c) + 1
    BY <1>1, <1>2
  <2> QED BY <2>1, <2>2, <2>3
<1>6. Frames(t, d)
  BY <1>5 DEF Frames
<1> QED BY <1>3, <1>6 DEF TaskOK

LEMMA FramesOnward ==
    ASSUME NEW t \in Tasks, NEW c, NEW d, NEW step, Frames(t, c), Onward(c, d, step),
           c[Len(c)].op = "ras" => step # "relock"
    PROVE  Frames(t, d)
<1>1. DOMAIN c = 1 .. Len(c) /\ DOMAIN d = 1 .. Len(c) /\ Len(c) \in Nat /\ Len(d) = Len(c)
  BY DomainOf DEF Onward
<1> SUFFICES ASSUME NEW i \in 1 .. Len(c)
             PROVE  /\ d[i].op = "svc" => d[i].lock = t
                    /\ d[i].op = "ras" => d[i].at # "relock"
                    /\ i < Len(c) => d[i].at = "run"
                    /\ \A j \in 1 .. Len(c) :
                         j < i /\ d[j].op = "ras" => d[j].lock # d[i].lock
  BY <1>1 DEF Frames
<1>6. /\ c[i].op = "svc" => c[i].lock = t
      /\ c[i].op = "ras" => c[i].at # "relock"
      /\ i < Len(c) => c[i].at = "run"
      /\ \A j \in 1 .. Len(c) : j < i /\ c[j].op = "ras" => c[j].lock # c[i].lock
  BY <1>1 DEF Frames
<1>7. /\ d[i].lock = c[i].lock /\ d[i].op = c[i].op
      /\ \A j \in 1 .. Len(c) : d[j].lock = c[j].lock /\ d[j].op = c[j].op
      /\ IF i = Len(c) THEN d[i].at = step ELSE d[i].at = c[i].at
  BY DEF Onward
<1>2. d[i].op = "svc" => d[i].lock = t
  BY <1>6, <1>7
<1>3. d[i].op = "ras" => d[i].at # "relock"
  BY <1>6, <1>7
<1>4. i < Len(c) => d[i].at = "run"
  <2>1. \A m \in Nat : ~(m < m)
    OBVIOUS
  <2>2. i < Len(c) => i # Len(c)
    BY <1>1, <2>1
  <2> QED BY <1>6, <1>7, <2>2
<1>5. \A j \in 1 .. Len(c) : j < i /\ d[j].op = "ras" => d[j].lock # d[i].lock
  BY <1>6, <1>7
<1> QED BY <1>2, <1>3, <1>4, <1>5

LEMMA OnwardOK ==
    ASSUME NEW t \in Tasks, NEW s \in Seq(Tasks), NEW c, NEW d, NEW step,
           TaskOK(t, TRUE, c, s, FALSE), Onward(c, d, step),
           c[Len(c)].op = "ras" => step # "relock",
           Len(c) \in Holding(s, d) <=> Len(c) \in Holding(s, c)
    PROVE  TaskOK(t, TRUE, d, s, FALSE)
<1>1. Frames(t, d)
  BY FramesOnward DEF TaskOK
<1>2. \A i \in 1 .. Len(c) : i # Len(c) => (InSection(d[i]) <=> InSection(c[i]))
  BY DEF Onward, InSection
<1>3. Nested(s, d)
  BY <1>2, NestedGoOn DEF TaskOK, Onward
<1> QED BY <1>1, <1>3 DEF TaskOK

(* LockSVC takes the lock. *)
LEMMA TakeOK ==
    ASSUME NEW t \in Tasks, NEW s \in Seq(Tasks), NEW c, NEW d, NEW step,
           TaskOK(t, TRUE, c, s, FALSE), Onward(c, d, step), Asks(c[Len(c)]),
           c[Len(c)].lock \notin ToSet(s), step \in {"locked", "unlock"}
    PROVE  TaskOK(t, TRUE, d, <<c[Len(c)].lock>> \o s, FALSE)
<1> DEFINE l == c[Len(c)].lock
           r == <<l>> \o s
<1>1. c \in Seq(Call) /\ d \in Seq(Call) /\ c # <<>> /\ Len(d) = Len(c)
  BY DEF Onward
<1>2. DOMAIN c = 1 .. Len(c) /\ DOMAIN d = 1 .. Len(c) /\ Len(c) \in Nat \ {0}
  BY <1>1, DomainOf
<1>3. l \in Tasks
  <2>1. c[Len(c)] \in Call
    BY <1>1, <1>2, PlacesOf
  <2> QED BY <2>1 DEF Call
<1>4. Nested(r, c)
  BY <1>1, NestedGiven DEF TaskOK
<1>5. r \in Seq(Tasks) /\ r # <<>> /\ Head(r) = l
  BY <1>3, ConcatProperties
<1> HIDE DEF r
<1>6. Len(c) \in Holding(r, c) /\ Len(c) \in Holding(r, d)
  <2>1. Len(c) \in Holding(r, c)
    BY <1>2, <1>5 DEF Holding, Asks
  <2>2. InSection(d[Len(c)])
    BY DEF Onward, InSection
  <2> QED BY <1>2, <2>1, <2>2 DEF Holding
<1>7. \A i \in 1 .. Len(c) : i # Len(c) => (InSection(d[i]) <=> InSection(c[i]))
  BY DEF Onward, InSection
<1>8. \A i \in 1 .. Len(c) : d[i].lock = c[i].lock
  BY DEF Onward
<1>9. Nested(r, d)
  BY <1>1, <1>4, <1>5, <1>6, <1>7, <1>8, NestedGoOn
<1>10. Frames(t, d)
  BY FramesOnward DEF TaskOK
<1> QED BY <1>9, <1>10 DEF TaskOK, r

(* Another task gives the lock to t. *)
LEMMA GivenOK ==
    ASSUME NEW t \in Tasks, NEW a, NEW s \in Seq(Tasks), NEW c \in Seq(Call),
           TaskOK(t, a, c, s, TRUE)
    PROVE  TaskOK(t, a, c, <<c[Len(c)].lock>> \o s, FALSE)
<1>1. c # <<>> /\ Asks(c[Len(c)]) /\ Len(c) \notin Holding(s, c) /\ Nested(s, c) /\ Frames(t, c)
  BY DEF TaskOK
<1>2. c[Len(c)].lock \notin ToSet(s)
  BY <1>1, NotHeld
<1>3. Nested(<<c[Len(c)].lock>> \o s, c)
  BY <1>1, <1>2, NestedGiven
<1> QED BY <1>3 DEF TaskOK

(* UnlockSVC: svc_ientry goes on to the handler, *)
LEMMA EnterOK ==
    ASSUME NEW t \in Tasks, NEW s \in Seq(Tasks), NEW c, NEW d,
           TaskOK(t, TRUE, c, s, FALSE), Onward(c, d, "run"),
           c[Len(c)].op = "svc", InSection(c[Len(c)])
    PROVE  TaskOK(t, TRUE, d, Tail(s), FALSE)
<1>1. c \in Seq(Call) /\ d \in Seq(Call) /\ c # <<>> /\ Len(d) = Len(c)
      /\ Nested(s, c) /\ Frames(t, c)
  BY DEF Onward, TaskOK
<1>2. Len(c) \in Nat \ {0}
  BY <1>1, DomainOf
<1>3. \A i \in 1 .. Len(c) - 1 : d[i].lock = c[i].lock /\ (InSection(d[i]) <=> InSection(c[i]))
  BY <1>2 DEF Onward, InSection
<1>4. ~Asks(d[Len(d)]) /\ ~InSection(d[Len(d)])
  BY <1>2 DEF Onward, InSection, Asks
<1>5. Nested(Tail(s), d)
  BY <1>1, <1>3, <1>4, NestedEnds
<1>6. Frames(t, d)
  BY <1>1, FramesOnward
<1> QED BY <1>5, <1>6 DEF TaskOK

(* or the call ends.                                                       *)
LEMMA EndOK ==
    ASSUME NEW t \in Tasks, NEW s \in Seq(Tasks), NEW c \in Seq(Call), NEW d,
           TaskOK(t, TRUE, c, s, FALSE), c # <<>>, InSection(c[Len(c)]),
           d = Front(c)
    PROVE  TaskOK(t, TRUE, d, Tail(s), FALSE)
<1>1. /\ d \in Seq(Call) /\ Len(d) = Len(c) - 1 /\ Len(c) \in Nat \ {0}
      /\ \A i \in 1 .. Len(c) - 1 : d[i] = c[i]
  BY FrontCalls
<1>2. Nested(s, c) /\ Frames(t, c) /\ DOMAIN c = 1 .. Len(c) /\ DOMAIN d = 1 .. Len(c) - 1
  BY <1>1, DomainOf DEF TaskOK
<1>3. ASSUME NEW i \in 1 .. Len(c) - 1
      PROVE  i \in DOMAIN c /\ i < Len(c) /\ d[i] = c[i] /\ c[i].at = "run"
  BY <1>1, <1>2 DEF Frames
<1>4. Len(d) # 0 => ~Asks(d[Len(d)])
  <2> SUFFICES ASSUME Len(d) # 0 PROVE ~Asks(d[Len(d)])
    OBVIOUS
  <2>1. Len(d) \in 1 .. Len(c) - 1
    BY <1>1
  <2> QED BY <1>3, <2>1 DEF Asks
<1>5. Len(d) # Len(c)
  BY <1>1
<1>6. Nested(Tail(s), d)
  BY <1>1, <1>2, <1>3, <1>4, <1>5, NestedEnds
<1>7. Frames(t, d)
  <2> SUFFICES ASSUME NEW i \in 1 .. Len(c) - 1
               PROVE  /\ d[i].op = "svc" => d[i].lock = t
                      /\ d[i].op = "ras" => d[i].at # "relock"
                      /\ i < Len(d) => d[i].at = "run"
                      /\ \A j \in 1 .. Len(c) - 1 :
                           j < i /\ d[j].op = "ras" => d[j].lock # d[i].lock
    BY <1>2 DEF Frames
  <2>1. /\ c[i].op = "svc" => c[i].lock = t
        /\ \A j \in DOMAIN c : j < i /\ c[j].op = "ras" => c[j].lock # c[i].lock
    BY <1>2, <1>3 DEF Frames
  <2> QED BY <1>3, <2>1
<1> QED BY <1>6, <1>7 DEF TaskOK

(* The flags BREAK_RAN do not matter. *)
LEMMA SameOK ==
    ASSUME NEW t \in Tasks, NEW a, NEW wt, NEW s \in Seq(Tasks), NEW c \in Seq(Call),
           TaskOK(t, a, c, s, wt), NEW d \in Seq(Call), Len(d) = Len(c),
           \A i \in 1 .. Len(c) : d[i].lock = c[i].lock /\ d[i].op = c[i].op
                                  /\ d[i].at = c[i].at
    PROVE  TaskOK(t, a, d, s, wt)
<1>1. DOMAIN c = 1 .. Len(c) /\ DOMAIN d = 1 .. Len(c) /\ Len(c) \in Nat /\ Len(d) = Len(c)
      /\ (c = <<>> <=> Len(c) = 0) /\ (d = <<>> <=> Len(d) = 0)
  BY PlacesOf
<1>2. Holding(s, d) = Holding(s, c)
  BY <1>1 DEF Holding, InSection
<1>3. \A i \in 1 .. Len(c) : InSection(d[i]) <=> InSection(c[i])
  BY DEF InSection
<1>4. Frames(t, d)
  <2>1. Frames(t, c)
    BY DEF TaskOK
  <2>2. ASSUME NEW i \in 1 .. Len(c)
        PROVE  /\ d[i].op = "svc" => d[i].lock = t
               /\ d[i].op = "ras" => d[i].at # "relock"
               /\ i < Len(c) => d[i].at = "run"
               /\ \A j \in 1 .. Len(c) : j < i /\ d[j].op = "ras" => d[j].lock # d[i].lock
    <3>1. /\ c[i].op = "svc" => c[i].lock = t
          /\ c[i].op = "ras" => c[i].at # "relock"
          /\ i < Len(c) => c[i].at = "run"
          /\ \A j \in 1 .. Len(c) : j < i /\ c[j].op = "ras" => c[j].lock # c[i].lock
      BY <1>1, <2>1, <2>2 DEF Frames
    <3>2. /\ d[i].lock = c[i].lock /\ d[i].op = c[i].op /\ d[i].at = c[i].at
          /\ \A j \in 1 .. Len(c) : d[j].lock = c[j].lock /\ d[j].op = c[j].op
      BY <2>2
    <3> QED BY <3>1, <3>2, Zenon
  <2> QED BY <1>1, <2>2, Zenon DEF Frames
<1>5. Nested(s, d)
  BY <1>2, <1>3, NestedGoOn DEF TaskOK
<1>6. wt => d # <<>> /\ Asks(d[Len(d)]) /\ Len(d) \notin Holding(s, d)
  <2> SUFFICES ASSUME wt PROVE d # <<>> /\ Asks(d[Len(d)]) /\ Len(d) \notin Holding(s, d)
    OBVIOUS
  <2>1. c # <<>> /\ Asks(c[Len(c)]) /\ Len(c) \notin Holding(s, c)
    BY DEF TaskOK
  <2>2. Len(c) \in 1 .. Len(c)
    BY <1>1, <2>1
  <2> QED BY <1>1, <1>2, <2>1, <2>2 DEF Asks
<1>7. ~a => d = <<>>
  BY <1>1 DEF TaskOK
<1> QED BY <1>4, <1>5, <1>6, <1>7 DEF TaskOK

LEMMA EmptyOK ==
    ASSUME NEW t, NEW a
    PROVE  TaskOK(t, a, <<>>, <<>>, FALSE)
<1>1. Frames(t, <<>>)
  BY DEF Frames
<1> QED BY <1>1, NestedEmpty DEF TaskOK

-----------------------------------------------------------------------------
(* The lock that each task waits for, if it waits. *)
Wants == [t \in Tasks |-> Innermost(t).lock]

TaskInv == \A t \in Tasks : TaskOK(t, alive[t], calls[t], svclocked[t], klockwait[t])

IInv ==
    /\ TypeOK
    /\ RecordOK(Locks, Wants)
    /\ TaskInv

LEMMA InvParts ==
    ASSUME IInv
    PROVE  /\ alive \in [Tasks -> BOOLEAN] /\ calls \in [Tasks -> Seq(Call)]
           /\ svclocked \in [Tasks -> Seq(Tasks)] /\ taken \in [Tasks -> BOOLEAN]
           /\ wtskq \in [Tasks -> Seq(Tasks)] /\ klockwait \in [Tasks -> BOOLEAN]
           /\ LocksOK(svclocked, taken, wtskq, klockwait, Wants)
           /\ \A t \in Tasks : TaskOK(t, alive[t], calls[t], svclocked[t], klockwait[t])
           /\ \A t \in Tasks : Wants[t] = calls[t][Len(calls[t])].lock
  BY InnermostIs DEF IInv, TypeOK, RecordOK, Locks, TaskInv, Wants

LEMMA InvFrom ==
    ASSUME alive' \in [Tasks -> BOOLEAN], calls' \in [Tasks -> Seq(Call)],
           LocksOK(svclocked', taken', wtskq', klockwait', Wants'), TaskInv'
    PROVE  IInv'
  BY DEF IInv, TypeOK, RecordOK, LockRecord, Locks, LocksOK

(* A step of t that gives locks to some of the tasks that wait. *)
LEMMA Step ==
    ASSUME IInv, NEW t \in Tasks,
           calls' = [calls EXCEPT ![t] = calls'[t]], calls'[t] \in Seq(Call),
           alive' \in [Tasks -> BOOLEAN],
           \A u \in Tasks : u # t => alive'[u] = alive[u],
           LocksOK(svclocked', taken', wtskq', klockwait', Wants),
           klockwait'[t] => calls'[t] = calls[t],
           \A u \in Tasks : u # t =>
               \/ svclocked'[u] = svclocked[u] /\ klockwait'[u] = klockwait[u]
               \/ klockwait[u] /\ ~klockwait'[u] /\ svclocked'[u] = <<Wants[u]>> \o svclocked[u],
           TaskOK(t, alive'[t], calls'[t], svclocked'[t], klockwait'[t])
    PROVE  IInv'
<1>1. calls' \in [Tasks -> Seq(Call)] /\ \A u \in Tasks : u # t => calls'[u] = calls[u]
  BY InvParts
<1>2. \A u \in Tasks : klockwait'[u] => Wants'[u] = Wants[u]
  <2> SUFFICES ASSUME NEW u \in Tasks, klockwait'[u] PROVE Wants'[u] = Wants[u]
    OBVIOUS
  <2>1. calls'[u] = calls[u]
    BY <1>1
  <2> QED BY <2>1 DEF Wants, Innermost
<1>3. LocksOK(svclocked', taken', wtskq', klockwait', Wants')
  BY <1>2, SameWaits
<1>4. ASSUME NEW u \in Tasks, u # t
      PROVE  TaskOK(u, alive'[u], calls'[u], svclocked'[u], klockwait'[u])
  <2>1. /\ calls'[u] = calls[u] /\ alive'[u] = alive[u]
        /\ TaskOK(u, alive[u], calls[u], svclocked[u], klockwait[u])
        /\ calls[u] \in Seq(Call) /\ svclocked[u] \in Seq(Tasks)
        /\ klockwait[u] \in BOOLEAN /\ klockwait'[u] \in BOOLEAN
        /\ Wants[u] = calls[u][Len(calls[u])].lock
    BY <1>1, <1>3, <1>4, InvParts DEF LocksOK
  <2>2. CASE svclocked'[u] = svclocked[u] /\ klockwait'[u] = klockwait[u]
    BY <2>1, <2>2
  <2>3. CASE klockwait[u] /\ ~klockwait'[u] /\ svclocked'[u] = <<Wants[u]>> \o svclocked[u]
    <3>1. klockwait[u] = TRUE /\ klockwait'[u] = FALSE
      BY <2>1, <2>3
    <3>2. TaskOK(u, alive[u], calls[u], <<Wants[u]>> \o svclocked[u], FALSE)
      BY <2>1, <3>1, GivenOK
    <3> QED BY <2>1, <2>3, <3>1, <3>2
  <2> QED BY <1>4, <2>2, <2>3
<1>5. TaskInv'
  BY <1>4 DEF TaskInv
<1> QED BY <1>1, <1>3, <1>5, InvFrom

LEMMA GoToIs ==
    ASSUME IInv, NEW t \in Tasks, calls[t] # <<>>, NEW step \in Places, GoTo(t, step)
    PROVE  /\ calls' = [calls EXCEPT ![t] = calls'[t]] /\ calls'[t] \in Seq(Call)
           /\ Onward(calls[t], calls'[t], step)
<1> DEFINE c == calls[t]
           d == [c EXCEPT ![Len(c)].at = step]
<1>1. calls \in [Tasks -> Seq(Call)] /\ c \in Seq(Call) /\ c # <<>>
  BY InvParts
<1>2. calls' = [calls EXCEPT ![t] = d] /\ calls'[t] = d
  BY <1>1 DEF GoTo
<1>3. Onward(c, d, step)
  <2> HIDE DEF c
  <2> QED BY <1>1, GoToCalls
<1>4. d \in Seq(Call)
  BY <1>3 DEF Onward
<1> QED BY <1>2, <1>3, <1>4

-----------------------------------------------------------------------------
(* The innermost call of a task is somewhere. *)
LEMMA AtIs ==
    ASSUME IInv, NEW t \in Tasks, NEW step, At(t, step)
    PROVE  /\ calls[t] \in Seq(Call) /\ calls[t] # <<>>
           /\ Len(calls[t]) \in Nat \ {0} /\ Len(calls[t]) \in DOMAIN calls[t]
           /\ calls[t][Len(calls[t])].at = step /\ Innermost(t) = calls[t][Len(calls[t])]
           /\ calls[t][Len(calls[t])] \in Call /\ calls[t][Len(calls[t])].lock \in Tasks
<1>1. calls[t] \in Seq(Call) /\ calls[t] # <<>>
  BY InvParts DEF At
<1>2. Len(calls[t]) \in Nat \ {0} /\ Len(calls[t]) \in DOMAIN calls[t]
      /\ calls[t][Len(calls[t])] \in Call
  BY <1>1, PlacesOf
<1>3. Innermost(t) = calls[t][Len(calls[t])]
  BY InvParts, InnermostIs
<1> QED BY <1>1, <1>2, <1>3 DEF At, Call

LEMMA RunningIs ==
    ASSUME IInv, NEW t \in Tasks, Running(t)
    PROVE  /\ klockwait[t] = FALSE /\ alive[t] = TRUE
           /\ TaskOK(t, TRUE, calls[t], svclocked[t], FALSE)
<1>1. klockwait[t] = FALSE /\ alive[t] = TRUE
  BY InvParts DEF Running
<1> QED BY <1>1, InvParts

LEMMA BeginKeeps ==
    ASSUME IInv, ~MayReenter, NEW t \in Tasks, NEW op \in {"svc", "ras"},
           NEW lock \in Tasks, op = "svc" => lock = t, Begin(t, op, lock)
    PROVE  IInv'
<1> DEFINE r == [op |-> op, lock |-> lock, at |-> "lock", broken |-> FALSE]
           c == calls[t]
<1>1. /\ Running(t) /\ (c = <<>> \/ c[Len(c)].at = "run")
      /\ lock \notin ToSet(svclocked[t])
      /\ calls' = [calls EXCEPT ![t] = Append(c, r)]
      /\ UNCHANGED <<alive, svclocked, taken, wtskq, klockwait>>
  BY AtIs DEF Begin, CanCall
<1>2. r \in Call /\ r.at = "lock" /\ r.lock = lock /\ r.op = op
  BY DEF Call, Places
<1> HIDE DEF r
<1>3. /\ calls \in [Tasks -> Seq(Call)] /\ c \in Seq(Call) /\ svclocked[t] \in Seq(Tasks)
      /\ TaskOK(t, TRUE, c, svclocked[t], FALSE)
      /\ klockwait[t] = FALSE /\ alive[t] = TRUE
  <2>1. calls \in [Tasks -> Seq(Call)] /\ svclocked[t] \in Seq(Tasks)
    BY InvParts
  <2>2. c \in Seq(Call)
    BY <2>1
  <2>3. TaskOK(t, TRUE, c, svclocked[t], FALSE) /\ klockwait[t] = FALSE /\ alive[t] = TRUE
    BY <1>1, RunningIs
  <2> QED BY <2>1, <2>2, <2>3
<1>4. calls'[t] = Append(c, r) /\ calls' = [calls EXCEPT ![t] = calls'[t]]
  BY <1>1, <1>3
<1>5. calls'[t] \in Seq(Call)
  BY <1>2, <1>3, <1>4, BeginCalls
<1>6. TaskOK(t, TRUE, calls'[t], svclocked[t], FALSE)
  <2> HIDE DEF c
  <2> QED BY <1>1, <1>2, <1>3, <1>4, BeginOK
<1>7. LocksOK(svclocked', taken', wtskq', klockwait', Wants)
  BY <1>1, InvParts
<1> QED BY <1>1, <1>3, <1>4, <1>5, <1>6, <1>7, InvParts, Step

LEMMA OnwardKeeps ==
    ASSUME IInv, NEW t \in Tasks, NEW step \in Places, Running(t), calls[t] # <<>>,
           GoTo(t, step), Innermost(t).op = "ras" => step # "relock",
           Len(calls[t]) \in Holding(svclocked[t], calls'[t])
             <=> Len(calls[t]) \in Holding(svclocked[t], calls[t]),
           UNCHANGED <<alive, svclocked, taken, wtskq, klockwait>>
    PROVE  IInv'
<1>1. /\ svclocked[t] \in Seq(Tasks) /\ calls[t] \in Seq(Call)
      /\ TaskOK(t, TRUE, calls[t], svclocked[t], FALSE)
      /\ klockwait[t] = FALSE /\ alive[t] = TRUE
      /\ Innermost(t) = calls[t][Len(calls[t])]
  BY InvParts, RunningIs, InnermostIs
<1>2. /\ calls' = [calls EXCEPT ![t] = calls'[t]] /\ calls'[t] \in Seq(Call)
      /\ Onward(calls[t], calls'[t], step)
  BY GoToIs
<1>3. TaskOK(t, TRUE, calls'[t], svclocked[t], FALSE)
  BY <1>1, <1>2, OnwardOK
<1>4. LocksOK(svclocked', taken', wtskq', klockwait', Wants)
  BY InvParts
<1> QED BY <1>1, <1>2, <1>3, <1>4, InvParts, Step

LEMMA LockSVCKeeps ==
    ASSUME IInv, NEW t \in Tasks, LockSVC(t)
    PROVE  IInv'
<1> DEFINE n == Len(calls[t])
           lock == Innermost(t).lock
           step == IF At(t, "lock") THEN "locked" ELSE "unlock"
<1>1. /\ Running(t) /\ (At(t, "lock") \/ At(t, "relock")) /\ alive' = alive
      /\ \/ /\ HasLock(t, lock) /\ Locked(t)
            /\ UNCHANGED <<svclocked, taken, wtskq, klockwait>>
         \/ TakeLock(t, lock)
         \/ QueueForLock(t, lock)
  BY DEF LockSVC
<1>2. /\ calls[t] \in Seq(Call) /\ calls[t] # <<>> /\ n \in Nat \ {0}
      /\ n \in DOMAIN calls[t] /\ Asks(calls[t][n]) /\ Innermost(t) = calls[t][n]
      /\ lock \in Tasks /\ lock = calls[t][n].lock
  BY <1>1, AtIs DEF Asks
<1>3. /\ klockwait[t] = FALSE /\ alive[t] = TRUE
      /\ TaskOK(t, TRUE, calls[t], svclocked[t], FALSE)
  BY <1>1, RunningIs
<1>4. /\ alive \in [Tasks -> BOOLEAN] /\ calls \in [Tasks -> Seq(Call)]
      /\ svclocked \in [Tasks -> Seq(Tasks)] /\ svclocked[t] \in Seq(Tasks)
      /\ taken \in [Tasks -> BOOLEAN]
      /\ wtskq \in [Tasks -> Seq(Tasks)] /\ klockwait \in [Tasks -> BOOLEAN]
      /\ LocksOK(svclocked, taken, wtskq, klockwait, Wants)
      /\ Wants[t] = lock
  BY <1>2, InvParts
<1>5. step \in Places /\ step \in {"locked", "unlock"}
  BY DEF Places
<1>6. ASSUME Locked(t)
      PROVE  /\ calls' = [calls EXCEPT ![t] = calls'[t]] /\ calls'[t] \in Seq(Call)
             /\ Onward(calls[t], calls'[t], step) /\ GoTo(t, step)
  <2>1. GoTo(t, step)
    BY <1>6 DEF Locked
  <2> HIDE DEF step
  <2> QED BY <1>2, <1>5, <2>1, GoToIs
<1> HIDE DEF lock, step
<1>7. CASE HasLock(t, lock) /\ Locked(t) /\ UNCHANGED <<svclocked, taken, wtskq, klockwait>>
  <2>1. n \in Holding(svclocked[t], calls[t])
    BY <1>2, <1>7 DEF HasLock, Holding, Asks
  <2>2. n \in Holding(svclocked[t], calls'[t])
    <3>1. calls'[t][n].at = step /\ Len(calls'[t]) = n /\ calls'[t] \in Seq(Call)
      BY <1>6, <1>7 DEF Onward
    <3>2. n \in DOMAIN calls'[t]
      BY <1>2, <3>1, DomainOf
    <3> QED BY <1>5, <3>1, <3>2 DEF Holding, InSection
  <2>3. step # "relock"
    BY <1>5
  <2> QED BY <1>1, <1>2, <1>5, <1>6, <1>7, <2>1, <2>2, <2>3, OnwardKeeps
<1>8. CASE TakeLock(t, lock)
  <2>1. /\ ~taken[lock] /\ taken' = [taken EXCEPT ![lock] = TRUE]
        /\ svclocked' = [svclocked EXCEPT ![t] = <<lock>> \o svclocked[t]]
        /\ Locked(t) /\ wtskq' = wtskq /\ klockwait' = klockwait
    BY <1>8 DEF TakeLock
  <2>2. lock \notin ToSet(svclocked[t])
    BY <1>2, <1>4, <2>1 DEF LocksOK
  <2>3. LocksOK(svclocked', taken', wtskq', klockwait', Wants)
    BY <1>2, <1>4, <2>1, TakeLocks
  <2>4. /\ svclocked'[t] = <<lock>> \o svclocked[t]
        /\ \A u \in Tasks : u # t => svclocked'[u] = svclocked[u]
    BY <1>4, <2>1
  <2>5. TaskOK(t, TRUE, calls'[t], svclocked'[t], FALSE)
    <3> DEFINE c == calls[t]
               s == svclocked[t]
    <3>1. Onward(c, calls'[t], step)
      BY <1>6, <2>1
    <3>2. /\ s \in Seq(Tasks) /\ TaskOK(t, TRUE, c, s, FALSE) /\ Asks(c[Len(c)])
          /\ lock = c[Len(c)].lock /\ lock \notin ToSet(s)
          /\ svclocked'[t] = <<lock>> \o s
      BY <1>2, <1>3, <1>4, <2>2, <2>4
    <3> HIDE DEF c, s
    <3> QED BY <1>5, <3>1, <3>2, TakeOK
  <2>6. /\ calls' = [calls EXCEPT ![t] = calls'[t]] /\ calls'[t] \in Seq(Call)
        /\ alive' \in [Tasks -> BOOLEAN] /\ \A u \in Tasks : alive'[u] = alive[u]
        /\ klockwait'[t] = FALSE /\ alive'[t] = TRUE
    BY <1>1, <1>3, <1>4, <1>6, <2>1
  <2>7. \A u \in Tasks : u # t =>
            svclocked'[u] = svclocked[u] /\ klockwait'[u] = klockwait[u]
    BY <2>1, <2>4
  <2>8. TaskOK(t, alive'[t], calls'[t], svclocked'[t], klockwait'[t])
    BY <2>5, <2>6
  <2> QED BY <2>3, <2>6, <2>7, <2>8, Step
<1>9. CASE QueueForLock(t, lock)
  <2>1. /\ ~HasLock(t, lock) /\ taken[lock]
        /\ klockwait' = [klockwait EXCEPT ![t] = TRUE]
        /\ wtskq' = [wtskq EXCEPT ![lock] = Append(wtskq[lock], t)]
        /\ UNCHANGED <<calls, svclocked, taken>>
    BY <1>9 DEF QueueForLock
  <2>2. LocksOK(svclocked', taken', wtskq', klockwait', Wants)
    BY <1>2, <1>3, <1>4, <2>1, QueueLocks
  <2>3. klockwait'[t] = TRUE /\ \A u \in Tasks : u # t => klockwait'[u] = klockwait[u]
    BY <1>4, <2>1
  <2>4. n \notin Holding(svclocked[t], calls[t])
    BY <1>2, <2>1 DEF Holding, HasLock, InSection, Asks
  <2>5. TaskOK(t, TRUE, calls[t], svclocked[t], TRUE)
    BY <1>2, <1>3, <2>4 DEF TaskOK
  <2>6. calls' = [calls EXCEPT ![t] = calls'[t]] /\ calls'[t] = calls[t]
    BY <1>4, <2>1
  <2> QED BY <1>1, <1>2, <1>3, <1>4, <2>1, <2>2, <2>3, <2>5, <2>6, Step
<1> QED BY <1>1, <1>7, <1>8, <1>9

LEMMA DisturbKeeps ==
    ASSUME IInv, NEW t \in Tasks, Disturb(t)
    PROVE  IInv'
<1>1. /\ klockwait[t] /\ klockwait' = [klockwait EXCEPT ![t] = FALSE]
      /\ wtskq' = Left(wtskq, t) /\ UNCHANGED <<alive, calls, svclocked, taken>>
  BY DEF Disturb
<1>2. /\ alive \in [Tasks -> BOOLEAN] /\ calls \in [Tasks -> Seq(Call)]
      /\ klockwait \in [Tasks -> BOOLEAN]
      /\ LocksOK(svclocked, taken, wtskq, klockwait, Wants)
      /\ TaskOK(t, alive[t], calls[t], svclocked[t], klockwait[t])
  BY InvParts
<1>3. LocksOK(svclocked', taken', wtskq', klockwait', Wants)
  BY <1>1, <1>2, LeftLocks
<1>4. klockwait'[t] = FALSE /\ \A u \in Tasks : u # t => klockwait'[u] = klockwait[u]
  BY <1>1, <1>2
<1>5. TaskOK(t, alive[t], calls[t], svclocked[t], FALSE)
  BY <1>2 DEF TaskOK
<1>6. calls' = [calls EXCEPT ![t] = calls'[t]] /\ calls'[t] = calls[t] /\ calls'[t] \in Seq(Call)
  BY <1>1, <1>2
<1> QED BY <1>1, <1>2, <1>3, <1>4, <1>5, <1>6, Step

-----------------------------------------------------------------------------
(* UnlockSVC in a section: the lock of the section is the first of t. *)
LEMMA SectionLock ==
    ASSUME IInv, NEW t \in Tasks, calls[t] # <<>>, InSection(Innermost(t))
    PROVE  svclocked[t] # <<>> /\ Head(svclocked[t]) = Innermost(t).lock
           /\ Innermost(t).lock \in ToSet(svclocked[t])
<1>1. /\ calls[t] \in Seq(Call) /\ svclocked[t] \in Seq(Tasks)
      /\ Nested(svclocked[t], calls[t]) /\ Innermost(t) = calls[t][Len(calls[t])]
  BY InvParts, InnermostIs DEF TaskOK
<1>2. svclocked[t] # <<>> /\ Head(svclocked[t]) = Innermost(t).lock
  BY <1>1, NestedEnds
<1>3. Len(svclocked[t]) \in Nat \ {0} /\ Head(svclocked[t]) = svclocked[t][1]
  BY <1>1, <1>2, PlacesOf, HeadTailProperties
<1>4. Head(svclocked[t]) \in ToSet(svclocked[t])
  BY <1>1, <1>3, PlacesOf
<1> QED BY <1>2, <1>4

LEMMA UnlockIs ==
    ASSUME IInv, NEW t \in Tasks, Running(t), Unlock(t)
    PROVE  /\ LocksOK(svclocked', taken', wtskq', klockwait', Wants)
           /\ svclocked'[t] = Tail(svclocked[t]) /\ klockwait'[t] = FALSE
           /\ \A u \in Tasks : u # t =>
               \/ svclocked'[u] = svclocked[u] /\ klockwait'[u] = klockwait[u]
               \/ klockwait[u] /\ ~klockwait'[u] /\ svclocked'[u] = <<Wants[u]>> \o svclocked[u]
<1> DEFINE k == Locks
           g == GiveUp(k, t)
<1>1. /\ k.list = svclocked /\ k.taken = taken /\ k.queue = wtskq /\ k.wait = klockwait
      /\ RecordOK(k, Wants)
  BY DEF Locks, IInv
<1>2. ~k.wait[t] /\ k.list[t] # <<>>
  BY <1>1 DEF Running, Unlock
<1>3. svclocked' = g.list /\ taken' = g.taken /\ wtskq' = g.queue /\ klockwait' = g.wait
  BY DEF Unlock, Become
<1> HIDE DEF k
<1>4. /\ RecordOK(g, Wants) /\ g.list[t] = Tail(k.list[t]) /\ ~g.wait[t]
      /\ \A u \in Tasks : u # t => LeftOrGiven(k, g, Wants, u)
  BY <1>1, <1>2, GiveUpLocks
<1> HIDE DEF g
<1>5. klockwait' \in [Tasks -> BOOLEAN]
  BY <1>3, <1>4 DEF RecordOK, LockRecord
<1> QED BY <1>1, <1>3, <1>4, <1>5 DEF RecordOK, LeftOrGiven

LEMMA EnterHandlerKeeps ==
    ASSUME IInv, NEW t \in Tasks, EnterHandler(t)
    PROVE  IInv'
<1>1. /\ Running(t) /\ At(t, "locked") /\ Innermost(t).op = "svc" /\ Unlock(t)
      /\ GoTo(t, "run") \/ EndCall(t)
      /\ alive' = alive
  BY DEF EnterHandler
<1>2. /\ calls[t] \in Seq(Call) /\ calls[t] # <<>>
      /\ Innermost(t) = calls[t][Len(calls[t])] /\ InSection(calls[t][Len(calls[t])])
  BY <1>1, AtIs DEF InSection
<1>3. /\ alive[t] = TRUE /\ TaskOK(t, TRUE, calls[t], svclocked[t], FALSE)
      /\ svclocked[t] \in Seq(Tasks)
      /\ alive \in [Tasks -> BOOLEAN] /\ calls \in [Tasks -> Seq(Call)]
  BY <1>1, RunningIs, InvParts
<1>4. /\ calls' = [calls EXCEPT ![t] = calls'[t]] /\ calls'[t] \in Seq(Call)
      /\ TaskOK(t, TRUE, calls'[t], Tail(svclocked[t]), FALSE)
  <2>1. CASE GoTo(t, "run")
    <3>1. /\ calls' = [calls EXCEPT ![t] = calls'[t]] /\ calls'[t] \in Seq(Call)
          /\ Onward(calls[t], calls'[t], "run")
      <4>1. "run" \in Places
        BY DEF Places
      <4> QED BY <1>2, <2>1, <4>1, GoToIs
    <3> QED BY <1>1, <1>2, <1>3, <3>1, EnterOK
  <2>2. CASE EndCall(t)
    <3>1. calls' = [calls EXCEPT ![t] = calls'[t]] /\ calls'[t] = Front(calls[t])
      BY <1>3, <2>2 DEF EndCall
    <3> QED BY <1>2, <1>3, <3>1, EndOK, FrontCalls
  <2> QED BY <1>1, <2>1, <2>2
<1> QED BY <1>1, <1>3, <1>4, UnlockIs, Step

LEMMA ReturnKeeps ==
    ASSUME IInv, NEW t \in Tasks, Return(t)
    PROVE  IInv'
<1>1. Running(t) /\ At(t, "unlock") /\ Unlock(t) /\ EndCall(t) /\ alive' = alive
  BY DEF Return
<1>2. /\ calls[t] \in Seq(Call) /\ calls[t] # <<>>
      /\ Innermost(t) = calls[t][Len(calls[t])] /\ InSection(calls[t][Len(calls[t])])
  BY <1>1, AtIs DEF InSection
<1>3. /\ alive[t] = TRUE /\ TaskOK(t, TRUE, calls[t], svclocked[t], FALSE)
      /\ svclocked[t] \in Seq(Tasks)
      /\ alive \in [Tasks -> BOOLEAN] /\ calls \in [Tasks -> Seq(Call)]
  BY <1>1, RunningIs, InvParts
<1>4. /\ calls' = [calls EXCEPT ![t] = calls'[t]] /\ calls'[t] \in Seq(Call)
      /\ TaskOK(t, TRUE, calls'[t], Tail(svclocked[t]), FALSE)
  <2>1. calls' = [calls EXCEPT ![t] = calls'[t]] /\ calls'[t] = Front(calls[t])
    BY <1>1, <1>3 DEF EndCall
  <2> QED BY <1>2, <1>3, <2>1, EndOK, FrontCalls
<1> QED BY <1>1, <1>3, <1>4, UnlockIs, Step

LEMMA LeaveHandlerKeeps ==
    ASSUME IInv, NEW t \in Tasks, LeaveHandler(t)
    PROVE  IInv'
<1> DEFINE n == Len(calls[t])
<1>1. /\ Running(t) /\ At(t, "run") /\ Innermost(t).op = "svc" /\ GoTo(t, "relock")
      /\ UNCHANGED <<alive, svclocked, taken, wtskq, klockwait>>
  BY DEF LeaveHandler
<1>2. /\ calls[t] \in Seq(Call) /\ calls[t] # <<>> /\ svclocked[t] \in Seq(Tasks)
      /\ n \in Nat \ {0} /\ n \in DOMAIN calls[t]
      /\ Innermost(t) = calls[t][n] /\ calls[t][n].at = "run" /\ calls[t][n].op = "svc"
      /\ Nested(svclocked[t], calls[t]) /\ Frames(t, calls[t])
      /\ "relock" \in Places
  BY <1>1, AtIs, InvParts DEF TaskOK, Places
<1>3. n \notin Holding(svclocked[t], calls[t])
  BY <1>2 DEF Holding, InSection
<1>4. calls[t][n].lock \notin ToSet(svclocked[t])
  BY <1>2, <1>3, NotHeld
<1>5. svclocked[t] # <<>> => Head(svclocked[t]) # calls[t][n].lock
  BY <1>2, <1>4, PlacesOf
<1>6. Onward(calls[t], calls'[t], "relock")
  BY <1>1, <1>2, GoToIs
<1>7. calls'[t][n].at = "relock" /\ calls'[t][n].lock = calls[t][n].lock
  BY <1>2, <1>6, DomainOf DEF Onward
<1>8. n \notin Holding(svclocked[t], calls'[t])
  BY <1>5, <1>7 DEF Holding, InSection
<1> QED BY <1>1, <1>2, <1>3, <1>8, OnwardKeeps

LEMMA RaisedKeeps ==
    ASSUME IInv, NEW t \in Tasks, Raised(t)
    PROVE  IInv'
<1> DEFINE n == Len(calls[t])
<1>1. /\ Running(t) /\ Innermost(t).op = "ras" /\ GoTo(t, "unlock")
      /\ At(t, "locked") \/ At(t, "run")
      /\ UNCHANGED <<alive, svclocked, taken, wtskq, klockwait>>
  BY DEF Raised
<1>2. /\ calls[t] \in Seq(Call) /\ calls[t] # <<>>
      /\ n \in Nat \ {0} /\ n \in DOMAIN calls[t]
      /\ Innermost(t) = calls[t][n] /\ InSection(calls[t][n])
      /\ "unlock" \in Places
  BY <1>1, AtIs DEF InSection, Places
<1>3. n \in Holding(svclocked[t], calls[t])
  BY <1>2 DEF Holding
<1>4. Onward(calls[t], calls'[t], "unlock")
  BY <1>1, <1>2, GoToIs
<1>5. n \in DOMAIN calls'[t] /\ InSection(calls'[t][n])
  BY <1>2, <1>4, DomainOf DEF Onward, InSection
<1>6. n \in Holding(svclocked[t], calls'[t])
  BY <1>5 DEF Holding
<1> QED BY <1>1, <1>2, <1>3, <1>6, OnwardKeeps

-----------------------------------------------------------------------------
(* The innermost call of u that a break function may break *)
LEMMA InterruptibleMax ==
    ASSUME NEW u \in Tasks, calls[u] \in Seq(Call), Interruptible(u) # {}
    PROVE  Max(Interruptible(u)) \in Interruptible(u)
<1>1. DOMAIN calls[u] = 1 .. Len(calls[u]) /\ Len(calls[u]) \in Nat
  BY DomainOf
<1>2. Interruptible(u) \in SUBSET (0 .. Len(calls[u]))
  BY <1>1 DEF Interruptible
<1> QED BY <1>1, <1>2, GreatestElement

(* The flag of one call is set. *)
MarkedBroken(c, m, d) == d = [c EXCEPT ![m].broken = TRUE]

LEMMA BrokenCalls ==
    ASSUME NEW c \in Seq(Call), NEW m \in DOMAIN c,
           NEW d, MarkedBroken(c, m, d)
    PROVE  /\ d \in Seq(Call) /\ Len(d) = Len(c) /\ d[m].broken = TRUE
           /\ \A i \in 1 .. Len(c) :
                /\ d[i].lock = c[i].lock /\ d[i].op = c[i].op
                /\ d[i].at = c[i].at /\ (c[i].broken => d[i].broken)
<1> DEFINE r == [c[m] EXCEPT !.broken = TRUE]
<1>1. m \in 1 .. Len(c) /\ DOMAIN c = 1 .. Len(c) /\ c[m] \in Call
  BY PlacesOf
<1>2. d = [c EXCEPT ![m] = r]
  BY DEF MarkedBroken
<1>3. /\ r \in Call /\ r.broken = TRUE
      /\ r.lock = c[m].lock /\ r.op = c[m].op /\ r.at = c[m].at
  BY <1>1 DEF Call
<1> HIDE DEF r
<1>4. d \in Seq(Call) /\ Len(d) = Len(c)
  BY <1>1, <1>2, <1>3, ExceptSeq
<1>5. d[m] = r /\ \A i \in 1 .. Len(c) : i # m => d[i] = c[i]
  BY <1>1, <1>2
<1>6. \A i \in 1 .. Len(c) : d[i].lock = c[i].lock /\ d[i].op = c[i].op
                             /\ d[i].at = c[i].at /\ (c[i].broken => d[i].broken)
  BY <1>3, <1>5
<1>7. d[m].broken = TRUE
  BY <1>3, <1>5
<1> QED BY <1>4, <1>6, <1>7

(* The calls d are c, some of them broken. *)
Alike(c, d) ==
    /\ Len(d) = Len(c)
    /\ \A i \in 1 .. Len(c) :
         /\ d[i].lock = c[i].lock /\ d[i].op = c[i].op /\ d[i].at = c[i].at
         /\ c[i].broken => d[i].broken

(* What call_brkhdr does to the calls of each task *)
LEMMA BreakIs ==
    ASSUME IInv, NEW t \in Tasks, call_brkhdr(t)
    PROVE  \E mid \in [Tasks -> Seq(Call)] :
             /\ mid[Innermost(t).lock][Max(Interruptible(Innermost(t).lock))].broken = TRUE
             /\ \A v \in Tasks : /\ Alike(calls[v], mid[v])
                                 /\ v # t => calls'[v] = mid[v]
                                 /\ v # Innermost(t).lock => mid[v] = calls[v]
             /\ calls' \in [Tasks -> Seq(Call)] /\ Onward(mid[t], calls'[t], "run")
<1> DEFINE u == Innermost(t).lock
           m == Max(Interruptible(u))
           mid == [calls EXCEPT ![u][m].broken = TRUE]
           n == Len(calls[t])
<1>1. /\ At(t, "locked") /\ MayBreak(u)
      /\ calls' = [mid EXCEPT ![t][n].at = "run"]
  BY DEF call_brkhdr
<1>2. /\ calls[t] \in Seq(Call) /\ calls[t] # <<>> /\ n \in Nat \ {0} /\ u \in Tasks
  BY <1>1, AtIs
<1>3. calls \in [Tasks -> Seq(Call)] /\ calls[u] \in Seq(Call)
  BY <1>2, InvParts
<1> HIDE DEF u
<1>4. m \in DOMAIN calls[u]
  BY <1>1, <1>2, <1>3, InterruptibleMax DEF MayBreak, Interruptible
<1> HIDE DEF m
<1> DEFINE c == calls[u]
           b == [c EXCEPT ![m].broken = TRUE]
<1>5. /\ b \in Seq(Call) /\ Len(b) = Len(calls[u]) /\ b[m].broken = TRUE
      /\ \A i \in 1 .. Len(calls[u]) :
           /\ b[i].lock = calls[u][i].lock /\ b[i].op = calls[u][i].op
           /\ b[i].at = calls[u][i].at /\ (calls[u][i].broken => b[i].broken)
  <2>1. c \in Seq(Call) /\ m \in DOMAIN c
    BY <1>3, <1>4
  <2>2. MarkedBroken(c, m, b)
    BY DEF MarkedBroken
  <2> HIDE DEF b, c
  <2>3. /\ b \in Seq(Call) /\ Len(b) = Len(c) /\ b[m].broken = TRUE
        /\ \A i \in 1 .. Len(c) :
             /\ b[i].lock = c[i].lock /\ b[i].op = c[i].op
             /\ b[i].at = c[i].at /\ (c[i].broken => b[i].broken)
    BY <2>1, <2>2, BrokenCalls
  <2> QED BY <2>3 DEF c
<1>6. mid = [calls EXCEPT ![u] = b]
  OBVIOUS
<1> HIDE DEF b, mid
<1>7. /\ mid \in [Tasks -> Seq(Call)] /\ mid[u] = b
      /\ \A v \in Tasks : v # u => mid[v] = calls[v]
  BY <1>2, <1>3, <1>5, <1>6
<1>8. ASSUME NEW v \in Tasks
      PROVE  /\ Len(mid[v]) = Len(calls[v])
             /\ \A i \in 1 .. Len(calls[v]) :
                  /\ mid[v][i].lock = calls[v][i].lock
                  /\ mid[v][i].op = calls[v][i].op
                  /\ mid[v][i].at = calls[v][i].at
                  /\ calls[v][i].broken => mid[v][i].broken
  <2>1. CASE v = u
    BY <1>5, <1>7, <2>1
  <2>2. CASE v # u
    BY <1>7, <2>2
  <2> QED BY <2>1, <2>2
<1>9. mid[t] \in Seq(Call) /\ mid[t] # <<>> /\ Len(mid[t]) = n
  <2>1. mid[t] \in Seq(Call) /\ Len(mid[t]) = n
    BY <1>7, <1>8
  <2> QED BY <1>2, <2>1, PlacesOf
<1> DEFINE d == [mid[t] EXCEPT ![n].at = "run"]
<1>10. calls' = [mid EXCEPT ![t] = d]
  BY <1>1
<1>11. Onward(mid[t], d, "run")
  <2>1. "run" \in Places
    BY DEF Places
  <2>2. Onward(mid[t], [mid[t] EXCEPT ![Len(mid[t])].at = "run"], "run")
    BY <1>9, <2>1, GoToCalls
  <2> QED BY <1>9, <2>2
<1>12. d \in Seq(Call)
  BY <1>11 DEF Onward
<1> HIDE DEF d
<1>13. /\ calls' \in [Tasks -> Seq(Call)] /\ calls'[t] = d
       /\ \A v \in Tasks : v # t => calls'[v] = mid[v]
  BY <1>7, <1>10, <1>12
<1> QED BY <1>5, <1>7, <1>8, <1>11, <1>13 DEF u, m, Alike

LEMMA call_brkhdrKeeps ==
    ASSUME IInv, NEW t \in Tasks, call_brkhdr(t)
    PROVE  IInv'
<1> DEFINE n == Len(calls[t])
<1>1. /\ Running(t) /\ At(t, "locked") /\ Innermost(t).op = "ras"
      /\ UNCHANGED <<alive, svclocked, taken, wtskq, klockwait>>
  BY DEF call_brkhdr
<1>2. PICK mid \in [Tasks -> Seq(Call)] :
        /\ mid[Innermost(t).lock][Max(Interruptible(Innermost(t).lock))].broken = TRUE
        /\ \A v \in Tasks : /\ Alike(calls[v], mid[v])
                            /\ v # t => calls'[v] = mid[v]
                            /\ v # Innermost(t).lock => mid[v] = calls[v]
        /\ calls' \in [Tasks -> Seq(Call)] /\ Onward(mid[t], calls'[t], "run")
  BY BreakIs
<1>3. /\ alive \in [Tasks -> BOOLEAN] /\ calls \in [Tasks -> Seq(Call)]
      /\ svclocked \in [Tasks -> Seq(Tasks)] /\ klockwait \in [Tasks -> BOOLEAN]
      /\ LocksOK(svclocked, taken, wtskq, klockwait, Wants)
  BY InvParts
<1>4. ASSUME NEW v \in Tasks
      PROVE  TaskOK(v, alive[v], mid[v], svclocked[v], klockwait[v])
  <2>1. TaskOK(v, alive[v], calls[v], svclocked[v], klockwait[v])
    BY InvParts
  <2>2. calls[v] \in Seq(Call) /\ mid[v] \in Seq(Call) /\ svclocked[v] \in Seq(Tasks)
    BY <1>2, <1>3
  <2>3. /\ Len(mid[v]) = Len(calls[v])
        /\ \A i \in 1 .. Len(calls[v]) :
             /\ mid[v][i].lock = calls[v][i].lock
             /\ mid[v][i].op = calls[v][i].op
             /\ mid[v][i].at = calls[v][i].at
    BY <1>2 DEF Alike
  <2> QED BY <2>1, <2>2, <2>3, SameOK
<1>5. TaskOK(t, alive[t], calls'[t], svclocked[t], klockwait[t])
  <2>1. klockwait[t] = FALSE /\ alive[t] = TRUE
    BY <1>1, RunningIs
  <2>2. /\ n \in Nat \ {0} /\ calls[t][n].op = "ras" /\ calls[t][n].at = "locked"
        /\ n \in 1 .. n
    BY <1>1, AtIs
  <2>3. Len(mid[t]) = n /\ mid[t][n].op = "ras" /\ mid[t][n].at = "locked"
    BY <1>2, <2>2 DEF Alike
  <2>4. n \in DOMAIN mid[t] /\ n \in DOMAIN calls'[t]
    BY <1>2, <2>2, <2>3, DomainOf DEF Onward
  <2>5. InSection(mid[t][n]) /\ InSection(calls'[t][n])
    BY <1>2, <2>2, <2>3 DEF InSection, Onward
  <2>6. n \in Holding(svclocked[t], mid[t]) /\ n \in Holding(svclocked[t], calls'[t])
    BY <2>4, <2>5 DEF Holding
  <2>7. svclocked[t] \in Seq(Tasks) /\ TaskOK(t, TRUE, mid[t], svclocked[t], FALSE)
    BY <1>3, <1>4, <2>1
  <2>8. TaskOK(t, TRUE, calls'[t], svclocked[t], FALSE)
    BY <1>2, <2>3, <2>6, <2>7, OnwardOK
  <2> QED BY <2>1, <2>8
<1>6. TaskInv'
  BY <1>1, <1>2, <1>4, <1>5 DEF TaskInv
<1>7. \A v \in Tasks : klockwait[v] => Wants'[v] = Wants[v]
  <2> SUFFICES ASSUME NEW v \in Tasks, klockwait[v] PROVE Wants'[v] = Wants[v]
    OBVIOUS
  <2>1. v # t
    BY <1>1 DEF Running
  <2>2. Wants[v] = calls[v][Len(calls[v])].lock
    BY InvParts
  <2>3. Wants'[v] = mid[v][Len(mid[v])].lock
    BY <1>2, <2>1 DEF Wants, Innermost, Last
  <2>4. Len(calls[v]) \in 1 .. Len(calls[v])
    <3>1. calls[v] \in Seq(Call) /\ calls[v] # <<>>
      BY InvParts DEF TaskOK
    <3> QED BY <3>1, DomainOf
  <2>5. Len(mid[v]) = Len(calls[v]) /\ mid[v][Len(calls[v])].lock = calls[v][Len(calls[v])].lock
    BY <1>2, <2>4 DEF Alike
  <2> QED BY <2>2, <2>3, <2>5
<1>8. LocksOK(svclocked', taken', wtskq', klockwait', Wants')
  BY <1>1, <1>3, <1>7, SameWaits
<1> QED BY <1>1, <1>2, <1>3, <1>6, <1>8, InvFrom

-----------------------------------------------------------------------------
(* A task ends itself, with the locks that it has, *)
LEMMA tk_ext_tskKeeps ==
    ASSUME IInv, NEW t \in Tasks, tk_ext_tsk(t)
    PROVE  IInv'
<1> DEFINE gone == [Locks EXCEPT !.wait[t] = FALSE, !.queue = Left(Locks.queue, t)]
           g == IF svclocked[t] = <<>> THEN gone ELSE AllUnlockSVC(gone, t)
<1>1. /\ Running(t) /\ Become(g) /\ calls' = [calls EXCEPT ![t] = <<>>]
      /\ alive' = [alive EXCEPT ![t] = FALSE]
  BY DEF tk_ext_tsk, CanCall, _ter_tsk
<1>2. /\ alive \in [Tasks -> BOOLEAN] /\ calls \in [Tasks -> Seq(Call)]
      /\ svclocked \in [Tasks -> Seq(Tasks)] /\ taken \in [Tasks -> BOOLEAN]
      /\ wtskq \in [Tasks -> Seq(Tasks)] /\ klockwait \in [Tasks -> BOOLEAN]
      /\ LocksOK(svclocked, taken, wtskq, klockwait, Wants)
  BY InvParts
<1>3. /\ gone.list = svclocked /\ gone.taken = taken /\ gone.queue = Left(wtskq, t)
      /\ gone.wait = [klockwait EXCEPT ![t] = FALSE]
      /\ gone = [list |-> gone.list, taken |-> gone.taken,
                 queue |-> gone.queue, wait |-> gone.wait]
  <2>1. gone = [list |-> svclocked, taken |-> taken, queue |-> Left(wtskq, t),
                wait |-> [klockwait EXCEPT ![t] = FALSE]]
    <3>1. Locks = [list |-> svclocked, taken |-> taken, queue |-> wtskq, wait |-> klockwait]
      BY DEF Locks
    <3>2. Locks.queue = wtskq /\ Locks.wait = klockwait
      BY <3>1
    <3>3. gone = [[Locks EXCEPT !.wait = [klockwait EXCEPT ![t] = FALSE]]
                  EXCEPT !.queue = Left(wtskq, t)]
      BY <3>2
    <3> HIDE DEF gone
    <3> QED BY <3>1, <3>3
  <2> HIDE DEF gone
  <2> QED BY <2>1
<1> HIDE DEF gone
<1>4. LocksOK(gone.list, gone.taken, gone.queue, gone.wait, Wants)
  <2>1. LocksOK(svclocked, taken, Left(wtskq, t), [klockwait EXCEPT ![t] = FALSE], Wants)
    BY <1>2, LeftLocks
  <2> QED BY <1>3, <2>1
<1>5. RecordOK(gone, Wants) /\ ~gone.wait[t]
  <2>1. ~gone.wait[t]
    BY <1>2, <1>3
  <2>2. gone \in LockRecord
    BY <1>3, <1>4 DEF LocksOK, LockRecord
  <2> QED BY <1>4, <2>1, <2>2 DEF RecordOK
<1>6. /\ RecordOK(g, Wants) /\ g.list[t] = <<>> /\ ~g.wait[t]
      /\ \A u \in Tasks : u # t => LeftOrGiven(gone, g, Wants, u)
  <2>1. CASE svclocked[t] = <<>>
    BY <1>3, <1>5, <2>1 DEF LeftOrGiven
  <2>2. CASE svclocked[t] # <<>>
    <3>1. g = AllUnlockSVC(gone, t)
      BY <2>2
    <3> HIDE DEF g
    <3> QED BY <1>5, <3>1, AllUnlockLocks
  <2> QED BY <2>1, <2>2
<1> HIDE DEF g
<1>7. svclocked' = g.list /\ taken' = g.taken /\ wtskq' = g.queue /\ klockwait' = g.wait
  BY <1>1 DEF Become
<1>8. \A u \in Tasks : u # t =>
        \/ svclocked'[u] = svclocked[u] /\ klockwait'[u] = klockwait[u]
        \/ klockwait[u] /\ ~klockwait'[u] /\ svclocked'[u] = <<Wants[u]>> \o svclocked[u]
  <2>1. \A u \in Tasks : u # t => gone.wait[u] = klockwait[u]
    BY <1>2, <1>3
  <2> QED BY <1>3, <1>6, <1>7, <2>1 DEF LeftOrGiven
<1>9. /\ LocksOK(svclocked', taken', wtskq', klockwait', Wants)
      /\ klockwait' \in [Tasks -> BOOLEAN]
  BY <1>6, <1>7 DEF RecordOK, LockRecord
<1>10. svclocked'[t] = <<>> /\ klockwait'[t] = FALSE
  BY <1>6, <1>7, <1>9
<1>11. /\ calls' = [calls EXCEPT ![t] = calls'[t]] /\ calls'[t] = <<>> /\ <<>> \in Seq(Call)
       /\ alive' \in [Tasks -> BOOLEAN] /\ \A u \in Tasks : u # t => alive'[u] = alive[u]
  BY <1>1, <1>2
<1>12. TaskOK(t, alive'[t], calls'[t], svclocked'[t], klockwait'[t])
  BY <1>10, <1>11, EmptyOK
<1> QED BY <1>8, <1>9, <1>10, <1>11, <1>12, Step

(* and is terminated by another one when it has none.                      *)
LEMMA tk_ter_tskKeeps ==
    ASSUME IInv, ~MayTerminateHolder, NEW c \in Tasks, NEW t \in Tasks, tk_ter_tsk(c, t)
    PROVE  IInv'
<1> DEFINE gone == [Locks EXCEPT !.wait[t] = FALSE, !.queue = Left(Locks.queue, t)]
<1>1. /\ svclocked[t] = <<>> /\ Become(gone) /\ calls' = [calls EXCEPT ![t] = <<>>]
      /\ alive' = [alive EXCEPT ![t] = FALSE]
  BY DEF tk_ter_tsk, _ter_tsk
<1>2. /\ alive \in [Tasks -> BOOLEAN] /\ calls \in [Tasks -> Seq(Call)]
      /\ svclocked \in [Tasks -> Seq(Tasks)] /\ taken \in [Tasks -> BOOLEAN]
      /\ wtskq \in [Tasks -> Seq(Tasks)] /\ klockwait \in [Tasks -> BOOLEAN]
      /\ LocksOK(svclocked, taken, wtskq, klockwait, Wants)
  BY InvParts
<1>3. /\ svclocked' = svclocked /\ taken' = taken /\ wtskq' = Left(wtskq, t)
      /\ klockwait' = [klockwait EXCEPT ![t] = FALSE]
  BY <1>1 DEF Locks, Become
<1>4. LocksOK(svclocked', taken', wtskq', klockwait', Wants)
  BY <1>2, <1>3, LeftLocks
<1>5. /\ klockwait'[t] = FALSE /\ svclocked'[t] = <<>>
      /\ \A u \in Tasks : u # t => klockwait'[u] = klockwait[u]
  BY <1>1, <1>2, <1>3
<1>6. /\ calls' = [calls EXCEPT ![t] = calls'[t]] /\ calls'[t] = <<>> /\ <<>> \in Seq(Call)
      /\ alive' \in [Tasks -> BOOLEAN] /\ \A u \in Tasks : u # t => alive'[u] = alive[u]
  BY <1>1, <1>2
<1>7. TaskOK(t, alive'[t], calls'[t], svclocked'[t], klockwait'[t])
  BY <1>5, <1>6, EmptyOK
<1> QED BY <1>3, <1>4, <1>5, <1>6, <1>7, Step

LEMMA tk_sta_tskKeeps ==
    ASSUME IInv, NEW t \in Tasks, tk_sta_tsk(t)
    PROVE  IInv'
<1>1. /\ alive' = [alive EXCEPT ![t] = TRUE]
      /\ UNCHANGED <<calls, svclocked, taken, wtskq, klockwait>>
  BY DEF tk_sta_tsk
<1>2. /\ alive \in [Tasks -> BOOLEAN] /\ calls \in [Tasks -> Seq(Call)]
      /\ LocksOK(svclocked, taken, wtskq, klockwait, Wants)
      /\ TaskOK(t, alive[t], calls[t], svclocked[t], klockwait[t])
  BY InvParts
<1>3. /\ alive' \in [Tasks -> BOOLEAN] /\ alive'[t] = TRUE
      /\ \A u \in Tasks : u # t => alive'[u] = alive[u]
  BY <1>1, <1>2
<1>4. TaskOK(t, TRUE, calls[t], svclocked[t], klockwait[t])
  BY <1>2 DEF TaskOK
<1>5. calls' = [calls EXCEPT ![t] = calls'[t]] /\ calls'[t] = calls[t] /\ calls'[t] \in Seq(Call)
  BY <1>1, <1>2
<1> QED BY <1>1, <1>2, <1>3, <1>4, <1>5, Step

-----------------------------------------------------------------------------
LEMMA InitHolds ==
    ASSUME Init
    PROVE  IInv
<1>1. /\ alive \in [Tasks -> BOOLEAN] /\ calls \in [Tasks -> Seq(Call)]
      /\ svclocked \in [Tasks -> Seq(Tasks)] /\ taken \in [Tasks -> BOOLEAN]
      /\ wtskq \in [Tasks -> Seq(Tasks)] /\ klockwait \in [Tasks -> BOOLEAN]
  BY DEF Init
<1>2. ASSUME NEW l \in Tasks
      PROVE  Linked(Tasks, wtskq[l], {t \in Tasks : klockwait[t] /\ Wants[t] = l})
  <2>1. wtskq[l] = <<>> /\ {t \in Tasks : klockwait[t] /\ Wants[t] = l} = {}
    BY DEF Init
  <2> QED BY <2>1 DEF Linked, ToSet, IsInjective
<1>3. \A t \in Tasks : svclocked[t] = <<>> /\ ToSet(svclocked[t]) = {} /\ IsInjective(svclocked[t])
  BY DEF Init, ToSet, IsInjective
<1>4. \A t \in Tasks : ~klockwait[t] /\ ~taken[t]
  BY DEF Init
<1>5. LocksOK(svclocked, taken, wtskq, klockwait, Wants)
  BY <1>1, <1>2, <1>3, <1>4 DEF LocksOK
<1>6. TaskInv
  <2> SUFFICES ASSUME NEW t \in Tasks
               PROVE  TaskOK(t, alive[t], calls[t], svclocked[t], klockwait[t])
    BY DEF TaskInv
  <2>1. calls[t] = <<>> /\ svclocked[t] = <<>> /\ klockwait[t] = FALSE
    BY DEF Init
  <2> QED BY <2>1, EmptyOK
<1> QED BY <1>1, <1>5, <1>6 DEF IInv, TypeOK, RecordOK, LockRecord, Locks

LEMMA NextKeeps ==
    ASSUME IInv, ~MayReenter, ~MayTerminateHolder, [Next]_vars
    PROVE  IInv'
<1>1. ASSUME NEW t \in Tasks, svc_ientry(t) PROVE IInv'
  BY <1>1, BeginKeeps DEF svc_ientry
<1>2. ASSUME NEW t \in Tasks, NEW u \in Tasks, tk_ras_tex(t, u) PROVE IInv'
  BY <1>2, BeginKeeps DEF tk_ras_tex
<1>3. CASE UNCHANGED vars
  <2>1. /\ alive' = alive /\ calls' = calls /\ svclocked' = svclocked /\ taken' = taken
        /\ wtskq' = wtskq /\ klockwait' = klockwait
    BY <1>3 DEF vars
  <2>2. /\ alive \in [Tasks -> BOOLEAN] /\ calls \in [Tasks -> Seq(Call)]
        /\ LocksOK(svclocked, taken, wtskq, klockwait, Wants) /\ TaskInv
    BY InvParts DEF TaskInv
  <2>3. Wants' = Wants
    BY <2>1 DEF Wants, Innermost
  <2>4. TaskInv'
    BY <2>1, <2>2 DEF TaskInv
  <2> QED BY <2>1, <2>2, <2>3, <2>4, InvFrom
<1>4. CASE Next
  BY <1>1, <1>2, <1>4, EnterHandlerKeeps, LeaveHandlerKeeps, call_brkhdrKeeps, RaisedKeeps,
     ReturnKeeps, LockSVCKeeps, DisturbKeeps, tk_sta_tskKeeps, tk_ext_tskKeeps,
     tk_ter_tskKeeps DEF Next
<1> QED BY <1>3, <1>4

(* The inductive invariant holds. *)
THEOREM Invariance ==
    ASSUME ~MayReenter, ~MayTerminateHolder
    PROVE  Spec => []IInv
<1>1. Init => IInv
  BY InitHolds
<1>2. IInv /\ [Next]_vars => IInv'
  BY NextKeeps
<1> QED BY <1>1, <1>2, PTL DEF Spec

(* The variables have their types. *)
THEOREM TypeCorrect ==
    ASSUME ~MayReenter, ~MayTerminateHolder
    PROVE  Spec => []TypeOK
<1>1. IInv => TypeOK
  BY DEF IInv
<1> QED BY <1>1, Invariance, PTL

(* klock.c: a task has the locks of the sections that it is in, the        *)
(* innermost first, so UnlockSVC unlocks the right one.                    *)
THEOREM Nesting ==
    ASSUME ~MayReenter, ~MayTerminateHolder
    PROVE  Spec => []HeldAsNested
<1>1. IInv => HeldAsNested
  BY DEF IInv, TaskInv, TaskOK, HeldAsNested
<1> QED BY <1>1, Invariance, PTL

(* klock.c: the locks of all tasks, their queues and the flags klockwait   *)
(* agree.                                                                  *)
THEOREM Exactness ==
    ASSUME ~MayReenter, ~MayTerminateHolder
    PROVE  Spec => []LocksExact
<1>1. IInv => LocksExact
  <2> SUFFICES ASSUME IInv, NEW l \in Tasks
               PROVE  /\ taken[l] <=> \E t \in Tasks : l \in ToSet(svclocked[t])
                      /\ \A t, u \in Tasks :
                           l \in ToSet(svclocked[t]) /\ l \in ToSet(svclocked[u]) => t = u
                      /\ wtskq[l] # <<>> => taken[l]
                      /\ IsInjective(wtskq[l])
                      /\ \A t \in Tasks : t \in ToSet(wtskq[l])
                                            <=> klockwait[t] /\ Innermost(t).lock = l
    BY DEF LocksExact
  <2>1. /\ LocksOK(svclocked, taken, wtskq, klockwait, Wants)
        /\ \A t \in Tasks : Wants[t] = Innermost(t).lock
    BY InvParts DEF Wants
  <2>2. Linked(Tasks, wtskq[l], {t \in Tasks : klockwait[t] /\ Wants[t] = l})
    BY <2>1 DEF LocksOK
  <2>3. wtskq[l] # <<>> => taken[l]
    <3> SUFFICES ASSUME wtskq[l] # <<>> PROVE taken[l]
      OBVIOUS
    <3>1. {t \in Tasks : klockwait[t] /\ Wants[t] = l} # {}
      BY <2>2, EmptyLinked
    <3>2. PICK t \in Tasks : klockwait[t] /\ Wants[t] = l
      BY <3>1
    <3> QED BY <2>1, <3>2 DEF LocksOK
  <2>4. \A t \in Tasks : t \in ToSet(wtskq[l]) <=> klockwait[t] /\ Innermost(t).lock = l
    BY <2>1, <2>2 DEF Linked
  <2>5. IsInjective(wtskq[l])
    BY <2>2 DEF Linked
  <2> QED BY <2>1, <2>3, <2>4, <2>5 DEF LocksOK
<1> QED BY <1>1, Invariance, PTL

LEMMA NoCallsNoLocks ==
    ASSUME IInv, NEW t \in Tasks, calls[t] = <<>>
    PROVE  svclocked[t] = <<>>
<1>1. Nested(svclocked[t], <<>>) /\ svclocked[t] \in Seq(Tasks)
  BY InvParts DEF TaskOK
<1>2. Holding(svclocked[t], <<>>) = {}
  BY DEF Holding
<1>3. DOMAIN svclocked[t] = {}
  BY <1>1, <1>2 DEF Nested
<1> QED BY <1>1, <1>3, PlacesOf

(* klock.c:160: a task that has ended has no lock, and none is given to it *)
(* afterwards.                                                             *)
THEOREM DormantIsFree ==
    ASSUME ~MayReenter, ~MayTerminateHolder
    PROVE  Spec => []DormantHasNoLock
<1>1. IInv => DormantHasNoLock
  BY InvParts, NoCallsNoLocks DEF TaskOK, DormantHasNoLock
<1> QED BY <1>1, Invariance, PTL

-----------------------------------------------------------------------------
(* Break functions.  NoOther(t): no other task has the lock of t.          *)
NoOther(t) == \A u \in Tasks : t \in ToSet(svclocked[u]) => u = t

Begins(t) ==
    /\ calls[t] = <<>> \/ At(t, "run")
    /\ \E r \in Call :
         /\ calls'[t] = Append(calls[t], r) /\ r.at = "lock"
         /\ r.op = "svc" \/ BreakRaises \/ ~BreakRunning(t)

Goes(t) ==
    \E step \in Places :
        /\ Onward(calls[t], calls'[t], step)
        /\ Innermost(t).op = "ras" => step # "run"
        /\ \/ Innermost(t).op = "ras"
           \/ At(t, "lock") /\ step = "locked"
           \/ At(t, "run") /\ step = "relock"
           \/ NoOther(t)

Ends(t) ==
    /\ calls[t] # <<>> /\ calls'[t] = Front(calls[t])
    /\ Innermost(t).op = "ras" \/ NoOther(t)

(* What a step of t does to the calls of t *)
Moves(t) ==
    \/ calls'[t] = calls[t]
    \/ calls'[t] = <<>>
    \/ Begins(t)
    \/ Goes(t)
    \/ Ends(t)

OnlyMoves(t) ==
    /\ calls' \in [Tasks -> Seq(Call)]
    /\ \A v \in Tasks : v # t => calls'[v] = calls[v]
    /\ Moves(t)

LEMMA OwnLock ==
    ASSUME IInv, NEW t \in Tasks, calls[t] # <<>>, InSection(Innermost(t)),
           Innermost(t).op = "svc"
    PROVE  NoOther(t)
<1>1. /\ calls[t] \in Seq(Call) /\ Frames(t, calls[t])
      /\ Innermost(t) = calls[t][Len(calls[t])]
  BY InvParts, InnermostIs DEF TaskOK
<1>2. Innermost(t).lock = t
  BY <1>1, DomainOf DEF Frames
<1>3. t \in ToSet(svclocked[t])
  BY <1>2, SectionLock
<1> QED BY <1>3, InvParts DEF NoOther, LocksOK

LEMMA LockSVCMoves ==
    ASSUME IInv, NEW t \in Tasks, LockSVC(t)
    PROVE  OnlyMoves(t)
<1> DEFINE lock == Innermost(t).lock
           step == IF At(t, "lock") THEN "locked" ELSE "unlock"
<1>1. /\ At(t, "lock") \/ At(t, "relock")
      /\ \/ HasLock(t, lock) /\ Locked(t)
         \/ ~taken[lock] /\ Locked(t)
         \/ UNCHANGED calls
  BY DEF LockSVC, TakeLock, QueueForLock
<1>2. /\ calls \in [Tasks -> Seq(Call)] /\ calls[t] \in Seq(Call) /\ calls[t] # <<>>
      /\ Innermost(t) = calls[t][Len(calls[t])] /\ Frames(t, calls[t])
      /\ Len(calls[t]) \in DOMAIN calls[t]
      /\ svclocked[t] \in Seq(Tasks) /\ lock \in Tasks
      /\ LocksOK(svclocked, taken, wtskq, klockwait, Wants)
      /\ calls[t][Len(calls[t])].op \in {"svc", "ras"}
  BY <1>1, AtIs, InvParts DEF TaskOK, Call
<1>3. CASE UNCHANGED calls
  BY <1>2, <1>3 DEF OnlyMoves, Moves
<1>4. CASE Locked(t) /\ (HasLock(t, lock) \/ ~taken[lock])
  <2>1. step \in Places /\ GoTo(t, step)
    BY <1>4 DEF Places, Locked
  <2>2. /\ calls' = [calls EXCEPT ![t] = calls'[t]] /\ calls'[t] \in Seq(Call)
        /\ Onward(calls[t], calls'[t], step)
    <3> HIDE DEF step
    <3> QED BY <1>2, <2>1, GoToIs
  <2>3. At(t, "lock") => step = "locked"
    OBVIOUS
  <2>4. step # "run"
    OBVIOUS
  <2>5. ASSUME At(t, "relock"), Innermost(t).op # "ras" PROVE NoOther(t)
    <3>1. lock = t
      BY <1>2, <2>5 DEF Frames
    <3>2. CASE HasLock(t, lock)
      <4>1. t \in ToSet(svclocked[t])
        <5>1. svclocked[t] # <<>> /\ Head(svclocked[t]) = t
          BY <3>1, <3>2 DEF HasLock
        <5>2. Linked(Tasks, svclocked[t], ToSet(svclocked[t]))
          BY <1>2 DEF LocksOK, Linked
        <5>3. Head(svclocked[t]) \in ToSet(svclocked[t])
          BY <5>1, <5>2, HeadLinked
        <5> QED BY <5>1, <5>3
      <4> QED BY <1>2, <4>1 DEF NoOther, LocksOK
    <3>3. CASE ~taken[lock]
      BY <1>2, <3>1, <3>3 DEF NoOther, LocksOK
    <3> QED BY <1>4, <3>2, <3>3
  <2> HIDE DEF step
  <2>6. Goes(t)
    BY <1>1, <2>1, <2>2, <2>3, <2>4, <2>5 DEF Goes
  <2>7. calls' \in [Tasks -> Seq(Call)] /\ \A v \in Tasks : v # t => calls'[v] = calls[v]
    BY <1>2, <2>2
  <2> QED BY <2>6, <2>7 DEF OnlyMoves, Moves
<1> QED BY <1>1, <1>3, <1>4

LEMMA UnlockMoves ==
    ASSUME IInv, NEW t \in Tasks, EnterHandler(t) \/ Return(t)
    PROVE  OnlyMoves(t)
<1>1. /\ calls[t] # <<>> /\ InSection(Innermost(t))
      /\ calls \in [Tasks -> Seq(Call)] /\ calls[t] \in Seq(Call)
      /\ Innermost(t).op \in {"svc", "ras"}
  <2>1. At(t, "locked") \/ At(t, "unlock")
    BY DEF EnterHandler, Return
  <2>2. /\ calls[t] # <<>> /\ Innermost(t) \in Call
        /\ Innermost(t).at = "locked" \/ Innermost(t).at = "unlock"
    <3>1. CASE At(t, "locked")
      BY <3>1, AtIs
    <3>2. CASE At(t, "unlock")
      BY <3>2, AtIs
    <3> QED BY <2>1, <3>1, <3>2
  <2> QED BY <2>2, InvParts DEF InSection, Call
<1>2. Innermost(t).op = "svc" => NoOther(t)
  BY <1>1, OwnLock
<1>3. CASE EndCall(t)
  <2>1. /\ calls'[t] = Front(calls[t]) /\ \A v \in Tasks : v # t => calls'[v] = calls[v]
        /\ calls' \in [Tasks -> Seq(Call)]
    <3>1. Front(calls[t]) \in Seq(Call)
      BY <1>1, FrontCalls
    <3> QED BY <1>1, <1>3, <3>1 DEF EndCall
  <2>2. Ends(t)
    BY <1>1, <1>2, <2>1 DEF Ends
  <2> QED BY <2>1, <2>2 DEF OnlyMoves, Moves
<1>4. CASE GoTo(t, "run") /\ Innermost(t).op = "svc"
  <2>1. "run" \in Places
    BY DEF Places
  <2>2. /\ calls' = [calls EXCEPT ![t] = calls'[t]] /\ calls'[t] \in Seq(Call)
        /\ Onward(calls[t], calls'[t], "run")
    BY <1>1, <1>4, <2>1, GoToIs
  <2>3. Goes(t)
    BY <1>2, <1>4, <2>1, <2>2 DEF Goes
  <2>4. calls' \in [Tasks -> Seq(Call)] /\ \A v \in Tasks : v # t => calls'[v] = calls[v]
    BY <1>1, <2>2
  <2> QED BY <2>3, <2>4 DEF OnlyMoves, Moves
<1> QED BY <1>3, <1>4 DEF EnterHandler, Return

LEMMA OnwardMoves ==
    ASSUME IInv, NEW t \in Tasks, LeaveHandler(t) \/ Raised(t)
    PROVE  OnlyMoves(t)
<1>1. calls[t] # <<>> /\ calls \in [Tasks -> Seq(Call)]
  BY InvParts DEF LeaveHandler, Raised, At
<1>2. "relock" \in Places /\ "unlock" \in Places
  BY DEF Places
<1>3. PICK step \in Places :
        /\ GoTo(t, step) /\ step # "run"
        /\ Innermost(t).op = "ras" \/ (At(t, "run") /\ step = "relock")
  BY <1>2 DEF LeaveHandler, Raised
<1>4. /\ calls' = [calls EXCEPT ![t] = calls'[t]] /\ calls'[t] \in Seq(Call)
      /\ Onward(calls[t], calls'[t], step)
  BY <1>1, <1>3, GoToIs
<1>5. Goes(t)
  BY <1>3, <1>4 DEF Goes
<1>6. calls' \in [Tasks -> Seq(Call)] /\ \A v \in Tasks : v # t => calls'[v] = calls[v]
  BY <1>1, <1>4
<1> QED BY <1>5, <1>6 DEF OnlyMoves, Moves

LEMMA BeginMoves ==
    ASSUME IInv, NEW t \in Tasks, NEW op \in {"svc", "ras"}, NEW lock \in Tasks,
           Begin(t, op, lock), op = "svc" \/ BreakRaises \/ ~BreakRunning(t)
    PROVE  OnlyMoves(t)
<1> DEFINE r == [op |-> op, lock |-> lock, at |-> "lock", broken |-> FALSE]
<1>1. /\ calls[t] = <<>> \/ At(t, "run")
      /\ calls' = [calls EXCEPT ![t] = Append(calls[t], r)]
  BY DEF Begin, CanCall
<1>2. r \in Call /\ r.at = "lock" /\ r.op = op
  BY DEF Call, Places
<1> HIDE DEF r
<1>3. calls \in [Tasks -> Seq(Call)] /\ Append(calls[t], r) \in Seq(Call)
  BY <1>2, InvParts, AppendProperties
<1>4. /\ calls' \in [Tasks -> Seq(Call)] /\ calls'[t] = Append(calls[t], r)
      /\ \A v \in Tasks : v # t => calls'[v] = calls[v]
  BY <1>1, <1>3
<1>5. Begins(t)
  BY <1>1, <1>2, <1>4 DEF Begins
<1> QED BY <1>4, <1>5 DEF OnlyMoves, Moves

LEMMA NextMoves ==
    ASSUME IInv, [Next]_vars
    PROVE  \/ calls' = calls
           \/ \E t \in Tasks : OnlyMoves(t) \/ call_brkhdr(t)
<1>1. ASSUME NEW t \in Tasks, svc_ientry(t) PROVE OnlyMoves(t)
  BY <1>1, BeginMoves DEF svc_ientry
<1>2. ASSUME NEW t \in Tasks, NEW u \in Tasks, tk_ras_tex(t, u) PROVE OnlyMoves(t)
  BY <1>2, BeginMoves DEF tk_ras_tex
<1>3. ASSUME NEW t \in Tasks, Disturb(t) \/ tk_sta_tsk(t) PROVE calls' = calls
  BY <1>3 DEF Disturb, tk_sta_tsk
<1>4. ASSUME NEW t \in Tasks, NEW c \in Tasks, tk_ter_tsk(c, t) \/ tk_ext_tsk(t) PROVE OnlyMoves(t)
  <2>1. calls' = [calls EXCEPT ![t] = <<>>] /\ calls \in [Tasks -> Seq(Call)]
    BY <1>4, InvParts DEF tk_ter_tsk, tk_ext_tsk, _ter_tsk
  <2>2. <<>> \in Seq(Call)
    OBVIOUS
  <2> QED BY <2>1, <2>2 DEF OnlyMoves, Moves
<1>5. CASE UNCHANGED vars
  BY <1>5 DEF vars
<1>6. CASE Next
  BY <1>1, <1>2, <1>3, <1>4, <1>6, LockSVCMoves, UnlockMoves, OnwardMoves DEF Next
<1> QED BY <1>5, <1>6

-----------------------------------------------------------------------------
(* In the calls c a break function of a call of u runs. *)
Breaks(c, u) == \E i \in DOMAIN c : c[i].op = "ras" /\ c[i].at = "run" /\ c[i].lock = u

(* The calls among c that a break function may break: Interruptible(u) is  *)
(* Breakable(calls[u]).                                                    *)
Breakable(c) == {i \in DOMAIN c : c[i].op = "svc" /\ c[i].at \in {"run", "relock"}}

(* From c to d those calls remain, and what was broken, or none is left.   *)
Kept(c, d) ==
    \/ Breakable(d) = Breakable(c) /\ \A i \in Breakable(c) : c[i].broken => d[i].broken
    \/ Breakable(d) = {}

LEMMA MovesBreaks ==
    ASSUME IInv, NEW t \in Tasks, OnlyMoves(t), NEW v \in Tasks, NEW u,
           Breaks(calls'[v], u)
    PROVE  Breaks(calls[v], u)
<1> DEFINE c == calls[t]
           d == calls'[t]
<1>1. c \in Seq(Call) /\ d \in Seq(Call) /\ Innermost(t) = c[Len(c)]
  BY InvParts, InnermostIs DEF OnlyMoves
<1>2. DOMAIN c = 1 .. Len(c) /\ DOMAIN d = 1 .. Len(d) /\ Len(c) \in Nat
  BY <1>1, DomainOf
<1> SUFFICES ASSUME v = t, Moves(t) PROVE Breaks(c, u)
  BY DEF OnlyMoves
<1>3. PICK i \in DOMAIN d : d[i].op = "ras" /\ d[i].at = "run" /\ d[i].lock = u
  BY DEF Breaks
<1> HIDE DEF c, d
<1>4. CASE d = c
  BY <1>3, <1>4 DEF Breaks
<1>5. CASE d = <<>>
  BY <1>3, <1>5
<1>6. CASE Begins(t)
  <2>1. PICK r \in Call : d = Append(c, r) /\ r.at = "lock"
    BY <1>6 DEF Begins, c, d
  <2>2. /\ Len(d) = Len(c) + 1 /\ d[Len(c) + 1] = r
        /\ \A k \in 1 .. Len(c) : d[k] = c[k]
    BY <1>1, <2>1, BeginCalls
  <2>3. i \in 1 .. Len(c)
    <3>1. i # Len(c) + 1
      BY <1>3, <2>1, <2>2
    <3> QED BY <1>2, <2>2, <3>1
  <2> QED BY <1>2, <1>3, <2>2, <2>3 DEF Breaks
<1>7. CASE Goes(t)
  <2>1. PICK step \in Places : Onward(c, d, step) /\ (c[Len(c)].op = "ras" => step # "run")
    BY <1>1, <1>7 DEF Goes, c, d
  <2>2. i \in 1 .. Len(c) /\ c[i].op = "ras" /\ c[i].lock = u
    BY <1>2, <1>3, <2>1 DEF Onward
  <2>3. i # Len(c)
    BY <1>3, <2>1, <2>2 DEF Onward
  <2>4. c[i].at = "run"
    BY <1>3, <2>1, <2>2, <2>3 DEF Onward
  <2> QED BY <1>2, <2>2, <2>4 DEF Breaks
<1>8. CASE Ends(t)
  <2>1. c # <<>> /\ d = Front(c)
    BY <1>8 DEF Ends, c, d
  <2>2. Len(d) = Len(c) - 1 /\ \A k \in 1 .. Len(c) - 1 : d[k] = c[k]
    BY <1>1, <2>1, FrontCalls
  <2>3. i \in 1 .. Len(c) - 1 /\ i \in 1 .. Len(c)
    BY <1>2, <2>2
  <2> QED BY <1>2, <1>3, <2>2, <2>3 DEF Breaks
<1> QED BY <1>4, <1>5, <1>6, <1>7, <1>8 DEF Moves, c, d

LEMMA MovesKeep ==
    ASSUME IInv, NEW t \in Tasks, OnlyMoves(t), NEW v \in Tasks, ~NoOther(v)
    PROVE  Kept(calls[v], calls'[v])
<1> DEFINE c == calls[t]
           d == calls'[t]
<1>1. c \in Seq(Call) /\ d \in Seq(Call) /\ Innermost(t) = c[Len(c)]
  BY InvParts, InnermostIs DEF OnlyMoves
<1>2. DOMAIN c = 1 .. Len(c) /\ DOMAIN d = 1 .. Len(d) /\ Len(c) \in Nat
  BY <1>1, DomainOf
<1>3. CASE v # t
  BY <1>3 DEF OnlyMoves, Kept
<1>4. CASE v = t
  <2>1. ASSUME d = c PROVE Kept(c, d)
    BY <2>1 DEF Kept
  <2>2. ASSUME d = <<>> PROVE Kept(c, d)
    BY <2>2 DEF Kept, Breakable
  <2> HIDE DEF c, d
  <2>3. ASSUME Begins(t) PROVE Kept(c, d)
    <3>1. PICK r \in Call : d = Append(c, r) /\ r.at = "lock"
      BY <2>3 DEF Begins, c, d
    <3>2. /\ Len(d) = Len(c) + 1 /\ d[Len(c) + 1] = r
          /\ \A k \in 1 .. Len(c) : d[k] = c[k]
      BY <1>1, <3>1, BeginCalls
    <3>3. \A k \in DOMAIN d : k \in 1 .. Len(c) \/ k = Len(c) + 1
      BY <1>2, <3>2
    <3>4. \A k \in 1 .. Len(c) : k \in DOMAIN d /\ k \in DOMAIN c
      BY <1>2, <3>2
    <3>5. Breakable(d) = Breakable(c)
      <4>1. ASSUME NEW k \in Breakable(d) PROVE k \in Breakable(c)
        BY <3>1, <3>2, <3>3, <3>4 DEF Breakable
      <4>2. ASSUME NEW k \in Breakable(c) PROVE k \in Breakable(d)
        BY <1>2, <3>2, <3>4 DEF Breakable
      <4> QED BY <4>1, <4>2
    <3>6. \A k \in Breakable(c) : d[k] = c[k]
      BY <1>2, <3>2 DEF Breakable
    <3> QED BY <3>5, <3>6 DEF Kept
  <2>4. ASSUME Goes(t) PROVE Kept(c, d)
    <3>1. PICK step \in Places :
            /\ Onward(c, d, step)
            /\ \/ c[Len(c)].op = "ras"
               \/ c[Len(c)].at = "lock" /\ step = "locked"
               \/ c[Len(c)].at = "run" /\ step = "relock"
      BY <1>1, <1>4, <2>4 DEF Goes, At, c, d
    <3>2. /\ Len(d) = Len(c) /\ d[Len(c)].at = step
          /\ \A k \in 1 .. Len(c) : d[k].op = c[k].op /\ d[k].broken = c[k].broken
          /\ \A k \in 1 .. Len(c) : k # Len(c) => d[k].at = c[k].at
      BY <3>1 DEF Onward
    <3>3. ASSUME NEW k \in 1 .. Len(c)
          PROVE  k \in Breakable(d) <=> k \in Breakable(c)
      <4>1. CASE k = Len(c)
        BY <1>2, <3>1, <3>2, <4>1 DEF Breakable
      <4>2. CASE k # Len(c)
        BY <1>2, <3>2, <4>2 DEF Breakable
      <4> QED BY <4>1, <4>2
    <3>4. \A k \in Breakable(c) \cup Breakable(d) : k \in 1 .. Len(c)
      BY <1>2, <3>2 DEF Breakable
    <3> QED BY <3>2, <3>3, <3>4 DEF Kept
  <2>5. ASSUME Ends(t) PROVE Kept(c, d)
    <3>1. c # <<>> /\ d = Front(c) /\ c[Len(c)].op = "ras"
      BY <1>1, <1>4, <2>5 DEF Ends, c, d
    <3>2. /\ Len(d) = Len(c) - 1 /\ Len(c) \in Nat \ {0}
          /\ \A k \in 1 .. Len(c) - 1 : d[k] = c[k]
      BY <1>1, <3>1, FrontCalls
    <3>3. ASSUME NEW k \in Breakable(c) PROVE k \in 1 .. Len(c) - 1
      <4>1. k \in 1 .. Len(c) /\ k # Len(c)
        BY <1>2, <3>1 DEF Breakable
      <4> QED BY <3>2, <4>1
    <3>4. Breakable(d) = Breakable(c)
      <4>1. ASSUME NEW k \in Breakable(d) PROVE k \in Breakable(c)
        <5>1. k \in 1 .. Len(c) - 1 /\ k \in 1 .. Len(c)
          BY <1>2, <3>2 DEF Breakable
        <5> QED BY <1>2, <3>2, <5>1 DEF Breakable
      <4>2. ASSUME NEW k \in Breakable(c) PROVE k \in Breakable(d)
        BY <1>2, <3>2, <3>3 DEF Breakable
      <4> QED BY <4>1, <4>2
    <3> QED BY <3>2, <3>3, <3>4 DEF Kept
  <2> QED BY <1>4, <2>1, <2>2, <2>3, <2>4, <2>5 DEF OnlyMoves, Moves, c, d
<1> QED BY <1>3, <1>4

(* The calls of another task that t breaks a call of are as they were. *)
LEMMA AlikeKept ==
    ASSUME NEW c \in Seq(Call), NEW d \in Seq(Call), Alike(c, d)
    PROVE  Kept(c, d) /\ Breakable(d) = Breakable(c)
<1>1. DOMAIN c = 1 .. Len(c) /\ DOMAIN d = 1 .. Len(c)
  BY DomainOf DEF Alike
<1>2. \A i \in 1 .. Len(c) : d[i].op = c[i].op /\ d[i].at = c[i].at
                             /\ (c[i].broken => d[i].broken)
  BY DEF Alike
<1>3. Breakable(d) = Breakable(c)
  BY <1>1, <1>2 DEF Breakable
<1>4. \A i \in Breakable(c) : i \in 1 .. Len(c)
  BY <1>1 DEF Breakable
<1> QED BY <1>2, <1>3, <1>4 DEF Kept

LEMMA RasOnwardKept ==
    ASSUME NEW c, NEW d, Onward(c, d, "run"), c[Len(c)].op = "ras"
    PROVE  Kept(c, d) /\ Breakable(d) = Breakable(c)
<1>1. DOMAIN c = 1 .. Len(c) /\ DOMAIN d = 1 .. Len(c)
  BY DomainOf DEF Onward
<1>2. /\ \A i \in 1 .. Len(c) : d[i].op = c[i].op /\ d[i].broken = c[i].broken
      /\ \A i \in 1 .. Len(c) : i # Len(c) => d[i].at = c[i].at
  BY DEF Onward
<1>3. Breakable(d) = Breakable(c)
  <2>1. ASSUME NEW i \in 1 .. Len(c) PROVE i \in Breakable(d) <=> i \in Breakable(c)
    <3>1. CASE i = Len(c)
      BY <1>1, <1>2, <3>1 DEF Breakable
    <3>2. CASE i # Len(c)
      BY <1>1, <1>2, <3>2 DEF Breakable
    <3> QED BY <3>1, <3>2
  <2>2. \A i \in Breakable(c) \cup Breakable(d) : i \in 1 .. Len(c)
    BY <1>1 DEF Breakable
  <2> QED BY <2>1, <2>2
<1>4. \A i \in Breakable(c) : i \in 1 .. Len(c)
  BY <1>1 DEF Breakable
<1> QED BY <1>2, <1>3, <1>4 DEF Kept

(* The call among c that the next break function would break is broken.    *)
Broken(c) == Breakable(c) # {} => c[Max(Breakable(c))].broken

BreakInv ==
    \A t, u \in Tasks : t # u /\ Breaks(calls[t], u) => Broken(calls[u])

LEMMA BreakableMax ==
    ASSUME NEW c \in Seq(Call), Breakable(c) # {}
    PROVE  Max(Breakable(c)) \in Breakable(c)
<1>1. DOMAIN c = 1 .. Len(c) /\ Len(c) \in Nat
  BY DomainOf
<1>2. Breakable(c) \in SUBSET (0 .. Len(c))
  BY <1>1 DEF Breakable
<1> QED BY <1>1, <1>2, GreatestElement

LEMMA KeptBroken ==
    ASSUME NEW c \in Seq(Call), NEW d, Kept(c, d), Broken(c)
    PROVE  Broken(d)
<1>1. CASE Breakable(d) = {}
  BY <1>1 DEF Broken
<1>2. CASE Breakable(d) # {}
  <2>1. Breakable(d) = Breakable(c) /\ \A i \in Breakable(c) : c[i].broken => d[i].broken
    BY <1>2 DEF Kept
  <2>2. Max(Breakable(c)) \in Breakable(c) /\ c[Max(Breakable(c))].broken
    BY <1>2, <2>1, BreakableMax DEF Broken
  <2> QED BY <2>1, <2>2 DEF Broken
<1> QED BY <1>1, <1>2

(* Whoever breaks a call of another task has its lock. *)
LEMMA BreakerHasLock ==
    ASSUME IInv, NEW t \in Tasks, NEW u \in Tasks, t # u, Breaks(calls[t], u)
    PROVE  u \in ToSet(svclocked[t]) /\ ~NoOther(u)
<1>1. /\ calls[t] \in Seq(Call) /\ svclocked[t] \in Seq(Tasks)
      /\ Nested(svclocked[t], calls[t])
  BY InvParts DEF TaskOK
<1>2. PICK i \in DOMAIN calls[t] : calls[t][i].op = "ras" /\ calls[t][i].at = "run"
                                   /\ calls[t][i].lock = u
  BY DEF Breaks
<1>3. i \in Holding(svclocked[t], calls[t])
  BY <1>2 DEF Holding, InSection
<1>4. u \in ToSet(svclocked[t])
  BY <1>1, <1>2, <1>3, HeldInList
<1> QED BY <1>4 DEF NoOther

(* A break function begins: the target's calls are as they were but for    *)
(* the broken one, and only this break is new.                             *)
LEMMA NewBreak ==
    ASSUME IInv, NEW t \in Tasks, call_brkhdr(t)
    PROVE  /\ calls' \in [Tasks -> Seq(Call)]
           /\ Innermost(t).lock \in Tasks
           /\ Innermost(t).lock # t => Broken(calls'[Innermost(t).lock])
           /\ \A v \in Tasks : Broken(calls[v]) => Broken(calls'[v])
           /\ \A v \in Tasks : Len(calls'[v]) = Len(calls[v])
           /\ \A v \in Tasks : \A i \in 1 .. Len(calls[v]) : calls'[v][i].op = calls[v][i].op
           /\ \A v, u \in Tasks :
                Breaks(calls'[v], u) => \/ Breaks(calls[v], u)
                                        \/ v = t /\ u = Innermost(t).lock
<1> DEFINE w == Innermost(t).lock
           n == Len(calls[t])
<1>1. At(t, "locked") /\ Innermost(t).op = "ras" /\ MayBreak(w)
  BY DEF call_brkhdr
<1>2. /\ n \in 1 .. n /\ calls[t][n].op = "ras" /\ calls[t][n].lock = w /\ w \in Tasks
  BY <1>1, AtIs
<1>3. PICK mid \in [Tasks -> Seq(Call)] :
        /\ mid[w][Max(Interruptible(w))].broken = TRUE
        /\ \A v \in Tasks : /\ Alike(calls[v], mid[v])
                            /\ v # t => calls'[v] = mid[v]
                            /\ v # w => mid[v] = calls[v]
        /\ calls' \in [Tasks -> Seq(Call)] /\ Onward(mid[t], calls'[t], "run")
  BY BreakIs
<1> HIDE DEF w
<1>4. calls \in [Tasks -> Seq(Call)]
  BY InvParts
<1>5. ASSUME NEW v \in Tasks
      PROVE  /\ calls[v] \in Seq(Call) /\ mid[v] \in Seq(Call) /\ calls'[v] \in Seq(Call)
             /\ Len(mid[v]) = Len(calls[v])
             /\ \A i \in 1 .. Len(calls[v]) : /\ mid[v][i].lock = calls[v][i].lock
                                              /\ mid[v][i].op = calls[v][i].op
                                              /\ mid[v][i].at = calls[v][i].at
  BY <1>3, <1>4 DEF Alike
<1>6. mid[t][n].op = "ras" /\ mid[t][n].lock = w /\ Len(mid[t]) = n
  BY <1>2, <1>5
<1>7. ASSUME NEW v \in Tasks, Broken(calls[v]) PROVE Broken(calls'[v])
  <2>1. Broken(mid[v])
    BY <1>3, <1>5, <1>7, AlikeKept, KeptBroken
  <2>2. CASE v # t
    BY <1>3, <2>1, <2>2
  <2>3. CASE v = t
    <3>1. Kept(mid[t], calls'[t])
      BY <1>3, <1>6, RasOnwardKept
    <3> QED BY <1>5, <2>1, <2>3, <3>1, KeptBroken
  <2> QED BY <2>2, <2>3
<1>8. ASSUME w # t PROVE Broken(calls'[w])
  <2>1. calls'[w] = mid[w]
    BY <1>2, <1>3, <1>8
  <2>2. Breakable(mid[w]) = Interruptible(w)
    <3>1. Breakable(mid[w]) = Breakable(calls[w])
      BY <1>2, <1>3, <1>5, AlikeKept
    <3> QED BY <3>1 DEF Interruptible, Breakable
  <2> QED BY <1>3, <2>1, <2>2 DEF Broken
<1>9. ASSUME NEW v \in Tasks
      PROVE  /\ Len(calls'[v]) = Len(calls[v])
             /\ \A i \in 1 .. Len(calls[v]) : calls'[v][i].op = calls[v][i].op
  <2>1. CASE v # t
    BY <1>3, <1>5, <2>1
  <2>2. CASE v = t
    BY <1>3, <1>5, <1>6, <2>2 DEF Onward
  <2> QED BY <2>1, <2>2
<1>10. ASSUME NEW v \in Tasks, NEW u \in Tasks, Breaks(calls'[v], u),
              ~(v = t /\ u = w)
       PROVE  Breaks(calls[v], u)
  <2>1. PICK i \in DOMAIN calls'[v] : calls'[v][i].op = "ras" /\ calls'[v][i].at = "run"
                                      /\ calls'[v][i].lock = u
    BY <1>10 DEF Breaks
  <2>2. i \in 1 .. Len(calls[v]) /\ i \in DOMAIN calls[v]
    BY <1>5, <1>9, <2>1, DomainOf
  <2>3. CASE v # t
    <3>1. mid[v][i].op = "ras" /\ mid[v][i].at = "run" /\ mid[v][i].lock = u
      BY <1>3, <2>1, <2>3
    <3>2. calls[v][i].op = "ras" /\ calls[v][i].at = "run" /\ calls[v][i].lock = u
      BY <1>5, <2>2, <3>1
    <3> QED BY <2>2, <3>2 DEF Breaks
  <2>4. CASE v = t
    <3>1. mid[t][i].op = "ras" /\ mid[t][i].lock = u
      BY <1>3, <1>6, <2>1, <2>2, <2>4 DEF Onward
    <3>2. i # n
      BY <1>6, <1>10, <2>4, <3>1
    <3>3. mid[t][i].at = "run"
      BY <1>3, <1>6, <2>1, <2>2, <2>4, <3>2 DEF Onward
    <3> QED BY <1>5, <2>2, <2>4, <3>1, <3>3 DEF Breaks
  <2> QED BY <2>3, <2>4
<1> QED BY <1>2, <1>3, <1>7, <1>8, <1>9, <1>10 DEF w

LEMMA BreakInvKeeps ==
    ASSUME IInv, BreakInv, [Next]_vars
    PROVE  BreakInv'
<1> SUFFICES ASSUME NEW v \in Tasks, NEW u \in Tasks, v # u, Breaks(calls'[v], u)
             PROVE  Broken(calls'[u])
  BY DEF BreakInv
<1>1. ASSUME Breaks(calls[v], u), Kept(calls[u], calls'[u]) PROVE Broken(calls'[u])
  <2>1. Broken(calls[u]) /\ calls[u] \in Seq(Call)
    BY <1>1, InvParts DEF BreakInv
  <2> QED BY <1>1, <2>1, KeptBroken
<1>2. CASE calls' = calls
  BY <1>2 DEF BreakInv
<1>3. ASSUME NEW t \in Tasks, OnlyMoves(t) PROVE Broken(calls'[u])
  <2>1. Breaks(calls[v], u)
    BY <1>3, MovesBreaks
  <2>2. Kept(calls[u], calls'[u])
    BY <1>3, <2>1, BreakerHasLock, MovesKeep
  <2> QED BY <1>1, <2>1, <2>2
<1>4. ASSUME NEW t \in Tasks, call_brkhdr(t) PROVE Broken(calls'[u])
  <2>1. CASE Breaks(calls[v], u)
    <3>1. Broken(calls[u])
      BY <2>1 DEF BreakInv
    <3> QED BY <1>4, <3>1, NewBreak
  <2>2. CASE v = t /\ u = Innermost(t).lock
    BY <1>4, <2>2, NewBreak
  <2> QED BY <1>4, <2>1, <2>2, NewBreak
<1> QED BY <1>2, <1>3, <1>4, NextMoves

LEMMA InitBreak ==
    ASSUME Init
    PROVE  BreakInv
  BY DEF Init, BreakInv, Breaks

(* subsystem.c:591: while another task runs the break function of a call   *)
(* of a task, the latter is not at the beginning or the end of a call, and *)
(* the call it is in is the one that is broken.                            *)
THEOREM Exclusion ==
    ASSUME ~MayReenter, ~MayTerminateHolder
    PROVE  Spec => []BreakExclusive
<1>1. IInv /\ BreakInv => BreakExclusive
  <2> SUFFICES ASSUME IInv, BreakInv, NEW t \in Tasks, NEW i \in DOMAIN calls[t],
                      calls[t][i].op = "ras", calls[t][i].at = "run",
                      calls[t][i].lock # t
               PROVE  LET u == calls[t][i].lock
                      IN  /\ Interruptible(u) # {} => calls[u][Max(Interruptible(u))].broken
                          /\ At(u, "locked") \/ At(u, "unlock") => Innermost(u).op = "ras"
    BY DEF BreakExclusive
  <2> DEFINE u == calls[t][i].lock
  <2>1. u \in Tasks
    <3>1. calls[t] \in Seq(Call)
      BY InvParts
    <3>2. calls[t][i] \in Call
      BY <3>1, PlacesOf
    <3> QED BY <3>2 DEF Call
  <2>2. Breaks(calls[t], u) /\ t # u
    BY DEF Breaks
  <2> HIDE DEF u
  <2>3. Broken(calls[u]) /\ ~NoOther(u)
    BY <2>1, <2>2, BreakerHasLock DEF BreakInv
  <2>4. Interruptible(u) = Breakable(calls[u])
    BY DEF Interruptible, Breakable
  <2>5. ASSUME At(u, "locked") \/ At(u, "unlock") PROVE Innermost(u).op = "ras"
    <3>1. calls[u] # <<>> /\ InSection(Innermost(u)) /\ Innermost(u).op \in {"svc", "ras"}
      <4>1. CASE At(u, "locked")
        BY <2>1, <4>1, AtIs DEF InSection, Call
      <4>2. CASE At(u, "unlock")
        BY <2>1, <4>2, AtIs DEF InSection, Call
      <4> QED BY <2>5, <4>1, <4>2
    <3> QED BY <2>1, <2>3, <3>1, OwnLock
  <2> QED BY <2>3, <2>4, <2>5 DEF Broken, u
<1>2. Init => BreakInv
  BY InitBreak
<1>3. IInv /\ BreakInv /\ [Next]_vars => BreakInv'
  BY BreakInvKeeps
<1> QED BY <1>1, <1>2, <1>3, Invariance, PTL DEF Spec

-----------------------------------------------------------------------------
(* Break functions that call no tk_ras_tex: a task is inside of one call   *)
(* of it at most, and the tasks that break each other's calls form no      *)
(* circle, for a task in a break function is not broken.                   *)
OneRas(c) ==
    \A i, j \in DOMAIN c : c[i].op = "ras" /\ c[j].op = "ras" => i = j

OrderInv ==
    \A S \in (SUBSET Tasks) \ {{}} :
        \E t \in S : \A u \in S : u # t => ~Breaks(calls[u], t)

CircleInv == (\A t \in Tasks : OneRas(calls[t])) /\ OrderInv

LEMMA OneRasKeeps ==
    ASSUME IInv, ~BreakRaises, [Next]_vars, \A t \in Tasks : OneRas(calls[t]),
           NEW v \in Tasks
    PROVE  OneRas(calls'[v])
<1>1. ASSUME calls'[v] = calls[v] PROVE OneRas(calls'[v])
  BY <1>1
<1>2. ASSUME OnlyMoves(v) PROVE OneRas(calls'[v])
  <2> DEFINE c == calls[v]
             d == calls'[v]
  <2>1. /\ c \in Seq(Call) /\ d \in Seq(Call) /\ OneRas(c) /\ Frames(v, c)
        /\ DOMAIN c = 1 .. Len(c) /\ DOMAIN d = 1 .. Len(d) /\ Len(c) \in Nat
    BY <1>2, InvParts, DomainOf DEF OnlyMoves, TaskOK
  <2> SUFFICES OneRas(d)
    OBVIOUS
  <2> HIDE DEF c, d
  <2>2. CASE d = c
    BY <2>1, <2>2
  <2>3. CASE d = <<>>
    BY <2>3 DEF OneRas
  <2>4. CASE Begins(v)
    <3>1. PICK r \in Call : d = Append(c, r) /\ (r.op = "svc" \/ ~BreakRunning(v))
      BY <2>4 DEF Begins, c, d
    <3>2. /\ Len(d) = Len(c) + 1 /\ d[Len(c) + 1] = r
          /\ \A k \in 1 .. Len(c) : d[k] = c[k]
      BY <2>1, <3>1, BeginCalls
    <3>3. \A k \in DOMAIN d : k \in DOMAIN c \/ k = Len(c) + 1
      BY <2>1, <3>2
    <3>4. CASE r.op = "svc"
      <4>1. \A k \in DOMAIN d : d[k].op = "ras" => k \in DOMAIN c /\ c[k].op = "ras"
        BY <2>1, <3>2, <3>3, <3>4
      <4> QED BY <2>1, <4>1 DEF OneRas
    <3>5. CASE ~BreakRunning(v)
      <4>1. ASSUME NEW k \in DOMAIN c PROVE c[k].op # "ras"
        <5>1. c[k].at = "run"
          <6>1. c # <<>> => c[Len(c)].at = "run"
            BY <2>4, AtIs DEF Begins, c
          <6>2. c # <<>>
            BY <4>1
          <6>3. k < Len(c) \/ k = Len(c)
            BY <2>1
          <6> QED BY <2>1, <6>1, <6>2, <6>3 DEF Frames
        <5> QED BY <3>5, <5>1 DEF BreakRunning, c
      <4>2. \A k \in DOMAIN d : d[k].op = "ras" => k = Len(c) + 1
        BY <2>1, <3>2, <3>3, <4>1
      <4> QED BY <4>2 DEF OneRas
    <3> QED BY <3>1, <3>4, <3>5
  <2>5. CASE Goes(v)
    <3>1. PICK step \in Places : Onward(c, d, step)
      BY <2>5 DEF Goes, c, d
    <3>2. \A k \in DOMAIN d : k \in DOMAIN c /\ d[k].op = c[k].op
      BY <2>1, <3>1 DEF Onward
    <3> QED BY <2>1, <3>2 DEF OneRas
  <2>6. CASE Ends(v)
    <3>1. c # <<>> /\ d = Front(c)
      BY <2>6 DEF Ends, c, d
    <3>2. Len(d) = Len(c) - 1 /\ \A k \in 1 .. Len(c) - 1 : d[k] = c[k]
      BY <2>1, <3>1, FrontCalls
    <3>3. \A k \in DOMAIN d : k \in DOMAIN c /\ d[k] = c[k]
      BY <2>1, <3>2
    <3> QED BY <2>1, <3>3 DEF OneRas
  <2> QED BY <1>2, <2>2, <2>3, <2>4, <2>5, <2>6 DEF OnlyMoves, Moves, c, d
<1>3. ASSUME NEW t \in Tasks, call_brkhdr(t) PROVE OneRas(calls'[v])
  <2>1. /\ Len(calls'[v]) = Len(calls[v]) /\ calls'[v] \in Seq(Call)
        /\ \A i \in 1 .. Len(calls[v]) : calls'[v][i].op = calls[v][i].op
    BY <1>3, NewBreak
  <2>2. DOMAIN calls'[v] = 1 .. Len(calls[v]) /\ DOMAIN calls[v] = 1 .. Len(calls[v])
    BY <2>1, InvParts, DomainOf
  <2>3. OneRas(calls[v])
    OBVIOUS
  <2> QED BY <2>1, <2>2, <2>3 DEF OneRas
<1>4. ASSUME NEW t \in Tasks, OnlyMoves(t) PROVE OneRas(calls'[v])
  <2>1. CASE v = t
    BY <1>2, <1>4, <2>1
  <2>2. CASE v # t
    BY <1>1, <1>4, <2>2 DEF OnlyMoves
  <2> QED BY <2>1, <2>2
<1> QED BY <1>1, <1>3, <1>4, NextMoves

LEMMA OrderKeeps ==
    ASSUME IInv, OrderInv, [Next]_vars
    PROVE  OrderInv'
<1> SUFFICES ASSUME NEW S \in (SUBSET Tasks) \ {{}}
             PROVE  \E x \in S : \A u \in S : u # x => ~Breaks(calls'[u], x)
  BY DEF OrderInv
<1>1. PICK x \in S : \A u \in S : u # x => ~Breaks(calls[u], x)
  BY DEF OrderInv
<1>2. CASE calls' = calls
  BY <1>1, <1>2
<1>3. ASSUME NEW t \in Tasks, OnlyMoves(t)
      PROVE  \E y \in S : \A u \in S : u # y => ~Breaks(calls'[u], y)
  <2>1. \A u \in S : Breaks(calls'[u], x) => Breaks(calls[u], x)
    BY <1>3, MovesBreaks
  <2> QED BY <1>1, <2>1
<1>4. ASSUME NEW t \in Tasks, call_brkhdr(t)
      PROVE  \E y \in S : \A u \in S : u # y => ~Breaks(calls'[u], y)
  <2> DEFINE w == Innermost(t).lock
  <2>1. \A u, y \in S : Breaks(calls'[u], y) => Breaks(calls[u], y) \/ (u = t /\ y = w)
    BY <1>4, NewBreak
  <2>2. w \in Tasks /\ \A y : ~Breaks(calls[w], y)
    <3>1. w \in Tasks
      BY <1>4, NewBreak
    <3>2. ~BreakRunning(w)
      BY <1>4 DEF call_brkhdr, MayBreak
    <3> QED BY <3>1, <3>2 DEF Breaks, BreakRunning
  <2> HIDE DEF w
  <2>3. CASE w \in S /\ w # t
    <3>1. CASE S \ {w} = {}
      <4>1. \A u \in S : u = w
        BY <3>1
      <4> QED BY <2>3, <4>1
    <3>2. CASE S \ {w} # {}
      <4>1. PICK y \in S \ {w} : \A u \in S \ {w} : u # y => ~Breaks(calls[u], y)
        <5>1. S \ {w} \in (SUBSET Tasks) \ {{}}
          BY <3>2
        <5> QED BY <5>1 DEF OrderInv
      <4>2. \A u \in S : u # y => ~Breaks(calls'[u], y)
        BY <2>1, <2>2, <4>1
      <4> QED BY <4>2
    <3> QED BY <3>1, <3>2
  <2>4. CASE ~(w \in S /\ w # t)
    <3>1. \A u \in S : u # x => ~Breaks(calls'[u], x)
      BY <1>1, <2>1, <2>4
    <3> QED BY <3>1
  <2> QED BY <2>3, <2>4
<1> QED BY <1>2, <1>3, <1>4, NextMoves

LEMMA InitCircle ==
    ASSUME Init
    PROVE  CircleInv
<1>1. \A t \in Tasks : OneRas(calls[t]) /\ \A u : ~Breaks(calls[t], u)
  BY DEF Init, OneRas, Breaks
<1>2. OrderInv
  <2> SUFFICES ASSUME NEW S \in (SUBSET Tasks) \ {{}}
               PROVE  \E t \in S : \A u \in S : u # t => ~Breaks(calls[u], t)
    BY DEF OrderInv
  <2>1. S # {}
    OBVIOUS
  <2>2. PICK t \in S : TRUE
    BY <2>1
  <2>3. \A u \in S : ~Breaks(calls[u], t)
    BY <1>1, <2>2
  <2> QED BY <2>2, <2>3
<1> QED BY <1>1, <1>2 DEF CircleInv

(* A task that waits for a lock has others for its break functions only. *)
LEMMA WaiterBreaks ==
    ASSUME IInv, NEW t \in Tasks, klockwait[t], NEW l \in ToSet(svclocked[t])
    PROVE  Breaks(calls[t], l)
<1>1. /\ calls[t] \in Seq(Call) /\ svclocked[t] \in Seq(Tasks)
      /\ Nested(svclocked[t], calls[t]) /\ Frames(t, calls[t])
      /\ calls[t] # <<>> /\ Len(calls[t]) \notin Holding(svclocked[t], calls[t])
  BY InvParts DEF TaskOK
<1>2. PICK place \in [DOMAIN svclocked[t] -> Holding(svclocked[t], calls[t])] :
        \A i \in DOMAIN svclocked[t] : svclocked[t][i] = calls[t][place[i]].lock
  BY <1>1 DEF Nested
<1>3. PICK i \in DOMAIN svclocked[t] : svclocked[t][i] = l
  BY <1>1, PlacesOf
<1> DEFINE h == place[i]
<1>4. h \in Holding(svclocked[t], calls[t]) /\ calls[t][h].lock = l
  BY <1>2, <1>3
<1> HIDE DEF h
<1>5. /\ h \in DOMAIN calls[t] /\ h # Len(calls[t]) /\ InSection(calls[t][h])
  BY <1>1, <1>4 DEF Holding
<1>6. h < Len(calls[t])
  BY <1>1, <1>5, DomainOf
<1>7. calls[t][h].at = "run"
  BY <1>1, <1>5, <1>6 DEF Frames
<1> QED BY <1>4, <1>5, <1>7 DEF Breaks, InSection

(* klock.c: no circle of tasks waits for each other's locks, as long as a  *)
(* break function calls no tk_ras_tex.                                     *)
THEOREM NoDeadlock ==
    ASSUME ~MayReenter, ~MayTerminateHolder, ~BreakRaises
    PROVE  Spec => []NoCircle
<1>1. IInv /\ CircleInv => NoCircle
  <2> SUFFICES ASSUME IInv, CircleInv, NEW S \in (SUBSET Tasks) \ {{}},
                      \A t \in S : klockwait[t] /\ taken[Innermost(t).lock]
                                   /\ Owner(Innermost(t).lock) \in S
               PROVE  FALSE
    BY DEF NoCircle
  <2> DEFINE own(t) == Owner(Innermost(t).lock)
             R == {own(t) : t \in S}
  <2>1. ASSUME NEW t \in S
        PROVE  own(t) \in S /\ Innermost(t).lock \in ToSet(svclocked[own(t)])
    <3>1. /\ LocksOK(svclocked, taken, wtskq, klockwait, Wants)
          /\ Wants[t] = Innermost(t).lock
      BY InvParts DEF Wants
    <3>2. Innermost(t).lock \in Tasks
      BY <3>1 DEF LocksOK
    <3>3. \E u \in Tasks : Innermost(t).lock \in ToSet(svclocked[u])
      BY <3>1, <3>2 DEF LocksOK
    <3> QED BY <3>3 DEF Owner
  <2>2. R \in (SUBSET Tasks) \ {{}}
    BY <2>1
  <2>3. PICK x \in R : \A u \in R : u # x => ~Breaks(calls[u], x)
    <3> HIDE DEF R
    <3> QED BY <2>2 DEF CircleInv, OrderInv
  <2>4. PICK t \in S : x = own(t)
    OBVIOUS
  <2> HIDE DEF own
  <2>5. /\ x \in S /\ x \in Tasks /\ klockwait[x]
        /\ Innermost(t).lock \in ToSet(svclocked[x])
    BY <2>1, <2>4
  <2>6. Breaks(calls[x], Innermost(t).lock)
    BY <2>5, WaiterBreaks
  <2>7. /\ calls[x] \in Seq(Call) /\ svclocked[x] \in Seq(Tasks) /\ Frames(x, calls[x])
        /\ Nested(svclocked[x], calls[x]) /\ calls[x] # <<>>
        /\ Asks(calls[x][Len(calls[x])])
        /\ Len(calls[x]) \notin Holding(svclocked[x], calls[x])
        /\ OneRas(calls[x]) /\ Innermost(x) = calls[x][Len(calls[x])]
    BY <2>5, InvParts, InnermostIs DEF TaskOK, CircleInv
  <2>8. Innermost(x).lock = x
    <3>1. Len(calls[x]) \in DOMAIN calls[x] /\ calls[x][Len(calls[x])] \in Call
      BY <2>7, PlacesOf
    <3>2. PICK h \in DOMAIN calls[x] : calls[x][h].op = "ras" /\ calls[x][h].at = "run"
      BY <2>6 DEF Breaks
    <3>3. h # Len(calls[x])
      BY <2>7, <3>2 DEF Asks
    <3>4. calls[x][Len(calls[x])].op = "svc"
      BY <2>7, <3>1, <3>2, <3>3 DEF OneRas, Call
    <3> QED BY <2>7, <3>1, <3>4 DEF Frames
  <2>9. own(x) \in S /\ own(x) \in R /\ x \in ToSet(svclocked[own(x)])
    BY <2>1, <2>5, <2>8
  <2>10. own(x) # x
    BY <2>7, <2>8, <2>9, NotHeld
  <2>11. Breaks(calls[own(x)], x)
    BY <2>9, WaiterBreaks
  <2> QED BY <2>3, <2>9, <2>10, <2>11
<1>2. Init => CircleInv
  BY InitCircle
<1>3. IInv /\ CircleInv /\ [Next]_vars => CircleInv'
  BY OneRasKeeps, OrderKeeps DEF CircleInv
<1> QED BY <1>1, <1>2, <1>3, Invariance, PTL DEF Spec
=============================================================================
