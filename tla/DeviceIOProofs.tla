--------------------------- MODULE DeviceIOProofs ---------------------------
(***************************************************************************)
(* What is proved of opening, closing and using a device, for any tasks,   *)
(* opens and requests.                                                     *)
(***************************************************************************)
EXTENDS DeviceIO, QueueLemmas, FiniteSetTheorems

OPNCB == [resid : {-1, 0, 1}, syncreq : Int, waitone : Int, nwaireq : Nat,
          abort_tskid : DevTasks \cup {NoTask}, abort_cnt : Int]
REQCB == [opncb : Opens \cup {NoOpen}, tskid : DevTasks \cup {NoTask}]

OpenPlaces == {"openSync", "openNext", "opening"}
QueuePlaces == {"closeSync", "closeNext", "closing"}
AbortPlaces == {"abortLook", "abortSync"}
DrainPlaces == {"abortEnd", "drain", "draining"}
ClosePlaces == {"abort"} \cup AbortPlaces \cup DrainPlaces \cup QueuePlaces
UsePlaces == {"exec", "executed", "wait"}
Places == {"out"} \cup OpenPlaces \cup ClosePlaces \cup UsePlaces

Context == [pc : Places, opn : Opens \cup {NoOpen}, reqs : SUBSET Reqs,
            sync : BOOLEAN, any : BOOLEAN, call : BOOLEAN]

DevTypeOK ==
    /\ opn \in [Opens -> OPNCB] /\ req \in [Reqs -> REQCB]
    /\ at \in [DevTasks -> Context]
    /\ openq \subseteq Opens /\ disabled \subseteq DevTasks /\ told \subseteq DevTasks
    /\ driver \in BOOLEAN /\ disturbed \in BOOLEAN /\ uncounted \in BOOLEAN

-----------------------------------------------------------------------------
(* The invariant, part by part                                             *)

InSync == {t \in DevTasks : at[t].pc \in OpenPlaces \cup QueuePlaces}

(* Who opens or closes is in the queue, and the first goes on or has been  *)
(* woken.                                                                  *)
InTurn ==
    /\ Linked(DevTasks, syncq, InSync)
    /\ syncq # <<>> => Processing(Head(syncq)) \/ Head(syncq) \in disabled

Handles(t, o) == at[t].opn = o /\ at[t].pc \in OpenPlaces \cup ClosePlaces

(* An open is opened or closed by one task. *)
Handled ==
    /\ \A o \in Opens : opn[o].resid # 0 => o \in openq
    /\ \A t \in DevTasks :
        /\ at[t].pc \in OpenPlaces => at[t].opn \in openq /\ opn[at[t].opn].resid = 0
        /\ at[t].pc \in ClosePlaces => at[t].opn \in openq /\ opn[at[t].opn].resid = -1
    /\ \A t, u \in DevTasks, o \in Opens : Handles(t, o) /\ Handles(u, o) => t = u

(* The tasks for which the driver works on requests of o *)
Calls(o) == {u \in DevTasks : InDriver(u) /\ at[u].opn = o}

(* Requests in process belong to tasks, and their opens are in use; after  *)
(* a drain there are none.                                                 *)
InProcess ==
    /\ \A r \in Reqs : LET u == req[r].tskid
                       IN  u # NoTask => InDriver(u) /\ r \in at[u].reqs
    /\ \A t \in DevTasks :
        /\ at[t].pc \in UsePlaces => at[t].opn \in Opens /\ at[t].reqs # {}
        /\ at[t].pc \in UsePlaces /\ ~at[t].any => \A r, q \in at[t].reqs : r = q
        /\ at[t].any => at[t].pc = "wait" /\ opn[at[t].opn].nwaireq > 0
        /\ \A u \in DevTasks : at[t].any /\ at[u].any /\ at[t].opn = at[u].opn => t = u
        /\ InDriver(t) => opn[at[t].opn].resid # 0
        /\ at[t].pc \in QueuePlaces => Requests(at[t].opn) = {}
    /\ \A o \in Opens : opn[o].nwaireq > 0 => \E t \in Calls(o) : at[t].any

(* A close counts driver calls that it has asked to end. *)
AbortFact(t) ==
    LET o == at[t].opn
    IN  /\ at[t].pc \in AbortPlaces =>
                /\ opn[o].abort_tskid = t
                /\ opn[o].abort_cnt <= Cardinality(Calls(o) \cap told)
        /\ at[t].pc = "abortSync" => opn[o].abort_cnt > 0 \/ t \in disabled

Aborts(u, o) == at[u].opn = o /\ at[u].pc \in AbortPlaces \cup {"abortEnd"}

Aborting ==
    /\ \A t \in DevTasks : AbortFact(t)
    /\ \A o \in Opens : LET u == opn[o].abort_tskid IN u # NoTask => Aborts(u, o)

(* What holds until a wakeup comes early: nobody is woken before it is its *)
(* turn.                                                                   *)
Woken(t) ==
    \/ at[t].pc \in AbortPlaces /\ opn[at[t].opn].abort_cnt <= 0
    \/ at[t].pc \in {"openSync", "closeSync"} /\ t = Head(syncq)

OneByOne ==
    /\ \A t \in disabled : Woken(t)
    /\ \A t \in DevTasks : Processing(t) => t = Head(syncq)
    /\ \A t \in DevTasks : at[t].pc = "abortEnd" => opn[at[t].opn].abort_cnt <= 0

DriverKnows ==
    /\ driver <=> \E o \in openq : opn[o].resid # 0
    /\ \A t \in DevTasks : at[t].pc \in {"opening", "closing"} => (at[t].call <=> ~chkopen(t))

(* What holds until a wait for any request overlaps another call *)
Counted ==
    /\ \A t, u \in DevTasks :
        InDriver(t) /\ InDriver(u) /\ at[t].opn = at[u].opn /\ at[t].any => t = u
    /\ \A t \in DevTasks : at[t].pc \in AbortPlaces =>
        opn[at[t].opn].abort_cnt = Cardinality(Calls(at[t].opn))

Drained ==
    /\ Served
    /\ \A t \in DevTasks :
        /\ at[t].pc \in DrainPlaces => Calls(at[t].opn) = {}
        /\ at[t].pc = "draining" => at[t].reqs \subseteq Requests(at[t].opn)

DevInv ==
    /\ DevTypeOK
    /\ InTurn /\ Handled /\ InProcess /\ Aborting
    /\ ~disturbed => OneByOne /\ DriverKnows
    /\ ~uncounted => ~disturbed /\ Counted /\ Drained

-----------------------------------------------------------------------------
(* Steps of one task                                                       *)

(* The task t stands elsewhere and the others where they stood. *)
Turned(t, w) ==
    at' \in [DevTasks -> Context] /\ at'[t] = w /\ \A u \in DevTasks \ {t} : at'[u] = at[u]

LEMMA Turns ==
    ASSUME DevTypeOK, NEW t \in DevTasks, NEW w \in Context, at' = [at EXCEPT ![t] = w]
    PROVE  Turned(t, w)
  BY DEF DevTypeOK, Turned

LEMMA Going ==
    ASSUME DevTypeOK, NEW t \in DevTasks, NEW p \in Places, Goes(t, p)
    PROVE  /\ Turned(t, [at[t] EXCEPT !.pc = p]) /\ at'[t].pc = p
           /\ at'[t].opn = at[t].opn /\ at'[t].reqs = at[t].reqs /\ at'[t].sync = at[t].sync
           /\ at'[t].any = at[t].any /\ at'[t].call = at[t].call
<1> DEFINE w == [at[t] EXCEPT !.pc = p]
<1>1. at[t] \in Context /\ at' = [at EXCEPT ![t] = w]
  BY DEF DevTypeOK, Goes
<1>2. /\ w \in Context /\ w.pc = p /\ w.opn = at[t].opn /\ w.reqs = at[t].reqs
      /\ w.sync = at[t].sync /\ w.any = at[t].any /\ w.call = at[t].call
  BY <1>1 DEF Context
<1> HIDE DEF w
<1>3. Turned(t, w)
  BY <1>1, <1>2, Turns
<1> QED BY <1>2, <1>3 DEF Turned, w

LEMMA Leaving ==
    ASSUME DevTypeOK, NEW t \in DevTasks, Leaves(t)
    PROVE  /\ Turned(t, Outside) /\ at'[t].pc = "out" /\ at'[t].reqs = {} /\ ~at'[t].any
<1>1. /\ Outside \in Context /\ Outside.pc = "out" /\ Outside.reqs = {} /\ ~Outside.any
  BY DEF Outside, Context, Places
<1>2. Turned(t, Outside)
  BY <1>1, Turns DEF Leaves
<1> QED BY <1>1, <1>2 DEF Turned

(* An open of the table becomes z. *)
OpenTurned(o, z) ==
    opn' \in [Opens -> OPNCB] /\ opn'[o] = z /\ \A c \in Opens \ {o} : opn'[c] = opn[c]

LEMMA OpenTurns ==
    ASSUME DevTypeOK, NEW o \in Opens, NEW z \in OPNCB, opn' = [opn EXCEPT ![o] = z]
    PROVE  OpenTurned(o, z)
  BY DEF DevTypeOK, OpenTurned

LEMMA NewOpenIs ==
    /\ NewOpen \in OPNCB /\ NewOpen.resid = 0 /\ NewOpen.nwaireq = 0
    /\ NewOpen.abort_tskid = NoTask /\ NewOpen.abort_cnt = 0
  BY DEF NewOpen, OPNCB

-----------------------------------------------------------------------------
(* What steps keep of the invariant                                        *)

LEMMA HeadStays ==
    ASSUME NEW S, NEW s, NEW A, Linked(S, s, A), NEW t \in A, t # Head(s)
    PROVE  RemoveFirst(s, t) # <<>> /\ Head(RemoveFirst(s, t)) = Head(s)
<1> DEFINE r == RemoveFirst(s, t)
<1>1. PICK k \in 1 .. Len(s) : s[k] = t /\ Without(S, r, s, k)
  BY RemovedPlace
<1>2. s \in Seq(S) /\ Len(s) \in Nat
  BY DEF Linked
<1>3. s # <<>>
  BY <1>1, <1>2
<1>4. Head(s) = s[1]
  BY <1>2, <1>3, HeadTailProperties
<1> HIDE DEF r
<1>5. k # 1 /\ k >= 2 /\ Len(s) >= 2
  BY <1>1, <1>2, <1>4
<1>6. r \in Seq(S) /\ Len(r) >= 1 /\ r[1] = s[1]
  BY <1>1, <1>2, <1>5 DEF Without
<1>7. r # <<>> /\ Head(r) = r[1]
  BY <1>6
<1> QED BY <1>4, <1>6, <1>7 DEF r

(* The queue of those who open and close stays as it is. *)
LEMMA TurnKept ==
    ASSUME InTurn, InSync' = InSync, syncq' = syncq,
           \A u \in InSync : Processing(u) => Processing(u)',
           \A u \in InSync : u \in disabled => u \in disabled'
    PROVE  InTurn'
<1>1. syncq # <<>> => Head(syncq) \in InSync
  BY HeadLinked DEF InTurn
<1> QED BY <1>1 DEF InTurn

(* No open changes hands. *)
LEMMA HandledKept ==
    ASSUME Handled, openq' = openq, \A o \in Opens : opn'[o].resid = opn[o].resid,
           openq \subseteq Opens,
           \A u \in DevTasks :
                \/ at'[u] = at[u]
                \/ at'[u].pc \notin OpenPlaces \cup ClosePlaces
                \/ /\ at'[u].opn = at[u].opn
                   /\ at'[u].pc \in OpenPlaces => at[u].pc \in OpenPlaces
                   /\ at'[u].pc \in ClosePlaces => at[u].pc \in ClosePlaces
    PROVE  Handled'
<1>1. ASSUME NEW u \in DevTasks
      PROVE  /\ at'[u].pc \in OpenPlaces => at[u].pc \in OpenPlaces /\ at'[u].opn = at[u].opn
             /\ at'[u].pc \in ClosePlaces => at[u].pc \in ClosePlaces /\ at'[u].opn = at[u].opn
  BY <1>1
<1>2. \A u \in DevTasks, o \in Opens : Handles(u, o)' => Handles(u, o)
  BY <1>1 DEF Handles
<1>3. ASSUME NEW u \in DevTasks
      PROVE  /\ at'[u].pc \in OpenPlaces => at'[u].opn \in openq /\ opn'[at'[u].opn].resid = 0
             /\ at'[u].pc \in ClosePlaces => at'[u].opn \in openq /\ opn'[at'[u].opn].resid = -1
  BY <1>1 DEF Handled
<1>4. \A t, u \in DevTasks, o \in Opens : Handles(t, o)' /\ Handles(u, o)' => t = u
  BY <1>2 DEF Handled
<1>5. \A o \in Opens : opn'[o].resid # 0 => o \in openq'
  BY DEF Handled
<1> QED BY <1>3, <1>4, <1>5 DEF Handled

(* A step of t in which nothing is asked of the driver *)
Aside(t) ==
    /\ ~InDriver(t) /\ at'[t].pc \notin UsePlaces /\ ~at'[t].any
    /\ \A u \in DevTasks \ {t} : at'[u] = at[u]

LEMMA CallsKept ==
    ASSUME NEW t \in DevTasks, Aside(t)
    PROVE  /\ \A u \in DevTasks : InDriver(u) => u # t /\ at'[u] = at[u]
           /\ \A u \in DevTasks : InDriver(u)' => u # t /\ at'[u] = at[u]
           /\ \A u \in DevTasks : InDriver(u)' <=> InDriver(u)
           /\ \A o : Calls(o)' = Calls(o)
<1>1. \A u \in DevTasks : InDriver(u) => u # t /\ at'[u] = at[u]
  BY DEF Aside, InDriver, UsePlaces
<1>2. \A u \in DevTasks : InDriver(u)' => u # t /\ at'[u] = at[u]
  BY DEF Aside, InDriver, UsePlaces
<1>3. \A u \in DevTasks : InDriver(u)' <=> InDriver(u)
  BY <1>1, <1>2 DEF InDriver
<1> QED BY <1>1, <1>2, <1>3 DEF Calls

LEMMA ProcessKept ==
    ASSUME DevTypeOK, InProcess, NEW t \in DevTasks, Aside(t),
           \A r \in Reqs : req'[r] = req[r] \/ req'[r] = FreeReq,
           at'[t].pc \in QueuePlaces => at'[t].opn \in Opens /\ Requests(at'[t].opn) = {},
           \A u \in DevTasks : at[u].pc \in QueuePlaces => at[u].opn \in Opens,
           \A o \in Opens : \/ opn'[o].nwaireq = opn[o].nwaireq
                            \/ Calls(o) = {} /\ opn'[o].nwaireq = 0,
           \A o \in Opens : opn[o].resid # 0 => opn'[o].resid # 0 \/ Calls(o) = {}
    PROVE  InProcess'
<1>1. /\ \A u \in DevTasks : InDriver(u) => u # t /\ at'[u] = at[u]
      /\ \A u \in DevTasks : InDriver(u)' <=> InDriver(u)
      /\ \A o : Calls(o)' = Calls(o)
  BY CallsKept
<1>2. /\ FreeReq.tskid = NoTask /\ FreeReq.opncb = NoOpen
      /\ \A r \in Reqs : req[r].tskid \in DevTasks \cup {NoTask}
      /\ NoOpen \notin Opens
  BY DeviceIOAssumption DEF FreeReq, DevTypeOK, REQCB
<1>3. ASSUME NEW r \in Reqs, req'[r].tskid # NoTask
      PROVE  InDriver(req[r].tskid)' /\ r \in at'[req'[r].tskid].reqs
  <2>1. req'[r] = req[r]
    BY <1>2, <1>3
  <2>2. InDriver(req[r].tskid) /\ r \in at[req[r].tskid].reqs
    BY <1>3, <2>1 DEF InProcess
  <2> QED BY <1>1, <1>2, <1>3, <2>1, <2>2
<1>4. \A o \in Opens : Requests(o) = {} => Requests(o)' = {}
  BY <1>2 DEF Requests
<1>5. ASSUME NEW u \in DevTasks, u # t
      PROVE  /\ at'[u].pc \in UsePlaces => at'[u].opn \in Opens /\ at'[u].reqs # {}
             /\ at'[u].pc \in UsePlaces /\ ~at'[u].any => \A r, q \in at'[u].reqs : r = q
             /\ at'[u].any => at'[u].pc = "wait"
             /\ at'[u].pc \in QueuePlaces => Requests(at[u].opn)' = {}
  BY <1>4, <1>5 DEF InProcess, Aside
<1>6. at'[t].pc \in QueuePlaces => Requests(at[t].opn)' = {}
  BY <1>4
<1>7. ASSUME NEW u \in DevTasks
      PROVE  /\ at'[u].pc \in UsePlaces => at'[u].opn \in Opens /\ at'[u].reqs # {}
             /\ at'[u].pc \in UsePlaces /\ ~at'[u].any => \A r, q \in at'[u].reqs : r = q
             /\ at'[u].any => at'[u].pc = "wait"
             /\ at'[u].pc \in QueuePlaces => Requests(at[u].opn)' = {}
  BY <1>5, <1>6 DEF Aside
<1>8. ASSUME NEW u \in DevTasks, InDriver(u)'
      PROVE  at'[u] = at[u] /\ at[u].opn \in Opens /\ u \in Calls(at[u].opn)
  BY <1>1, <1>8 DEF InProcess, Calls, InDriver, UsePlaces
<1>9. \A u \in DevTasks : InDriver(u)' => opn'[at'[u].opn].resid # 0
  BY <1>1, <1>8 DEF InProcess
<1>10. \A u \in DevTasks : at'[u].any => opn'[at'[u].opn].nwaireq > 0
  <2> TAKE u \in DevTasks
  <2>1. at'[u].any => InDriver(u)'
    BY <1>7 DEF InDriver
  <2> QED BY <1>8, <2>1 DEF InProcess
<1>11. \A u, v \in DevTasks : at'[u].any /\ at'[v].any /\ at'[u].opn = at'[v].opn => u = v
  BY DEF InProcess, Aside
<1>12. \A o \in Opens : opn'[o].nwaireq > 0 => \E u \in Calls(o)' : at'[u].any
  <2> TAKE o \in Opens
  <2>1. opn'[o].nwaireq > 0 => opn[o].nwaireq > 0
    OBVIOUS
  <2>2. \A u \in Calls(o) : at'[u] = at[u]
    BY <1>1 DEF Calls
  <2> QED BY <1>1, <2>1, <2>2 DEF InProcess
<1> QED BY <1>3, <1>7, <1>9, <1>10, <1>11, <1>12 DEF InProcess

LEMMA AbortKept ==
    ASSUME DevTypeOK, Handled, Aborting, NEW t \in DevTasks, Aside(t), AbortFact(t)',
           \A u \in DevTasks \ {t} : at[u].pc \in AbortPlaces =>
                /\ opn'[at[u].opn].abort_tskid = opn[at[u].opn].abort_tskid
                /\ opn'[at[u].opn].abort_cnt = opn[at[u].opn].abort_cnt,
           told \subseteq told',
           \A u \in disabled \ {t} : u \in disabled',
           \A o \in Opens : LET u == opn'[o].abort_tskid
                            IN  \/ u = NoTask
                                \/ u = t /\ Aborts(t, o)'
                                \/ u = opn[o].abort_tskid /\ u # t
    PROVE  Aborting'
<1>1. \A o : Calls(o)' = Calls(o)
  BY CallsKept
<1>2. ASSUME NEW u \in DevTasks, u # t
      PROVE  AbortFact(u)'
  <2>1. at'[u] = at[u] /\ AbortFact(u)
    BY <1>2 DEF Aside, Aborting
  <2>2. at[u].pc = "abortSync" => at[u].pc \in AbortPlaces
    BY DEF AbortPlaces
  <2> DEFINE o == at[u].opn
  <2>3. at[u].pc \in AbortPlaces => opn'[o].abort_cnt <= Cardinality(Calls(o)' \cap told')
    <3> SUFFICES ASSUME at[u].pc \in AbortPlaces
                 PROVE  opn'[o].abort_cnt <= Cardinality(Calls(o)' \cap told')
      OBVIOUS
    <3>1. /\ opn[o].abort_cnt <= Cardinality(Calls(o) \cap told)
          /\ opn'[o].abort_cnt = opn[o].abort_cnt
      BY <1>2, <2>1 DEF AbortFact
    <3>2. opn[o].abort_cnt \in Int
      BY <1>2 DEF DevTypeOK, OPNCB, Handled, ClosePlaces
    <3>3. IsFiniteSet(Calls(o) \cap told')
      BY DeviceIOAssumption, FS_Subset DEF Calls
    <3>4. Cardinality(Calls(o) \cap told) <= Cardinality(Calls(o) \cap told')
      BY <3>3, FS_Subset
    <3>5. /\ Cardinality(Calls(o) \cap told) \in Nat
          /\ Cardinality(Calls(o) \cap told') \in Nat
      <4>1. IsFiniteSet(Calls(o) \cap told)
        BY <3>3, FS_Subset
      <4> QED BY <3>3, <4>1, FS_CardinalityType
    <3>6. Calls(o)' \cap told' = Calls(o) \cap told'
      BY <1>1, <2>1 DEF Calls
    <3>7. opn[o].abort_cnt <= Cardinality(Calls(o) \cap told')
      BY <3>1, <3>2, <3>4, <3>5
    <3> QED BY <3>1, <3>6, <3>7
  <2> QED BY <1>1, <1>2, <2>1, <2>2, <2>3 DEF AbortFact
<1>3. ASSUME NEW o \in Opens, opn'[o].abort_tskid # NoTask
      PROVE  Aborts(opn[o].abort_tskid, o)'
  <2> PICK u : u = opn'[o].abort_tskid
    OBVIOUS
  <2>1. CASE u = t /\ Aborts(t, o)'
    BY <2>1
  <2>2. CASE u = opn[o].abort_tskid /\ u # t
    <3>1. Aborts(u, o) /\ u \in DevTasks \ {t}
      BY <1>3, <2>2 DEF Aborting, DevTypeOK, OPNCB
    <3> QED BY <3>1 DEF Aborts, Aside
  <2> QED BY <1>3, <2>1, <2>2
<1> QED BY <1>2, <1>3 DEF Aborting

(* Nobody is woken whose turn it is not; the first in the queue stays. *)
LEMMA OneByOneKept ==
    ASSUME DevTypeOK, OneByOne, NEW t \in DevTasks,
           \A u \in DevTasks \ {t} : at'[u] = at[u],
           \A u \in DevTasks \ {t} :
                /\ at[u].pc \in AbortPlaces \cup {"abortEnd"}
                /\ opn[at[u].opn].abort_cnt <= 0
                => opn'[at[u].opn].abort_cnt <= 0,
           \A u \in disabled' : u \in disabled \ {t} \/ Woken(u)',
           syncq' = syncq \/ (syncq # <<>> /\ Head(syncq') = Head(syncq))
             \/ (syncq = <<>> /\ InTurn),
           Processing(t)' => t = Head(syncq'),
           at'[t].pc = "abortEnd" => opn'[at'[t].opn].abort_cnt <= 0
    PROVE  OneByOne'
<1>1. ASSUME NEW u \in DevTasks, u # t,
             Processing(u) \/ at[u].pc \in {"openSync", "closeSync"}, u = Head(syncq)
      PROVE  u = Head(syncq')
  <2>1. u \in InSync
    BY <1>1 DEF InSync, Processing, OpenPlaces, QueuePlaces
  <2>2. CASE syncq = <<>> /\ InTurn
    BY <2>1, <2>2, EmptyLinked DEF InTurn
  <2> QED BY <1>1, <2>2
<1>2. ASSUME NEW u \in disabled, u # t
      PROVE  Woken(u)'
  <2>1. at'[u] = at[u] /\ Woken(u) /\ u \in DevTasks
    BY <1>2 DEF OneByOne, DevTypeOK
  <2> QED BY <1>1, <1>2, <2>1 DEF Woken
<1>3. \A u \in disabled' : Woken(u)'
  BY <1>2
<1>4. ASSUME NEW u \in DevTasks \ {t}, Processing(u)'
      PROVE  u = Head(syncq')
  BY <1>1, <1>4 DEF OneByOne, Processing
<1>5. ASSUME NEW u \in DevTasks \ {t}, at'[u].pc = "abortEnd"
      PROVE  opn'[at'[u].opn].abort_cnt <= 0
  BY <1>5 DEF OneByOne
<1> QED BY <1>3, <1>4, <1>5 DEF OneByOne

LEMMA DriverKept ==
    ASSUME DriverKnows, NEW t \in DevTasks, driver' = driver,
           \A u \in DevTasks \ {t} : at'[u] = at[u],
           \A o : o \in openq /\ opn[o].resid # 0 <=> o \in openq' /\ opn'[o].resid # 0,
           at'[t].pc \in {"opening", "closing"} =>
                /\ at'[t].call <=> ~\E o \in openq \ {at'[t].opn} : opn[o].resid # 0
    PROVE  DriverKnows'
<1>1. \A u \in DevTasks \ {t} : chkopen(u)' <=> chkopen(u)
  BY DEF chkopen
<1>2. chkopen(t)' <=> \E o \in openq \ {at'[t].opn} : opn[o].resid # 0
  BY DEF chkopen
<1>3. driver' <=> \E o \in openq' : opn'[o].resid # 0
  BY DEF DriverKnows
<1>4. \A u \in DevTasks \ {t} : at'[u].pc \in {"opening", "closing"} => (at'[u].call <=> ~chkopen(u)')
  BY <1>1 DEF DriverKnows
<1> QED BY <1>2, <1>3, <1>4 DEF DriverKnows

LEMMA CountedKept ==
    ASSUME Counted, NEW t \in DevTasks, Aside(t),
           \A u \in DevTasks \ {t} : at[u].pc \in AbortPlaces =>
                opn'[at[u].opn].abort_cnt = opn[at[u].opn].abort_cnt,
           at'[t].pc \in AbortPlaces =>
                opn'[at'[t].opn].abort_cnt = Cardinality(Calls(at'[t].opn))
    PROVE  Counted'
<1>1. /\ \A u \in DevTasks : InDriver(u)' => InDriver(u) /\ at'[u] = at[u]
      /\ \A o : Calls(o)' = Calls(o)
  BY CallsKept
<1>2. \A u, v \in DevTasks :
        InDriver(u)' /\ InDriver(v)' /\ at'[u].opn = at'[v].opn /\ at'[u].any => u = v
  BY <1>1 DEF Counted
<1>3. ASSUME NEW u \in DevTasks, at'[u].pc \in AbortPlaces
      PROVE  opn'[at'[u].opn].abort_cnt = Cardinality(Calls(at[u].opn)')
  BY <1>1, <1>3 DEF Counted, Aside
<1> QED BY <1>2, <1>3 DEF Counted

LEMMA DrainedKept ==
    ASSUME Drained, NEW t \in DevTasks, Aside(t), req' = req,
           \A o \in openq : o \in openq' \/ Calls(o) = {},
           at'[t].pc \in DrainPlaces => Calls(at'[t].opn) = {},
           at'[t].pc = "draining" => at'[t].reqs \subseteq Requests(at'[t].opn)
    PROVE  Drained'
<1>1. /\ \A u \in DevTasks : InDriver(u)' => InDriver(u) /\ at'[u] = at[u]
      /\ \A o : Calls(o)' = Calls(o)
  BY CallsKept
<1>2. \A o : Requests(o)' = Requests(o)
  BY DEF Requests
<1>3. ASSUME NEW u \in DevTasks, InDriver(u)'
      PROVE  /\ at'[u].opn \in openq'
             /\ \A r \in at'[u].reqs : req'[r] = [opncb |-> at'[u].opn, tskid |-> u]
  <2>1. at'[u] = at[u] /\ InDriver(u) /\ u \in Calls(at[u].opn)
    BY <1>1, <1>3 DEF Calls
  <2> QED BY <2>1 DEF Drained, Served
<1>4. ASSUME NEW u \in DevTasks
      PROVE  /\ at'[u].pc \in DrainPlaces => Calls(at[u].opn)' = {}
             /\ at'[u].pc = "draining" => at'[u].reqs \subseteq Requests(at[u].opn)'
  BY <1>1, <1>2 DEF Drained, Aside
<1> QED BY <1>3, <1>4 DEF Drained, Served

-----------------------------------------------------------------------------
(* Whose the opens are                                                     *)

LEMMA OpenApart ==
    ASSUME Handled, NEW t \in DevTasks, NEW o \in Opens, Handles(t, o)
    PROVE  \A u \in DevTasks \ {t} : at[u].pc \in OpenPlaces \cup ClosePlaces => at[u].opn # o
  BY DEF Handled, Handles

LEMMA OpenFree ==
    ASSUME Handled, NEW o \in Opens, opn[o].resid = 1 \/ o \notin openq
    PROVE  \A u \in DevTasks : at[u].pc \in OpenPlaces \cup ClosePlaces => at[u].opn # o
  BY DEF Handled

LEMMA OpenUnused ==
    ASSUME InProcess, NEW o \in Opens, opn[o].resid = 0
    PROVE  Calls(o) = {}
  BY DEF InProcess, Calls

(* Whoever opens or closes calls the driver for no request. *)
LEMMA PlacesApart ==
    ASSUME InProcess, NEW t \in DevTasks
    PROVE  /\ at[t].pc \in OpenPlaces \cup ClosePlaces \cup {"out"}
                => at[t].pc \notin UsePlaces /\ ~InDriver(t) /\ ~at[t].any
           /\ at[t].pc \in ClosePlaces => at[t].pc \notin OpenPlaces
           /\ Processing(t) => at[t].pc \in OpenPlaces \cup QueuePlaces
  BY DEF InProcess, InDriver, Processing, OpenPlaces, ClosePlaces, AbortPlaces, DrainPlaces,
         QueuePlaces, UsePlaces

(* The task t goes on with an open or a close. *)
GoesOn(t) ==
    /\ \A u \in DevTasks \ {t} : at'[u] = at[u]
    /\ at'[t].opn = at[t].opn /\ ~at'[t].any
    /\ at[t].pc \in OpenPlaces \cup ClosePlaces
    /\ at'[t].pc \in OpenPlaces <=> at[t].pc \in OpenPlaces
    /\ at'[t].pc \in ClosePlaces <=> at[t].pc \in ClosePlaces
    /\ at'[t].pc \in QueuePlaces <=> at[t].pc \in QueuePlaces
    /\ at'[t].pc \in AbortPlaces => at[t].pc \in AbortPlaces
    /\ Processing(t) => Processing(t)'
    /\ \A u \in disabled \ {t} : u \in disabled'
    /\ t \in disabled => t \in disabled' \/ Processing(t)' \/ at[t].pc \in AbortPlaces
    /\ \A o \in Opens : /\ opn'[o].resid = opn[o].resid
                        /\ opn'[o].nwaireq = opn[o].nwaireq
                        /\ opn'[o].abort_cnt = opn[o].abort_cnt
    /\ \A r \in Reqs : req'[r] = req[r] \/ req'[r] = FreeReq
    /\ UNCHANGED <<openq, syncq, told, driver>>

LEMMA GoingOn ==
    ASSUME DevInv, NEW t \in DevTasks, GoesOn(t)
    PROVE  /\ Aside(t) /\ InTurn' /\ Handled' /\ InProcess' /\ (~uncounted => Counted')
           /\ \A u \in DevTasks : at[u].pc \in ClosePlaces => at[u].opn \in Opens
<1>1. /\ DevTypeOK /\ InTurn /\ Handled /\ InProcess
      /\ openq \subseteq Opens
  BY DEF DevInv, DevTypeOK
<1>2. Aside(t)
  <2>1. ~InDriver(t) /\ at'[t].pc \notin UsePlaces
    BY <1>1, PlacesApart DEF GoesOn, OpenPlaces, ClosePlaces, UsePlaces, AbortPlaces,
        DrainPlaces, QueuePlaces
  <2> QED BY <2>1 DEF Aside, GoesOn
<1>3. \A u \in DevTasks : at[u].pc \in ClosePlaces => at[u].opn \in Opens
  BY <1>1 DEF Handled
<1>4. Handled'
  BY <1>1, HandledKept DEF GoesOn
<1>5. InTurn'
  <2>1. \A u \in DevTasks : u \in InSync' <=> u \in InSync
    BY DEF GoesOn, InSync
  <2>2. InSync' = InSync
    BY <2>1 DEF InSync
  <2>3. \A u \in InSync : Processing(u) => Processing(u)'
    BY DEF GoesOn, InSync, Processing
  <2>4. t \in InSync => at[t].pc \notin AbortPlaces
    BY DEF InSync, OpenPlaces, QueuePlaces, AbortPlaces
  <2>5. syncq # <<>> => Head(syncq) \in InSync
    BY <1>1, HeadLinked DEF InTurn
  <2> QED BY <1>1, <2>2, <2>3, <2>4, <2>5 DEF InTurn, GoesOn
<1>6. InProcess'
  <2>1. /\ \A u \in DevTasks : at[u].pc \in QueuePlaces => at[u].opn \in Opens
        /\ at'[t].pc \in QueuePlaces => at'[t].opn \in Opens /\ Requests(at'[t].opn) = {}
    BY <1>1, <1>3 DEF GoesOn, InProcess, ClosePlaces
  <2> QED BY <1>1, <1>2, <2>1, ProcessKept DEF GoesOn
<1>7. ASSUME ~uncounted
      PROVE  Counted'
  <2>1. Counted
    BY <1>7 DEF DevInv
  <2>2. \A u \in DevTasks : at[u].pc \in AbortPlaces => at[u].opn \in Opens
    BY <1>3 DEF ClosePlaces
  <2> QED BY <1>2, <2>1, <2>2, CountedKept DEF GoesOn, Counted
<1> QED BY <1>2, <1>3, <1>4, <1>5, <1>6, <1>7

LEMMA GoingOnDriver ==
    ASSUME DevInv, NEW t \in DevTasks, GoesOn(t), ~disturbed,
           at'[t].pc \in {"opening", "closing"} => (at'[t].call <=> ~chkopen(t))
    PROVE  DriverKnows'
<1>1. DriverKnows /\ openq \subseteq Opens
  BY DEF DevInv, DevTypeOK
<1>2. \A o : o \in openq /\ opn[o].resid # 0 <=> o \in openq' /\ opn'[o].resid # 0
  BY <1>1 DEF GoesOn
<1> QED BY <1>1, <1>2, DriverKept DEF GoesOn, chkopen

LEMMA GoingOnDrained ==
    ASSUME DevInv, NEW t \in DevTasks, GoesOn(t), req' = req, ~disturbed, ~uncounted,
           at'[t].pc \in DrainPlaces => at[t].pc \in DrainPlaces \/ Calls(at[t].opn) = {},
           at'[t].pc = "draining" => at'[t].reqs \subseteq Requests(at[t].opn)
    PROVE  Drained'
<1>1. Drained
  BY DEF DevInv
<1> QED BY <1>1, GoingOn, DrainedKept DEF GoesOn, Drained

-----------------------------------------------------------------------------
(* Steps of an open or a close between its first and its last one          *)

LEMMA AbortsOn ==
    ASSUME DevInv, NEW t \in DevTasks, GoesOn(t), told' = told, AbortFact(t)',
           at[t].pc \in AbortPlaces \cup {"abortEnd"} =>
                \/ at'[t].pc \in AbortPlaces \cup {"abortEnd"}
                \/ opn'[at[t].opn].abort_tskid # t,
           \A o \in Opens : \/ opn'[o].abort_tskid = opn[o].abort_tskid
                            \/ opn'[o].abort_tskid = NoTask /\ at[t].opn = o
    PROVE  Aborting'
<1>1. DevTypeOK /\ Aborting /\ Handled /\ InProcess
  BY DEF DevInv
<1>2. Aside(t) /\ \A u \in DevTasks : at[u].pc \in ClosePlaces => at[u].opn \in Opens
  BY GoingOn
<1>3. at[t].opn \in Opens
  BY <1>1, <1>2 DEF GoesOn, Handled, DevTypeOK
<1>4. \A u \in DevTasks \ {t} : at[u].pc \in AbortPlaces => at[u].opn # at[t].opn /\ at[u].opn \in Opens
  BY <1>1, <1>2, <1>3, OpenApart DEF GoesOn, Handles, ClosePlaces
<1>5. ASSUME NEW o \in Opens, NEW u, u = opn'[o].abort_tskid, u # NoTask
      PROVE  (u = t /\ Aborts(t, o)') \/ (u = opn[o].abort_tskid /\ u # t)
  <2>1. u = opn[o].abort_tskid /\ Aborts(u, o)
    BY <1>1, <1>5 DEF Aborting
  <2>2. u = t => Aborts(t, o)'
    BY <1>5, <2>1 DEF Aborts, GoesOn
  <2> QED BY <2>1, <2>2
<1>6. \A o \in Opens : LET u == opn'[o].abort_tskid
                       IN  u = NoTask \/ (u = t /\ Aborts(t, o)') \/ (u = opn[o].abort_tskid /\ u # t)
  BY <1>5
<1>7. \A u \in DevTasks \ {t} : at[u].pc \in AbortPlaces =>
            /\ opn'[at[u].opn].abort_tskid = opn[at[u].opn].abort_tskid
            /\ opn'[at[u].opn].abort_cnt = opn[at[u].opn].abort_cnt
  BY <1>4 DEF GoesOn
<1>8. \A u \in disabled \ {t} : u \in disabled'
  BY DEF GoesOn
<1> QED BY <1>1, <1>2, <1>6, <1>7, <1>8, AbortKept

LEMMA TurnsOneByOne ==
    ASSUME DevInv, NEW t \in DevTasks, GoesOn(t), ~disturbed, disabled' \subseteq disabled,
           t \in disabled' => Woken(t)',
           Processing(t)' => Processing(t) \/ t = Head(syncq),
           at'[t].pc = "abortEnd" => opn[at[t].opn].abort_cnt <= 0
    PROVE  OneByOne'
<1>1. DevTypeOK /\ OneByOne
  BY DEF DevInv
<1>2. \A u \in DevTasks : at[u].pc \in ClosePlaces => at[u].opn \in Opens
  BY GoingOn
<1>3. \A u \in DevTasks : at[u].pc \in AbortPlaces \cup {"abortEnd"} =>
            opn'[at[u].opn].abort_cnt = opn[at[u].opn].abort_cnt
  BY <1>2 DEF GoesOn, ClosePlaces, DrainPlaces
<1>4. syncq' = syncq /\ at'[t].opn = at[t].opn /\ \A u \in DevTasks \ {t} : at'[u] = at[u]
  BY DEF GoesOn
<1>5. at'[t].pc = "abortEnd" => opn'[at'[t].opn].abort_cnt <= 0
  <2>1. at'[t].pc = "abortEnd" => at[t].pc \in ClosePlaces
    BY DEF GoesOn, ClosePlaces, DrainPlaces
  <2> QED BY <1>2, <1>4, <2>1 DEF GoesOn
<1>6. Processing(t)' => t = Head(syncq')
  BY <1>1, <1>4 DEF OneByOne
<1>7. \A u \in disabled' : u \in disabled \ {t} \/ Woken(u)'
  OBVIOUS
<1> QED BY <1>1, <1>3, <1>4, <1>5, <1>6, <1>7, OneByOneKept

LEMMA SyncWaitStep ==
    ASSUME DevInv, NEW t \in DevTasks, SyncWait(t)
    PROVE  DevInv'
<1>1. DevTypeOK /\ OpenPlaces \cup ClosePlaces \subseteq Places
  BY DEF DevInv, Places
<1>2. PICK p \in Places :
        /\ Goes(t, p)
        /\ \/ at[t].pc = "openSync" /\ p = "openNext"
           \/ at[t].pc = "closeSync" /\ p = "closeNext"
           \/ at[t].pc = "abortSync" /\ p = "abortEnd"
  BY DEF SyncWait, Is, Places, OpenPlaces, ClosePlaces, QueuePlaces, DrainPlaces
<1>3. /\ at' \in [DevTasks -> Context] /\ at'[t].pc = p /\ at'[t].opn = at[t].opn
      /\ at'[t].any = at[t].any /\ \A u \in DevTasks \ {t} : at'[u] = at[u]
  BY <1>1, <1>2, Going DEF Turned
<1>4. /\ t \in disabled /\ disabled' = disabled \ {t}
      /\ UNCHANGED <<opn, req, openq, syncq, told, driver, disturbed, uncounted>>
  BY DEF SyncWait, history
<1>5. DevTypeOK'
  BY <1>1, <1>3, <1>4 DEF DevTypeOK
<1>6. ~at[t].any
  BY <1>2, PlacesApart DEF DevInv, OpenPlaces, ClosePlaces, QueuePlaces, AbortPlaces
<1>7. GoesOn(t)
  BY <1>2, <1>3, <1>4, <1>6 DEF GoesOn, OpenPlaces, ClosePlaces, QueuePlaces, AbortPlaces,
    DrainPlaces, Processing
<1>8. InTurn' /\ Handled' /\ InProcess' /\ (~uncounted => Counted')
  BY <1>7, GoingOn
<1>9. Aborting'
  <2>1. at'[t].pc \notin AbortPlaces /\ at'[t].pc # "abortSync"
    BY <1>2, <1>3 DEF AbortPlaces
  <2>2. AbortFact(t)'
    BY <2>1 DEF AbortFact
  <2>3. at[t].pc \in AbortPlaces \cup {"abortEnd"} => at'[t].pc = "abortEnd"
    BY <1>2, <1>3 DEF AbortPlaces
  <2> QED BY <1>4, <1>7, <2>2, <2>3, AbortsOn
<1>10. ASSUME ~disturbed
       PROVE  OneByOne' /\ DriverKnows' /\ (~uncounted => Drained')
  <2>1. Woken(t)
    BY <1>4, <1>10 DEF DevInv, OneByOne
  <2>2. Processing(t)' => t = Head(syncq)
    BY <1>2, <1>3, <2>1 DEF Woken, Processing, AbortPlaces
  <2>3. at'[t].pc = "abortEnd" => at[t].pc \in AbortPlaces /\ opn[at[t].opn].abort_cnt <= 0
    BY <1>2, <1>3, <2>1 DEF Woken, AbortPlaces
  <2>4. OneByOne'
    BY <1>4, <1>7, <1>10, <2>2, <2>3, TurnsOneByOne
  <2>5. DriverKnows'
    BY <1>2, <1>3, <1>7, <1>10, GoingOnDriver
  <2>6. ASSUME ~uncounted
        PROVE  Drained'
    <3>1. at'[t].pc = "abortEnd" => opn[at[t].opn].abort_cnt = Cardinality(Calls(at[t].opn))
      BY <2>3, <2>6 DEF DevInv, Counted
    <3>2. IsFiniteSet(Calls(at[t].opn))
      BY DeviceIOAssumption, FS_Subset DEF Calls
    <3>3. at'[t].pc = "abortEnd" => Calls(at[t].opn) = {}
      BY <2>3, <3>1, <3>2, FS_CardinalityType, FS_EmptySet
    <3>4. at'[t].pc \in DrainPlaces => at'[t].pc = "abortEnd"
      BY <1>2, <1>3 DEF DrainPlaces
    <3> QED BY <1>2, <1>3, <1>4, <1>7, <1>10, <2>6, <3>3, <3>4, GoingOnDrained
  <2> QED BY <2>4, <2>5, <2>6
<1> QED BY <1>4, <1>5, <1>8, <1>9, <1>10 DEF DevInv

(* A wait that is ended from outside is a wakeup for which no rule is left. *)
LEMMA ReleaseWaitStep ==
    ASSUME DevInv, NEW t \in DevTasks, ReleaseWait(t)
    PROVE  DevInv'
<1>1. /\ DevTypeOK /\ InTurn /\ Handled /\ InProcess /\ Aborting
      /\ disabled \subseteq disabled' /\ disabled' \subseteq DevTasks
      /\ disturbed' = TRUE /\ uncounted' = TRUE
      /\ UNCHANGED <<opn, req, openq, syncq, at, told, driver>>
  BY DEF DevInv, DevTypeOK, ReleaseWait
<1>2. DevTypeOK' /\ Handled'
  BY <1>1 DEF DevTypeOK, Handled, Handles
<1>3. InTurn'
  BY <1>1 DEF InTurn, InSync, Processing
<1>4. \A o : Calls(o)' = Calls(o) /\ Requests(o)' = Requests(o)
  BY <1>1 DEF Calls, InDriver, Requests
<1>5. InProcess'
  BY <1>1, <1>4 DEF InProcess, InDriver
<1>6. Aborting'
  BY <1>1, <1>4 DEF Aborting, AbortFact, Aborts
<1> QED BY <1>1, <1>2, <1>3, <1>5, <1>6 DEF DevInv

(* Is the device driver call required? *)
LEMMA CallNext ==
    ASSUME DevInv, NEW t \in DevTasks, NEW p,
           \/ at[t].pc = "openNext" /\ p = "opening"
           \/ at[t].pc = "closeNext" /\ p = "closing",
           at' = [at EXCEPT ![t].pc = p, ![t].call = ~chkopen(t)],
           UNCHANGED <<opn, req, openq, syncq, disabled, told, driver, disturbed, uncounted>>
    PROVE  DevInv'
<1> DEFINE w == [at[t] EXCEPT !.pc = p, !.call = ~chkopen(t)]
<1>1. DevTypeOK /\ at[t] \in Context /\ at' = [at EXCEPT ![t] = w]
  BY DEF DevInv, DevTypeOK
<1>2. chkopen(t) \in BOOLEAN /\ p \in Places
  BY DEF chkopen, Places, OpenPlaces, ClosePlaces, QueuePlaces
<1>3. /\ w \in Context /\ w.pc = p /\ w.opn = at[t].opn /\ w.any = at[t].any
      /\ (w.call <=> ~chkopen(t))
  BY <1>1, <1>2 DEF Context
<1> HIDE DEF w
<1>4. /\ at' \in [DevTasks -> Context] /\ at'[t].pc = p /\ at'[t].opn = at[t].opn
      /\ at'[t].any = at[t].any /\ (at'[t].call <=> ~chkopen(t))
      /\ \A u \in DevTasks \ {t} : at'[u] = at[u]
  BY <1>1, <1>3, Turns DEF Turned
<1>5. DevTypeOK'
  BY <1>1, <1>4 DEF DevTypeOK
<1>6. ~at[t].any
  BY PlacesApart DEF DevInv, OpenPlaces, ClosePlaces, QueuePlaces
<1>7. GoesOn(t)
  BY <1>4, <1>6 DEF GoesOn, OpenPlaces, ClosePlaces, QueuePlaces, AbortPlaces,
    DrainPlaces, Processing
<1>8. InTurn' /\ Handled' /\ InProcess' /\ (~uncounted => Counted')
  BY <1>7, GoingOn
<1>9. at'[t].pc \notin AbortPlaces \cup DrainPlaces /\ at'[t].pc # "abortSync"
  BY <1>4 DEF AbortPlaces, DrainPlaces
<1>10. Aborting'
  <2>1. AbortFact(t)'
    BY <1>9 DEF AbortFact
  <2>2. at[t].pc \notin AbortPlaces \cup {"abortEnd"}
    BY DEF AbortPlaces
  <2> QED BY <1>7, <2>1, <2>2, AbortsOn
<1>11. ASSUME ~disturbed
       PROVE  OneByOne' /\ DriverKnows' /\ (~uncounted => Drained')
  <2>1. t \notin disabled /\ Processing(t)
    BY <1>11 DEF DevInv, OneByOne, Woken, AbortPlaces, Processing
  <2>2. at'[t].pc # "abortEnd" /\ at'[t].pc # "draining"
    BY <1>4
  <2>3. OneByOne'
    BY <1>7, <1>11, <2>1, <2>2, TurnsOneByOne
  <2>4. DriverKnows'
    BY <1>4, <1>7, <1>11, GoingOnDriver
  <2>5. ~uncounted => Drained'
    BY <1>7, <1>9, <1>11, <2>2, GoingOnDrained
  <2> QED BY <2>3, <2>4, <2>5
<1> QED BY <1>5, <1>8, <1>10, <1>11 DEF DevInv

LEMMA AbortLookStep ==
    ASSUME DevInv, NEW t \in DevTasks, AbortLook(t)
    PROVE  DevInv'
<1>1. DevTypeOK /\ InProcess /\ Aborting
  BY DEF DevInv
<1>2. PICK p \in Places :
        /\ Goes(t, p) /\ at[t].pc = "abortLook"
        /\ \/ opn[at[t].opn].abort_cnt > 0 /\ p = "abortSync"
           \/ ~(opn[at[t].opn].abort_cnt > 0) /\ p = "abortEnd"
  BY DEF AbortLook, Is, Places, ClosePlaces, AbortPlaces, DrainPlaces
<1>3. /\ at' \in [DevTasks -> Context] /\ at'[t].pc = p /\ at'[t].opn = at[t].opn
      /\ at'[t].any = at[t].any /\ \A u \in DevTasks \ {t} : at'[u] = at[u]
  BY <1>1, <1>2, Going DEF Turned
<1>4. /\ UNCHANGED <<opn, req, openq, syncq, disabled, told, driver>>
      /\ disturbed' = (disturbed \/ (p = "abortEnd" /\ t \in disabled))
      /\ uncounted' = (uncounted \/ (p = "abortEnd" /\ t \in disabled))
  BY <1>2 DEF AbortLook
<1>5. DevTypeOK'
  BY <1>1, <1>3, <1>4 DEF DevTypeOK
<1>6. ~at[t].any
  BY <1>1, <1>2, PlacesApart DEF OpenPlaces, ClosePlaces, QueuePlaces, AbortPlaces
<1>7. GoesOn(t)
  BY <1>2, <1>3, <1>4, <1>6 DEF GoesOn, OpenPlaces, ClosePlaces, QueuePlaces, AbortPlaces,
    DrainPlaces, Processing
<1>8. /\ InTurn' /\ Handled' /\ InProcess' /\ (~uncounted => Counted') /\ Aside(t)
      /\ at[t].opn \in Opens
  BY <1>2, <1>7, GoingOn DEF ClosePlaces, AbortPlaces
<1>9. opn[at[t].opn].abort_cnt \in Int
  BY <1>1, <1>8 DEF DevTypeOK, OPNCB
<1>10. Aborting'
  <2>1. AbortFact(t)
    BY <1>1 DEF Aborting
  <2>2. /\ opn[at[t].opn].abort_tskid = t
        /\ opn[at[t].opn].abort_cnt <= Cardinality(Calls(at[t].opn) \cap told)
    BY <1>2, <2>1 DEF AbortFact, AbortPlaces
  <2>3. Calls(at[t].opn)' = Calls(at[t].opn)
    BY <1>3, <1>8, CallsKept
  <2>4. AbortFact(t)'
    BY <1>2, <1>3, <1>4, <2>2, <2>3 DEF AbortFact
  <2>5. at'[t].pc \in AbortPlaces \cup {"abortEnd"}
    BY <1>2, <1>3 DEF AbortPlaces
  <2> QED BY <1>4, <1>7, <2>4, <2>5, AbortsOn
<1>11. ASSUME ~disturbed'
       PROVE  OneByOne' /\ DriverKnows' /\ (~uncounted => Drained')
  <2>1. ~disturbed /\ (t \in disabled => Woken(t))
    BY <1>4, <1>11 DEF DevInv, OneByOne
  <2>2. t \notin disabled
    <3>1. p = "abortEnd" => t \notin disabled
      BY <1>4, <1>11
    <3>2. t \in disabled => opn[at[t].opn].abort_cnt <= 0
      BY <1>2, <2>1 DEF Woken
    <3> QED BY <1>2, <1>9, <3>1, <3>2
  <2>3. at'[t].pc = "abortEnd" => opn[at[t].opn].abort_cnt <= 0
    BY <1>2, <1>3, <1>9
  <2>4. ~Processing(t)' /\ at'[t].pc \notin {"opening", "closing", "draining"}
    BY <1>2, <1>3 DEF Processing
  <2>5. OneByOne'
    BY <1>4, <1>7, <2>1, <2>2, <2>3, <2>4, TurnsOneByOne
  <2>6. DriverKnows'
    BY <1>7, <2>1, <2>4, GoingOnDriver
  <2>7. ASSUME ~uncounted
        PROVE  Drained'
    <3>1. opn[at[t].opn].abort_cnt = Cardinality(Calls(at[t].opn))
      BY <1>2, <2>7 DEF DevInv, Counted, AbortPlaces
    <3>2. IsFiniteSet(Calls(at[t].opn))
      BY DeviceIOAssumption, FS_Subset DEF Calls
    <3>3. at'[t].pc = "abortEnd" => Calls(at[t].opn) = {}
      BY <2>3, <3>1, <3>2, FS_CardinalityType, FS_EmptySet
    <3>4. at'[t].pc \in DrainPlaces => at'[t].pc = "abortEnd"
      BY <1>2, <1>3 DEF DrainPlaces
    <3> QED BY <1>4, <1>7, <2>1, <2>4, <2>7, <3>3, <3>4, GoingOnDrained
  <2> QED BY <2>5, <2>6, <2>7
<1> QED BY <1>4, <1>5, <1>8, <1>10, <1>11 DEF DevInv

LEMMA AbortEndStep ==
    ASSUME DevInv, NEW t \in DevTasks, AbortEnd(t)
    PROVE  DevInv'
<1> DEFINE o == at[t].opn
           z == [opn[o] EXCEPT !.abort_tskid = NoTask]
<1>1. DevTypeOK /\ InProcess /\ at[t].pc = "abortEnd" /\ "drain" \in Places
  BY DEF DevInv, AbortEnd, Is, Places, ClosePlaces, DrainPlaces
<1>2. o \in Opens /\ o \in openq
  BY <1>1 DEF DevInv, DevTypeOK, Handled, ClosePlaces, DrainPlaces
<1>3. /\ at' \in [DevTasks -> Context] /\ at'[t].pc = "drain" /\ at'[t].opn = at[t].opn
      /\ at'[t].any = at[t].any /\ \A u \in DevTasks \ {t} : at'[u] = at[u]
  BY <1>1, Going DEF AbortEnd, Turned
<1>4. /\ opn' = [opn EXCEPT ![o] = z]
      /\ UNCHANGED <<req, openq, syncq, disabled, told, driver, disturbed, uncounted>>
  BY DEF AbortEnd, history
<1>5. /\ z \in OPNCB /\ z.resid = opn[o].resid /\ z.nwaireq = opn[o].nwaireq
      /\ z.abort_cnt = opn[o].abort_cnt /\ z.abort_tskid = NoTask
  <2>1. opn[o] \in OPNCB
    BY <1>1, <1>2 DEF DevTypeOK
  <2> QED BY <2>1 DEF OPNCB
<1> HIDE DEF z
<1>6. /\ opn' \in [Opens -> OPNCB] /\ opn'[o] = z
      /\ \A c \in Opens \ {o} : opn'[c] = opn[c]
  BY <1>1, <1>2, <1>4, <1>5, OpenTurns DEF OpenTurned
<1>7. DevTypeOK'
  BY <1>1, <1>3, <1>4, <1>6 DEF DevTypeOK
<1>8. ~at[t].any
  BY <1>1, PlacesApart DEF ClosePlaces, DrainPlaces
<1>9. \A c \in Opens : /\ opn'[c].resid = opn[c].resid
                       /\ opn'[c].nwaireq = opn[c].nwaireq
                       /\ opn'[c].abort_cnt = opn[c].abort_cnt
  BY <1>5, <1>6
<1>10. GoesOn(t)
  <2>1. at[t].pc \in ClosePlaces /\ at'[t].pc \in ClosePlaces
    BY <1>1, <1>3 DEF ClosePlaces, DrainPlaces
  <2>2. /\ at[t].pc \notin OpenPlaces \cup QueuePlaces \cup AbortPlaces
        /\ at'[t].pc \notin OpenPlaces \cup QueuePlaces \cup AbortPlaces
        /\ ~Processing(t)
    BY <1>1, <1>3 DEF OpenPlaces, QueuePlaces, AbortPlaces, Processing
  <2> QED BY <1>3, <1>4, <1>8, <1>9, <2>1, <2>2 DEF GoesOn
<1>11. InTurn' /\ Handled' /\ InProcess' /\ (~uncounted => Counted')
  BY <1>10, GoingOn
<1>12. Aborting'
  <2>1. AbortFact(t)'
    BY <1>3 DEF AbortFact, AbortPlaces
  <2>2. \A c \in Opens : \/ opn'[c].abort_tskid = opn[c].abort_tskid
                         \/ opn'[c].abort_tskid = NoTask /\ at[t].opn = c
    BY <1>5, <1>6
  <2>3. opn'[at[t].opn].abort_tskid # t
    BY <1>5, <1>6, DeviceIOAssumption
  <2> QED BY <1>4, <1>10, <2>1, <2>2, <2>3, AbortsOn
<1>13. ASSUME ~disturbed
       PROVE  OneByOne' /\ DriverKnows' /\ (~uncounted => Drained')
  <2>1. t \notin disabled
    BY <1>1, <1>13 DEF DevInv, OneByOne, Woken, AbortPlaces
  <2>2. ~Processing(t)' /\ at'[t].pc \notin {"opening", "closing", "draining", "abortEnd"}
    BY <1>3 DEF Processing
  <2>3. OneByOne'
    BY <1>4, <1>10, <1>13, <2>1, <2>2, TurnsOneByOne
  <2>4. DriverKnows'
    BY <1>10, <1>13, <2>2, GoingOnDriver
  <2>5. at[t].pc \in DrainPlaces
    BY <1>1 DEF DrainPlaces
  <2>6. ~uncounted => Drained'
    BY <1>4, <1>10, <1>13, <2>2, <2>5, GoingOnDrained
  <2> QED BY <2>3, <2>4, <2>6
<1> QED BY <1>4, <1>7, <1>11, <1>12, <1>13 DEF DevInv

LEMMA DrainStep ==
    ASSUME DevInv, NEW t \in DevTasks, NEW r \in Reqs, Drain(t, r)
    PROVE  DevInv'
<1> DEFINE w == [at[t] EXCEPT !.pc = "draining", !.reqs = {r}]
<1>1. /\ DevTypeOK /\ InProcess /\ at[t] \in Context /\ at' = [at EXCEPT ![t] = w]
      /\ at[t].pc = "drain" /\ r \in Requests(at[t].opn)
      /\ UNCHANGED <<opn, req, openq, syncq, disabled, told, driver, disturbed, uncounted>>
  BY DEF DevInv, DevTypeOK, Drain, Is, history
<1>2. "draining" \in Places
  BY DEF Places, ClosePlaces, DrainPlaces
<1>3. /\ w \in Context /\ w.pc = "draining" /\ w.opn = at[t].opn /\ w.any = at[t].any
      /\ w.reqs = {r}
  BY <1>1, <1>2 DEF Context
<1> HIDE DEF w
<1>4. /\ at' \in [DevTasks -> Context] /\ at'[t].pc = "draining" /\ at'[t].opn = at[t].opn
      /\ at'[t].any = at[t].any /\ at'[t].reqs = {r}
      /\ \A u \in DevTasks \ {t} : at'[u] = at[u]
  BY <1>1, <1>3, Turns DEF Turned
<1>5. DevTypeOK'
  BY <1>1, <1>4 DEF DevTypeOK
<1>6. ~at[t].any
  BY <1>1, PlacesApart DEF ClosePlaces, DrainPlaces
<1>7. GoesOn(t)
  BY <1>1, <1>4, <1>6 DEF GoesOn, OpenPlaces, ClosePlaces, QueuePlaces, AbortPlaces,
    DrainPlaces, Processing
<1>8. InTurn' /\ Handled' /\ InProcess' /\ (~uncounted => Counted')
  BY <1>7, GoingOn
<1>9. Aborting'
  <2>1. AbortFact(t)'
    BY <1>4 DEF AbortFact, AbortPlaces
  <2>2. at[t].pc \notin AbortPlaces \cup {"abortEnd"}
    BY <1>1 DEF AbortPlaces
  <2> QED BY <1>1, <1>7, <2>1, <2>2, AbortsOn
<1>10. ASSUME ~disturbed
       PROVE  OneByOne' /\ DriverKnows' /\ (~uncounted => Drained')
  <2>1. t \notin disabled
    BY <1>1, <1>10 DEF DevInv, OneByOne, Woken, AbortPlaces
  <2>2. ~Processing(t)' /\ at'[t].pc \notin {"opening", "closing", "abortEnd"}
    BY <1>4 DEF Processing
  <2>3. OneByOne'
    BY <1>1, <1>7, <1>10, <2>1, <2>2, TurnsOneByOne
  <2>4. DriverKnows'
    BY <1>7, <1>10, <2>2, GoingOnDriver
  <2>5. at[t].pc \in DrainPlaces
    BY <1>1 DEF DrainPlaces
  <2>6. ~uncounted => Drained'
    BY <1>1, <1>4, <1>7, <1>10, <2>5, GoingOnDrained
  <2> QED BY <2>3, <2>4, <2>6
<1> QED BY <1>1, <1>5, <1>8, <1>9, <1>10 DEF DevInv

LEMMA DrainEndStep ==
    ASSUME DevInv, NEW t \in DevTasks, DrainEnd(t)
    PROVE  DevInv'
<1> DEFINE w == [at[t] EXCEPT !.pc = "drain", !.reqs = {}]
<1>1. /\ DevTypeOK /\ InProcess /\ Handled /\ at[t] \in Context
      /\ at' = [at EXCEPT ![t] = w] /\ at[t].pc = "draining"
      /\ UNCHANGED <<opn, openq, syncq, disabled, told, driver, disturbed, uncounted>>
  BY DEF DevInv, DevTypeOK, DrainEnd, Is, history
<1>2. "drain" \in Places
  BY DEF Places, ClosePlaces, DrainPlaces
<1>3. w \in Context /\ w.pc = "drain" /\ w.opn = at[t].opn /\ w.any = at[t].any
  BY <1>1, <1>2 DEF Context
<1> HIDE DEF w
<1>4. /\ at' \in [DevTasks -> Context] /\ at'[t].pc = "drain" /\ at'[t].opn = at[t].opn
      /\ at'[t].any = at[t].any /\ \A u \in DevTasks \ {t} : at'[u] = at[u]
  BY <1>1, <1>3, Turns DEF Turned
<1>5. /\ FreeReq \in REQCB /\ req \in [Reqs -> REQCB]
      /\ req' = [r \in Reqs |-> IF r \in at[t].reqs THEN FreeReq ELSE req[r]]
  BY <1>1 DEF FreeReq, REQCB, DrainEnd, DevTypeOK
<1>6. /\ req' \in [Reqs -> REQCB] /\ \A r \in Reqs : req'[r] = req[r] \/ req'[r] = FreeReq
      /\ \A r \in Reqs \ at[t].reqs : req'[r] = req[r]
  BY <1>5
<1>7. DevTypeOK'
  BY <1>1, <1>4, <1>6 DEF DevTypeOK
<1>8. ~at[t].any
  BY <1>1, PlacesApart DEF ClosePlaces, DrainPlaces
<1>9. GoesOn(t)
  BY <1>1, <1>4, <1>6, <1>8 DEF GoesOn, OpenPlaces, ClosePlaces, QueuePlaces, AbortPlaces,
    DrainPlaces, Processing
<1>10. InTurn' /\ Handled' /\ InProcess' /\ (~uncounted => Counted') /\ Aside(t)
  BY <1>9, GoingOn
<1>11. Aborting'
  <2>1. AbortFact(t)'
    BY <1>4 DEF AbortFact, AbortPlaces
  <2>2. at[t].pc \notin AbortPlaces \cup {"abortEnd"}
    BY <1>1 DEF AbortPlaces
  <2> QED BY <1>1, <1>9, <2>1, <2>2, AbortsOn
<1>12. ASSUME ~disturbed
       PROVE  OneByOne' /\ DriverKnows'
  <2>1. t \notin disabled
    BY <1>1, <1>12 DEF DevInv, OneByOne, Woken, AbortPlaces
  <2>2. ~Processing(t)' /\ at'[t].pc \notin {"opening", "closing", "abortEnd"}
    BY <1>4 DEF Processing
  <2> QED BY <1>1, <1>9, <1>12, <2>1, <2>2, TurnsOneByOne, GoingOnDriver
<1>13. ASSUME ~disturbed, ~uncounted
       PROVE  Drained'
  <2>1. Drained
    BY <1>13 DEF DevInv
  <2>2. Calls(at[t].opn) = {} /\ at[t].reqs \subseteq Requests(at[t].opn)
    BY <1>1, <2>1 DEF Drained, DrainPlaces
  <2>3. /\ \A u \in DevTasks : InDriver(u)' => InDriver(u) /\ at'[u] = at[u]
        /\ \A o : Calls(o)' = Calls(o)
    BY <1>10, CallsKept
  <2>4. ASSUME NEW u \in DevTasks, InDriver(u)'
        PROVE  /\ at'[u].opn \in openq'
               /\ \A r \in at'[u].reqs : req'[r] = [opncb |-> at'[u].opn, tskid |-> u]
    <3>1. at'[u] = at[u] /\ at[u].opn # at[t].opn /\ at[u].reqs \subseteq Reqs
      BY <1>1, <2>2, <2>3, <2>4 DEF Calls, DevTypeOK, Context
    <3>2. /\ at[u].opn \in openq
          /\ \A r \in at[u].reqs : req[r] = [opncb |-> at[u].opn, tskid |-> u]
      BY <2>1, <2>3, <2>4 DEF Drained, Served
    <3>3. \A r \in at[u].reqs : r \notin at[t].reqs
      BY <2>2, <3>1, <3>2 DEF Requests
    <3> QED BY <1>1, <1>6, <3>1, <3>2, <3>3
  <2>5. \A u \in DevTasks : at'[u].pc \in DrainPlaces => Calls(at[u].opn)' = {}
    BY <1>4, <2>1, <2>2, <2>3 DEF Drained
  <2>6. at[t].opn \in Opens /\ Handles(t, at[t].opn)
    BY <1>1 DEF Handled, DevTypeOK, Handles, ClosePlaces, DrainPlaces
  <2>7. ASSUME NEW u \in DevTasks, at'[u].pc = "draining"
        PROVE  at'[u].reqs \subseteq Requests(at[u].opn)'
    <3>1. u # t /\ at'[u] = at[u] /\ at[u].pc \in ClosePlaces
      BY <1>4, <2>7 DEF ClosePlaces, DrainPlaces
    <3>2. at[u].opn # at[t].opn /\ at[u].reqs \subseteq Requests(at[u].opn)
      BY <1>1, <2>1, <2>6, <2>7, <3>1, OpenApart DEF Drained
    <3> QED BY <1>6, <2>2, <3>1, <3>2 DEF Requests
  <2> QED BY <2>4, <2>5, <2>7 DEF Drained, Served
<1> QED BY <1>1, <1>7, <1>10, <1>11, <1>12, <1>13 DEF DevInv

-----------------------------------------------------------------------------
(* The first steps of a close                                              *)

LEMMA CloseStartStep ==
    ASSUME DevInv, NEW t \in DevTasks, NEW o \in Opens, CloseStart(t, o)
    PROVE  DevInv'
<1> DEFINE w == [at[t] EXCEPT !.pc = "abort", !.opn = o]
           z == [opn[o] EXCEPT !.resid = -1]
<1>1. /\ DevTypeOK /\ InTurn /\ InProcess /\ Handled /\ Aborting
      /\ at[t] \in Context /\ opn[o] \in OPNCB /\ at[t].pc = "out" /\ opn[o].resid = 1
      /\ openq \subseteq Opens
  BY DEF DevInv, DevTypeOK, CloseStart, Is
<1>2. /\ opn' = [opn EXCEPT ![o] = z]
      /\ UNCHANGED <<req, openq, syncq, disabled, told, driver, disturbed, uncounted>>
      /\ at' = [at EXCEPT ![t] = w]
  BY <1>1 DEF CloseStart, history
<1>3. "abort" \in Places
  BY DEF Places, ClosePlaces
<1>4. w \in Context /\ w.pc = "abort" /\ w.opn = o /\ w.any = at[t].any
  BY <1>1, <1>3 DEF Context
<1>5. /\ z \in OPNCB /\ z.resid = -1 /\ z.nwaireq = opn[o].nwaireq
      /\ z.abort_cnt = opn[o].abort_cnt /\ z.abort_tskid = opn[o].abort_tskid
  BY <1>1 DEF OPNCB
<1> HIDE DEF w, z
<1>6. /\ at' \in [DevTasks -> Context] /\ at'[t].pc = "abort" /\ at'[t].opn = o
      /\ at'[t].any = at[t].any /\ \A u \in DevTasks \ {t} : at'[u] = at[u]
  BY <1>1, <1>2, <1>4, Turns DEF Turned
<1>7. /\ opn' \in [Opens -> OPNCB] /\ opn'[o] = z
      /\ \A c \in Opens \ {o} : opn'[c] = opn[c]
  BY <1>1, <1>2, <1>5, OpenTurns DEF OpenTurned
<1>8. DevTypeOK'
  BY <1>1, <1>2, <1>6, <1>7 DEF DevTypeOK
<1>9. ~at[t].any /\ ~InDriver(t)
  BY <1>1, PlacesApart
<1>10. /\ Aside(t)
       /\ at[t].pc \notin OpenPlaces \cup ClosePlaces /\ ~Processing(t) /\ ~Processing(t)'
       /\ at'[t].pc \in ClosePlaces \ (OpenPlaces \cup QueuePlaces \cup AbortPlaces)
       /\ at'[t].pc \notin DrainPlaces
  BY <1>1, <1>6, <1>9 DEF Aside, OpenPlaces, ClosePlaces, QueuePlaces, AbortPlaces,
    DrainPlaces, UsePlaces, Processing
<1>11. \A u \in DevTasks : at[u].pc \in OpenPlaces \cup ClosePlaces => at[u].opn # o
  BY <1>1, OpenFree
<1>12. \A u \in DevTasks : at[u].pc \in OpenPlaces \cup ClosePlaces =>
            at[u].opn \in Opens /\ opn'[at[u].opn] = opn[at[u].opn]
  BY <1>1, <1>7, <1>11 DEF Handled
<1>13. \A c \in Opens : /\ opn'[c].nwaireq = opn[c].nwaireq
                        /\ opn'[c].abort_cnt = opn[c].abort_cnt
                        /\ opn'[c].abort_tskid = opn[c].abort_tskid
                        /\ opn[c].resid # 0 <=> opn'[c].resid # 0
  BY <1>1, <1>5, <1>7
<1>14. Handled'
  <2>1. \A c \in Opens : opn'[c].resid # 0 => c \in openq'
    BY <1>1, <1>2, <1>13 DEF Handled
  <2>2. ASSUME NEW u \in DevTasks
        PROVE  /\ at'[u].pc \in OpenPlaces => at'[u].opn \in openq' /\ opn'[at'[u].opn].resid = 0
               /\ at'[u].pc \in ClosePlaces => at'[u].opn \in openq' /\ opn'[at'[u].opn].resid = -1
    <3>1. CASE u = t
      BY <1>1, <1>2, <1>5, <1>6, <1>7, <1>10, <3>1 DEF Handled
    <3>2. CASE u # t
      BY <1>1, <1>2, <1>6, <1>12, <3>2 DEF Handled
    <3> QED BY <3>1, <3>2
  <2>3. \A u, v \in DevTasks, c \in Opens : Handles(u, c)' /\ Handles(v, c)' => u = v
    BY <1>1, <1>6, <1>11 DEF Handled, Handles
  <2> QED BY <2>1, <2>2, <2>3 DEF Handled
<1>15. InTurn'
  <2>1. InSync' = InSync
    BY <1>6, <1>10 DEF InSync, ClosePlaces
  <2> QED BY <1>1, <1>2, <1>6, <1>10, <2>1, TurnKept DEF Processing
<1>16. InProcess'
  <2>1. /\ \A u \in DevTasks : at[u].pc \in QueuePlaces => at[u].opn \in Opens
        /\ at'[t].pc \notin QueuePlaces
    BY <1>10, <1>12 DEF ClosePlaces
  <2> QED BY <1>1, <1>2, <1>10, <1>13, <2>1, ProcessKept
<1>17. \A u \in DevTasks : at[u].pc \in AbortPlaces \cup {"abortEnd"} => at[u].opn \in Opens
  BY <1>12 DEF ClosePlaces, DrainPlaces
<1>18. Aborting'
  <2>1. AbortFact(t)'
    BY <1>6 DEF AbortFact, AbortPlaces
  <2>2. ASSUME NEW c \in Opens
        PROVE  \/ opn'[c].abort_tskid = NoTask
               \/ opn'[c].abort_tskid = opn[c].abort_tskid /\ opn'[c].abort_tskid # t
    <3>1. opn[c].abort_tskid # NoTask => Aborts(opn[c].abort_tskid, c)
      BY <1>1 DEF Aborting
    <3>2. ~Aborts(t, c)
      BY <1>1 DEF Aborts, AbortPlaces
    <3> QED BY <1>13, <3>1, <3>2
  <2> QED BY <1>1, <1>2, <1>10, <1>13, <1>17, <2>1, <2>2, AbortKept
<1>19. ASSUME ~disturbed
       PROVE  OneByOne' /\ DriverKnows' /\ (~uncounted => Drained')
  <2>1. t \notin disabled /\ OneByOne /\ DriverKnows
    BY <1>1, <1>19 DEF DevInv, OneByOne, Woken, AbortPlaces
  <2>2. at'[t].pc \notin {"opening", "closing", "abortEnd", "draining"}
    BY <1>6
  <2>3. OneByOne'
    BY <1>1, <1>2, <1>6, <1>10, <1>13, <1>17, <2>1, <2>2, OneByOneKept
  <2>4. \A c : c \in openq /\ opn[c].resid # 0 <=> c \in openq' /\ opn'[c].resid # 0
    BY <1>1, <1>2, <1>13
  <2>5. DriverKnows'
    BY <1>2, <1>6, <2>1, <2>2, <2>4, DriverKept
  <2>6. ~uncounted => Drained'
    BY <1>2, <1>10, <1>19, <2>2, DrainedKept DEF DevInv
  <2> QED BY <2>3, <2>5, <2>6
<1>20. ~uncounted => Counted'
  BY <1>10, <1>13, <1>17, CountedKept DEF DevInv
<1> QED BY <1>2, <1>8, <1>14, <1>15, <1>16, <1>18, <1>19, <1>20 DEF DevInv

(* The driver calls that abortfn is asked to end are counted once each,    *)
(* unless some of them wait for any request and others do not.             *)
LEMMA AbortCount ==
    ASSUME DevInv, Served, NEW o \in Opens
    PROVE  /\ AbortCalls(o) \in Nat
           /\ AbortCalls(o) <= Cardinality(Calls(o) \cap AbortedTasks(o))
           /\ ~uncounted => AbortCalls(o) = Cardinality(Calls(o))
<1> DEFINE C == Calls(o)
           A == AbortedTasks(o)
           R == {r \in Requests(o) : req[r].tskid # NoTask}
<1>1. DevTypeOK /\ InProcess
  BY DEF DevInv
<1>2. IsFiniteSet(C)
  BY DeviceIOAssumption, FS_Subset DEF Calls
<1>3. \A u \in C : /\ u \in DevTasks /\ InDriver(u) /\ at[u].opn = o /\ at[u].pc \in UsePlaces
                   /\ at[u].reqs \subseteq Reqs /\ at[u].reqs # {}
  BY <1>1 DEF Calls, DevTypeOK, Context, InProcess, InDriver, UsePlaces
<1>4. \A r \in R : r \in Reqs /\ req[r].opncb = o /\ req[r].tskid \in DevTasks
  BY <1>1 DEF Requests, DevTypeOK, REQCB
<1>5. \A u \in C : \E r \in R : req[r].tskid = u
  <2> TAKE u \in C
  <2>1. PICK r \in at[u].reqs : r \in Reqs
    BY <1>3
  <2>2. req[r] = [opncb |-> o, tskid |-> u]
    BY <1>3, <2>1 DEF Served
  <2> QED BY <1>3, <2>1, <2>2, DeviceIOAssumption DEF Requests
<1>6. \A r \in R : req[r].tskid \in C /\ r \in at[req[r].tskid].reqs
  <2> TAKE r \in R
  <2>1. InDriver(req[r].tskid) /\ r \in at[req[r].tskid].reqs
    BY <1>1, <1>4 DEF InProcess
  <2>2. PICK u \in DevTasks : u = req[r].tskid
    BY <1>4
  <2>3. req[r] = [opncb |-> at[u].opn, tskid |-> u]
    BY <2>1, <2>2 DEF Served
  <2>4. at[u].opn = o
    BY <1>4, <2>3
  <2> QED BY <2>1, <2>2, <2>4 DEF Calls
<1>7. IsFiniteSet(C \cap A)
  BY <1>2, FS_Subset
<1>8. opn[o].nwaireq \in Nat /\ Cardinality(C) \in Nat /\ Cardinality(C \cap A) \in Nat
  BY <1>1, <1>2, <1>7, FS_CardinalityType DEF DevTypeOK, OPNCB
<1>9. ASSUME opn[o].nwaireq > 0
      PROVE  /\ AbortCalls(o) = 1 /\ 1 <= Cardinality(C \cap A)
             /\ ~uncounted => Cardinality(C) = 1
  <2>1. PICK u \in C : at[u].any
    BY <1>1, <1>9 DEF InProcess
  <2>2. Cardinality(C \cap A) # 0
    <3>1. at[u].pc = "wait"
      BY <1>1, <1>3, <2>1 DEF InProcess
    <3>2. u \in C \cap A
      BY <1>3, <1>9, <2>1, <3>1 DEF AbortedTasks, WaitsForAny, Is
    <3> QED BY <1>7, <3>2, FS_EmptySet
  <2>3. ASSUME ~uncounted
        PROVE  Cardinality(C) = 1
    <3>1. C = {u}
      BY <1>3, <2>1, <2>3 DEF DevInv, Counted
    <3> QED BY <3>1, FS_Singleton
  <2> QED BY <1>8, <1>9, <2>2, <2>3 DEF AbortCalls
<1>10. ASSUME opn[o].nwaireq = 0
       PROVE  AbortCalls(o) = Cardinality(C) /\ C \cap A = C
  <2>0. C \subseteq A
    BY <1>3, <1>5, <1>10, DeviceIOAssumption DEF AbortedTasks
  <2> DEFINE f == [r \in R |-> req[r].tskid]
  <2>1. \A r \in R : f[r] \in C /\ f[r] = req[r].tskid
    BY <1>6
  <2>2. f \in [R -> C] /\ DOMAIN f = R
    BY <2>1
  <2>3. \A u \in C : ~at[u].any
    BY <1>1, <1>3, <1>10 DEF InProcess
  <2>4. \A u \in C : \A r, q \in at[u].reqs : r = q
    BY <1>1, <1>3, <2>3 DEF InProcess
  <2>5. \A r, q \in R : f[r] = f[q] => r = q
    BY <1>6, <2>1, <2>4
  <2>6. \A u \in C : \E r \in R : f[r] = u
    BY <1>5, <2>1
  <2> HIDE DEF f, R, C, A
  <2>7. f \in Injection(R, C) /\ f \in Surjection(R, C)
    BY <2>2, <2>5, <2>6 DEF Injection, Surjection, IsInjective
  <2>8. Cardinality(R) = Cardinality(C)
    BY <1>2, <2>7, FS_Injection
  <2> QED BY <1>10, <2>0, <2>8 DEF AbortCalls, R
<1> QED BY <1>8, <1>9, <1>10

(* The open of which a close has asked the driver to end n calls *)
Asked(c, t, n) == [c EXCEPT !.abort_tskid = t, !.abort_cnt = n]

LEMMA AskedToEnd ==
    ASSUME NEW c \in OPNCB, NEW t \in DevTasks, NEW n \in Nat
    PROVE  /\ Asked(c, t, n) \in OPNCB
           /\ Asked(c, t, n).resid = c.resid /\ Asked(c, t, n).nwaireq = c.nwaireq
           /\ Asked(c, t, n).abort_cnt = n /\ Asked(c, t, n).abort_tskid = t
<1> DEFINE y == [c EXCEPT !.abort_tskid = t]
           z == [y EXCEPT !.abort_cnt = n]
<1>1. /\ z.resid = c.resid /\ z.nwaireq = c.nwaireq
      /\ z.abort_cnt = n /\ z.abort_tskid = t
  BY DEF OPNCB
<1>2. y \in OPNCB
  BY DEF OPNCB
<1>3. z \in OPNCB
  <2> HIDE DEF y
  <2> QED BY <1>2 DEF OPNCB
<1>4. z = Asked(c, t, n)
  BY DEF OPNCB, Asked
<1> HIDE DEF z
<1> QED BY <1>1, <1>3, <1>4

LEMMA AbortStep ==
    ASSUME DevInv, Served, NEW t \in DevTasks, Abort(t)
    PROVE  DevInv'
<1> DEFINE o == at[t].opn
           n == AbortCalls(o)
           z == Asked(opn[o], t, n)
<1>1. /\ DevTypeOK /\ InTurn /\ InProcess /\ Handled /\ Aborting
      /\ at[t].pc = "abort" /\ "abortLook" \in Places
      /\ told' = told \cup AbortedTasks(o)
  BY DEF DevInv, Abort, Is, Places, ClosePlaces, AbortPlaces
<1>2. o \in Opens /\ Handles(t, o)
  BY <1>1 DEF DevTypeOK, Handled, Handles, ClosePlaces
<1>3. /\ n \in Nat /\ n <= Cardinality(Calls(o) \cap AbortedTasks(o))
      /\ ~uncounted => n = Cardinality(Calls(o))
  BY <1>2, AbortCount
<1>4. /\ opn' = [opn EXCEPT ![o] = z] /\ Goes(t, "abortLook")
      /\ UNCHANGED <<req, openq, syncq, disabled, driver, disturbed, uncounted>>
  BY DEF Abort, Asked, history
<1>5. /\ at' \in [DevTasks -> Context] /\ at'[t].pc = "abortLook" /\ at'[t].opn = o
      /\ at'[t].any = at[t].any /\ \A u \in DevTasks \ {t} : at'[u] = at[u]
  BY <1>1, <1>4, Going DEF Turned
<1>6. /\ z \in OPNCB /\ z.resid = opn[o].resid /\ z.nwaireq = opn[o].nwaireq
      /\ z.abort_cnt = n /\ z.abort_tskid = t
  <2>1. opn[o] \in OPNCB
    BY <1>1, <1>2 DEF DevTypeOK
  <2> QED BY <1>3, <2>1, AskedToEnd
<1> HIDE DEF z, n
<1>7. /\ opn' \in [Opens -> OPNCB] /\ opn'[o] = z
      /\ \A c \in Opens \ {o} : opn'[c] = opn[c]
  BY <1>1, <1>2, <1>4, <1>6, OpenTurns DEF OpenTurned
<1>8. told' \subseteq DevTasks /\ told \subseteq told' /\ n <= Cardinality(Calls(o) \cap told')
  <2>1. AbortedTasks(o) \subseteq DevTasks
    BY <1>1 DEF AbortedTasks, DevTypeOK, REQCB, Requests
  <2>2. IsFiniteSet(Calls(o) \cap told')
    BY DeviceIOAssumption, FS_Subset DEF Calls
  <2>3. Calls(o) \cap AbortedTasks(o) \in SUBSET (Calls(o) \cap told')
    BY <1>1
  <2>4. /\ IsFiniteSet(Calls(o) \cap AbortedTasks(o))
        /\ Cardinality(Calls(o) \cap AbortedTasks(o)) <= Cardinality(Calls(o) \cap told')
    BY <2>2, <2>3, FS_Subset
  <2>5. Cardinality(Calls(o) \cap AbortedTasks(o)) \in Nat /\ Cardinality(Calls(o) \cap told') \in Nat
    BY <2>2, <2>4, FS_CardinalityType
  <2> QED BY <1>1, <1>3, <2>1, <2>4, <2>5 DEF DevTypeOK
<1>9. DevTypeOK'
  BY <1>1, <1>4, <1>5, <1>7, <1>8 DEF DevTypeOK
<1>10. ~at[t].any /\ ~InDriver(t)
  BY <1>1, PlacesApart DEF ClosePlaces
<1>11. /\ Aside(t) /\ ~Processing(t) /\ ~Processing(t)'
       /\ at[t].pc \notin OpenPlaces \cup QueuePlaces /\ at[t].pc \in ClosePlaces
       /\ at'[t].pc \notin OpenPlaces \cup QueuePlaces \cup DrainPlaces
       /\ at'[t].pc \in ClosePlaces /\ at'[t].pc \in AbortPlaces
  BY <1>1, <1>5, <1>10 DEF Aside, OpenPlaces, ClosePlaces, QueuePlaces, AbortPlaces,
    DrainPlaces, UsePlaces, Processing
<1>12. \A u \in DevTasks \ {t} : at[u].pc \in OpenPlaces \cup ClosePlaces => at[u].opn # o
  BY <1>1, <1>2, OpenApart
<1>13. \A u \in DevTasks \ {t} : at[u].pc \in AbortPlaces \cup {"abortEnd"} =>
            at[u].opn \in Opens /\ opn'[at[u].opn] = opn[at[u].opn]
  BY <1>1, <1>7, <1>12 DEF Handled, DevTypeOK, ClosePlaces, DrainPlaces
<1>14. \A c \in Opens : /\ opn'[c].nwaireq = opn[c].nwaireq
                        /\ opn'[c].resid = opn[c].resid
  BY <1>6, <1>7
<1>15. Handled'
  BY <1>1, <1>4, <1>5, <1>11, <1>14, HandledKept DEF DevTypeOK
<1>16. InTurn'
  <2>1. InSync' = InSync
    BY <1>5, <1>11 DEF InSync
  <2>2. \A u \in InSync : u \in DevTasks \ {t}
    BY <1>11 DEF InSync
  <2>3. \A u \in InSync : Processing(u) => Processing(u)'
    BY <1>5, <2>2 DEF Processing
  <2> QED BY <1>1, <1>4, <2>1, <2>3, TurnKept
<1>17. InProcess'
  <2>1. /\ \A u \in DevTasks : at[u].pc \in QueuePlaces => at[u].opn \in Opens
        /\ at'[t].pc \notin QueuePlaces
    BY <1>1, <1>11 DEF Handled, DevTypeOK, ClosePlaces
  <2> QED BY <1>1, <1>4, <1>11, <1>14, <2>1, ProcessKept
<1>18. Calls(o)' = Calls(o)
  BY <1>5, <1>11, CallsKept
<1>19. Aborting'
  <2>1. AbortFact(t)'
    BY <1>3, <1>5, <1>6, <1>7, <1>8, <1>18 DEF AbortFact
  <2>2. Aborts(t, o)'
    BY <1>5, <1>11 DEF Aborts
  <2>3. ASSUME NEW c \in Opens
        PROVE  \/ opn'[c].abort_tskid = NoTask
               \/ opn'[c].abort_tskid = t /\ Aborts(t, c)'
               \/ opn'[c].abort_tskid = opn[c].abort_tskid /\ opn'[c].abort_tskid # t
    <3>1. CASE c = o
      <4>1. opn'[c].abort_tskid = t
        BY <1>6, <1>7, <3>1
      <4>2. Aborts(t, c)'
        BY <1>5, <1>11, <3>1 DEF Aborts
      <4> QED BY <4>1, <4>2
    <3>2. CASE c # o
      <4>1. opn[c].abort_tskid # NoTask => Aborts(opn[c].abort_tskid, c)
        BY <1>1 DEF Aborting
      <4>2. ~Aborts(t, c)
        BY <3>2 DEF Aborts
      <4> QED BY <1>7, <3>2, <4>1, <4>2
    <3> QED BY <3>1, <3>2
  <2> QED BY <1>1, <1>4, <1>8, <1>11, <1>13, <2>1, <2>3, AbortKept
<1>20. ASSUME ~disturbed
       PROVE  OneByOne' /\ DriverKnows' /\ (~uncounted => Drained')
  <2>1. t \notin disabled /\ OneByOne /\ DriverKnows
    BY <1>1, <1>20 DEF DevInv, OneByOne, Woken, AbortPlaces
  <2>2. at'[t].pc \notin {"opening", "closing", "abortEnd", "draining"}
    BY <1>5
  <2>3. OneByOne'
    BY <1>1, <1>4, <1>5, <1>11, <1>13, <2>1, <2>2, OneByOneKept
  <2>4. \A c : c \in openq /\ opn[c].resid # 0 <=> c \in openq' /\ opn'[c].resid # 0
    BY <1>1, <1>4, <1>14 DEF DevTypeOK
  <2>5. DriverKnows'
    BY <1>4, <1>5, <2>1, <2>2, <2>4, DriverKept
  <2>6. ~uncounted => Drained'
    BY <1>4, <1>11, <1>20, <2>2, DrainedKept DEF DevInv
  <2> QED BY <2>3, <2>5, <2>6
<1>21. ~uncounted => Counted'
  BY <1>3, <1>5, <1>6, <1>7, <1>11, <1>13, CountedKept DEF DevInv
<1> QED BY <1>4, <1>9, <1>15, <1>16, <1>17, <1>19, <1>20, <1>21 DEF DevInv

-----------------------------------------------------------------------------
(* Steps that enter or leave the queue                                     *)

LEMMA Entering ==
    ASSUME InTurn, NEW t \in DevTasks, t \notin InSync, enterSyncWait(t),
           InSync' = InSync \cup {t}, disabled' = disabled,
           \A u \in InSync : Processing(u) => Processing(u)',
           syncq = <<>> => Processing(t)'
    PROVE  /\ InTurn'
           /\ syncq = <<>> => Head(syncq') = t
           /\ syncq # <<>> => Head(syncq') = Head(syncq)
<1>1. Linked(DevTasks, syncq, InSync) /\ syncq' = Append(syncq, t)
  BY DEF InTurn, enterSyncWait
<1>2. syncq \in Seq(DevTasks)
  BY <1>1 DEF Linked
<1>3. Linked(DevTasks, Append(syncq, t), InSync \cup {t})
  BY <1>1, AppendLinked
<1>4. Linked(DevTasks, syncq', InSync')
  BY <1>1, <1>3
<1>5. syncq = <<>> => Head(syncq') = t
  BY <1>1, <1>2
<1>6. syncq # <<>> => Head(syncq') = Head(syncq)
  BY <1>1, <1>2
<1>7. syncq # <<>> => Head(syncq) \in InSync
  BY <1>1, HeadLinked
<1>8. (Processing(Head(syncq)) \/ Head(syncq) \in disabled)'
  <2>1. CASE syncq = <<>>
    BY <1>5, <2>1 DEF Processing
  <2>2. CASE syncq # <<>>
    BY <1>6, <1>7, <2>2 DEF InTurn, Processing
  <2> QED BY <2>1, <2>2
<1> QED BY <1>4, <1>5, <1>6, <1>8 DEF InTurn

LEMMA Leave ==
    ASSUME InTurn, NEW t \in InSync, leaveSyncWait(t), InSync' = InSync \ {t},
           disabled \subseteq DevTasks
    PROVE  /\ InTurn' /\ disabled' \subseteq DevTasks
           /\ \A u \in disabled' : u \in disabled \/ (u \in InSync \ {t} /\ u = Head(syncq'))
           /\ disabled \subseteq disabled'
<1> DEFINE q == Remaining(t)
<1>1. /\ Linked(DevTasks, syncq, InSync) /\ syncq' = q /\ q = RemoveFirst(syncq, t)
      /\ disabled' = disabled \cup NextInSync(t)
      /\ NextInSync(t) = IF q = <<>> THEN {} ELSE {Head(q)}
  BY DEF InTurn, leaveSyncWait, Remaining, NextInSync
<1> HIDE DEF q
<1>2. Linked(DevTasks, q, InSync \ {t})
  BY <1>1, RemoveLinked
<1>3. Linked(DevTasks, syncq', InSync')
  BY <1>1, <1>2
<1>4. q # <<>> => Head(q) \in InSync \ {t} /\ Head(q) \in DevTasks
  BY <1>2, HeadLinked
<1>5. syncq' # <<>> => Head(syncq') \in disabled'
  BY <1>1
<1>6. /\ \A u \in disabled' : u \in disabled \/ (u \in InSync \ {t} /\ u = Head(syncq'))
      /\ disabled \subseteq disabled' /\ disabled' \subseteq DevTasks
  BY <1>1, <1>4
<1> QED BY <1>3, <1>5, <1>6 DEF InTurn

LEMMA LeaveOneByOne ==
    ASSUME DevInv, ~disturbed, NEW t \in DevTasks, Processing(t), leaveSyncWait(t),
           InSync' = InSync \ {t}, at'[t].pc = "out",
           \A u \in DevTasks \ {t} : at'[u] = at[u],
           \A u \in DevTasks \ {t} : at[u].pc \in AbortPlaces \cup {"abortEnd"}
                => opn'[at[u].opn].abort_cnt = opn[at[u].opn].abort_cnt
    PROVE  OneByOne' /\ \A u \in DevTasks : ~Processing(u)'
<1>1. DevTypeOK /\ InTurn /\ OneByOne /\ t = Head(syncq) /\ disabled \subseteq DevTasks
  BY DEF DevInv, OneByOne, DevTypeOK
<1>2. t \in InSync
  BY DEF InSync, Processing, OpenPlaces, QueuePlaces
<1>3. \A u \in disabled' : u \in disabled \/ (u \in InSync \ {t} /\ u = Head(syncq'))
  BY <1>1, <1>2, Leave
<1>4. \A u \in DevTasks : ~Processing(u)'
  <2> TAKE u \in DevTasks
  <2>1. CASE u = t
    BY <2>1 DEF Processing
  <2>2. CASE u # t
    BY <1>1, <2>2 DEF Processing, OneByOne
  <2> QED BY <2>1, <2>2
<1>5. ASSUME NEW u \in disabled
      PROVE  Woken(u)'
  <2>1. Woken(u) /\ u \in DevTasks
    BY <1>1 DEF OneByOne
  <2>2. at[u].pc \in AbortPlaces /\ opn[at[u].opn].abort_cnt <= 0
    BY <1>1, <2>1 DEF Woken, Processing
  <2>3. u # t
    BY <2>2 DEF Processing, AbortPlaces
  <2> QED BY <2>1, <2>2, <2>3 DEF Woken
<1>6. ASSUME NEW u \in InSync \ {t}, u = Head(syncq')
      PROVE  Woken(u)'
  <2>1. u \in DevTasks /\ at'[u] = at[u] /\ ~Processing(u)'
    BY <1>4 DEF InSync
  <2>2. at'[u].pc \in {"openSync", "closeSync"}
    BY <2>1 DEF InSync, OpenPlaces, QueuePlaces, Processing
  <2> QED BY <1>6, <2>2 DEF Woken
<1>7. \A u \in disabled' : Woken(u)'
  BY <1>3, <1>5, <1>6
<1>8. \A u \in DevTasks : at'[u].pc = "abortEnd" => opn'[at'[u].opn].abort_cnt <= 0
  <2> TAKE u \in DevTasks
  <2>1. at'[u].pc = "abortEnd" => u # t
    OBVIOUS
  <2> QED BY <1>1, <2>1 DEF OneByOne
<1> QED BY <1>4, <1>7, <1>8 DEF OneByOne

LEMMA OpenStartStep ==
    ASSUME DevInv, NEW t \in DevTasks, NEW o \in Opens, OpenStart(t, o)
    PROVE  DevInv'
<1> DEFINE p == IF syncq = <<>> THEN "openNext" ELSE "openSync"
           w == [at[t] EXCEPT !.opn = o, !.pc = p]
<1>1. /\ DevTypeOK /\ InTurn /\ InProcess /\ Handled /\ Aborting
      /\ at[t] \in Context /\ at[t].pc = "out" /\ o \notin openq /\ openq \subseteq Opens
  BY DEF DevInv, DevTypeOK, OpenStart, Is
<1>2. /\ opn' = [opn EXCEPT ![o] = NewOpen] /\ openq' = openq \cup {o} /\ enterSyncWait(t)
      /\ UNCHANGED <<req, disabled, told, driver, disturbed, uncounted>>
      /\ at' = [at EXCEPT ![t] = w]
  BY <1>1 DEF OpenStart, history
<1>3. "openNext" \in Places /\ "openSync" \in Places /\ p \in {"openNext", "openSync"}
  BY DEF Places, OpenPlaces
<1>4. w \in Context /\ w.pc = p /\ w.opn = o /\ w.any = at[t].any
  <2> HIDE DEF p
  <2> QED BY <1>1, <1>3 DEF Context
<1> HIDE DEF w
<1>5. /\ at' \in [DevTasks -> Context] /\ at'[t].pc = p /\ at'[t].opn = o
      /\ at'[t].any = at[t].any /\ \A u \in DevTasks \ {t} : at'[u] = at[u]
  BY <1>1, <1>2, <1>4, Turns DEF Turned
<1>6. /\ opn' \in [Opens -> OPNCB] /\ opn'[o] = NewOpen
      /\ \A c \in Opens \ {o} : opn'[c] = opn[c]
  BY <1>1, <1>2, NewOpenIs, OpenTurns DEF OpenTurned
<1>7. DevTypeOK'
  BY <1>1, <1>2, <1>5, <1>6 DEF DevTypeOK
<1>8. ~at[t].any /\ ~InDriver(t)
  BY <1>1, PlacesApart
<1>9. /\ syncq = <<>> => at'[t].pc = "openNext"
      /\ syncq # <<>> => at'[t].pc = "openSync"
      /\ at'[t].pc \in {"openNext", "openSync"}
  BY <1>3, <1>5
<1>10. /\ Aside(t)
       /\ at[t].pc \notin OpenPlaces \cup ClosePlaces /\ at[t].pc \notin QueuePlaces
       /\ at[t].pc \notin AbortPlaces /\ ~Processing(t)
       /\ at'[t].pc \in OpenPlaces
       /\ at'[t].pc \notin ClosePlaces /\ at'[t].pc \notin QueuePlaces
       /\ at'[t].pc \notin AbortPlaces /\ at'[t].pc \notin DrainPlaces
  BY <1>1, <1>5, <1>8, <1>9 DEF Aside, OpenPlaces, ClosePlaces, QueuePlaces, AbortPlaces,
    DrainPlaces, UsePlaces, Processing
<1>11. \A u \in DevTasks : at[u].pc \in OpenPlaces \cup ClosePlaces => at[u].opn # o
  BY <1>1, OpenFree
<1>12. \A u \in DevTasks : at[u].pc \in OpenPlaces \cup ClosePlaces =>
            at[u].opn \in Opens /\ opn'[at[u].opn] = opn[at[u].opn]
  BY <1>1, <1>6, <1>11 DEF Handled
<1>13. opn[o].resid = 0 /\ Calls(o) = {}
  BY <1>1, OpenUnused DEF Handled
<1>14. \A c \in Opens : opn'[c].resid = opn[c].resid
  BY <1>6, <1>13, NewOpenIs
<1>15. Handled'
  <2>1. \A c \in Opens : opn'[c].resid # 0 => c \in openq'
    BY <1>1, <1>2, <1>14 DEF Handled
  <2>2. ASSUME NEW u \in DevTasks
        PROVE  /\ at'[u].pc \in OpenPlaces => at'[u].opn \in openq' /\ opn'[at'[u].opn].resid = 0
               /\ at'[u].pc \in ClosePlaces => at'[u].opn \in openq' /\ opn'[at'[u].opn].resid = -1
    <3>1. CASE u = t
      BY <1>2, <1>5, <1>6, <1>10, <3>1, NewOpenIs
    <3>2. CASE u # t
      BY <1>1, <1>2, <1>5, <1>12, <3>2 DEF Handled
    <3> QED BY <3>1, <3>2
  <2>3. \A u, v \in DevTasks, c \in Opens : Handles(u, c)' /\ Handles(v, c)' => u = v
    BY <1>1, <1>5, <1>11 DEF Handled, Handles
  <2> QED BY <2>1, <2>2, <2>3 DEF Handled
<1>16. /\ InTurn' /\ (syncq = <<>> => Head(syncq') = t)
       /\ (syncq # <<>> => Head(syncq') = Head(syncq))
  <2>1. InSync' = InSync \cup {t} /\ t \notin InSync
    BY <1>1, <1>5, <1>10 DEF InSync
  <2>2. \A u \in InSync : u \in DevTasks \ {t}
    BY <2>1 DEF InSync
  <2>3. \A u \in InSync : Processing(u) => Processing(u)'
    BY <1>5, <2>2 DEF Processing
  <2>4. syncq = <<>> => Processing(t)'
    BY <1>9 DEF Processing
  <2> QED BY <1>1, <1>2, <2>1, <2>3, <2>4, Entering
<1>17. InProcess'
  <2>1. \A u \in DevTasks : at[u].pc \in QueuePlaces => at[u].opn \in Opens
    BY <1>12 DEF ClosePlaces
  <2>2. \A c \in Opens : \/ opn'[c].nwaireq = opn[c].nwaireq
                         \/ Calls(c) = {} /\ opn'[c].nwaireq = 0
    BY <1>6, <1>13, NewOpenIs
  <2> QED BY <1>1, <1>2, <1>10, <1>14, <2>1, <2>2, ProcessKept
<1>18. \A u \in DevTasks \ {t} : at[u].pc \in AbortPlaces \cup {"abortEnd"} =>
            at[u].opn \in Opens /\ opn'[at[u].opn] = opn[at[u].opn]
  BY <1>12 DEF ClosePlaces, DrainPlaces
<1>19. Aborting'
  <2>1. AbortFact(t)'
    BY <1>9 DEF AbortFact, AbortPlaces
  <2>2. ASSUME NEW c \in Opens
        PROVE  \/ opn'[c].abort_tskid = NoTask
               \/ opn'[c].abort_tskid = opn[c].abort_tskid /\ opn'[c].abort_tskid # t
    <3>1. opn[c].abort_tskid # NoTask => Aborts(opn[c].abort_tskid, c)
      BY <1>1 DEF Aborting
    <3>2. ~Aborts(t, c)
      BY <1>1 DEF Aborts, AbortPlaces
    <3> QED BY <1>6, <3>1, <3>2, NewOpenIs
  <2> QED BY <1>1, <1>2, <1>10, <1>18, <2>1, <2>2, AbortKept
<1>20. ASSUME ~disturbed
       PROVE  OneByOne' /\ DriverKnows' /\ (~uncounted => Drained')
  <2>1. t \notin disabled /\ OneByOne /\ DriverKnows
    BY <1>1, <1>20 DEF DevInv, OneByOne, Woken, AbortPlaces
  <2>2. at'[t].pc \notin {"opening", "closing", "abortEnd", "draining"}
    BY <1>9
  <2>3. Processing(t)' => t = Head(syncq')
    BY <1>9, <1>16 DEF Processing
  <2>4. OneByOne'
    BY <1>1, <1>2, <1>5, <1>16, <1>18, <2>1, <2>2, <2>3, OneByOneKept
  <2>5. \A c : c \in openq /\ opn[c].resid # 0 <=> c \in openq' /\ opn'[c].resid # 0
    BY <1>1, <1>2, <1>13, <1>14
  <2>6. DriverKnows'
    BY <1>2, <1>5, <2>1, <2>2, <2>5, DriverKept
  <2>7. ~uncounted => Drained'
    BY <1>2, <1>10, <1>20, <2>2, DrainedKept DEF DevInv
  <2> QED BY <2>4, <2>6, <2>7
<1>21. ~uncounted => Counted'
  BY <1>10, <1>18, CountedKept DEF DevInv
<1> QED BY <1>2, <1>7, <1>15, <1>16, <1>17, <1>19, <1>20, <1>21 DEF DevInv

LEMMA CloseQueueStep ==
    ASSUME DevInv, NEW t \in DevTasks, CloseQueue(t)
    PROVE  DevInv'
<1>1. /\ DevTypeOK /\ InTurn /\ InProcess /\ Handled /\ Aborting
      /\ at[t].pc = "drain" /\ Requests(at[t].opn) = {} /\ openq \subseteq Opens
  BY DEF DevInv, DevTypeOK, CloseQueue, Is
<1>2. PICK p \in Places : /\ Goes(t, p)
                          /\ syncq = <<>> => p = "closeNext"
                          /\ syncq # <<>> => p = "closeSync"
                          /\ p \in {"closeNext", "closeSync"}
  BY DEF CloseQueue, Places, ClosePlaces, QueuePlaces
<1>3. /\ enterSyncWait(t) /\ UNCHANGED <<opn, req, openq, disabled, told, driver, disturbed, uncounted>>
  BY DEF CloseQueue, history
<1>4. /\ at' \in [DevTasks -> Context] /\ at'[t].pc = p /\ at'[t].opn = at[t].opn
      /\ at'[t].any = at[t].any /\ \A u \in DevTasks \ {t} : at'[u] = at[u]
  BY <1>1, <1>2, Going DEF Turned
<1>5. DevTypeOK'
  BY <1>1, <1>3, <1>4 DEF DevTypeOK
<1>6. ~at[t].any /\ ~InDriver(t)
  BY <1>1, PlacesApart DEF ClosePlaces, DrainPlaces
<1>7. /\ Aside(t)
      /\ at[t].pc \notin OpenPlaces /\ at[t].pc \notin QueuePlaces /\ at[t].pc \in ClosePlaces
      /\ at[t].pc \notin AbortPlaces /\ ~Processing(t)
      /\ at'[t].pc \notin OpenPlaces /\ at'[t].pc \in QueuePlaces /\ at'[t].pc \in ClosePlaces
      /\ at'[t].pc \notin AbortPlaces /\ at'[t].pc \notin DrainPlaces
  BY <1>1, <1>2, <1>4, <1>6 DEF Aside, OpenPlaces, ClosePlaces, QueuePlaces, AbortPlaces,
    DrainPlaces, UsePlaces, Processing
<1>8. at[t].opn \in Opens /\ \A u \in DevTasks : at[u].pc \in ClosePlaces => at[u].opn \in Opens
  BY <1>1, <1>7 DEF Handled
<1>9. Handled'
  BY <1>1, <1>3, <1>4, <1>7, HandledKept
<1>10. /\ InTurn' /\ (syncq = <<>> => Head(syncq') = t)
       /\ (syncq # <<>> => Head(syncq') = Head(syncq))
  <2>1. InSync' = InSync \cup {t} /\ t \notin InSync
    BY <1>4, <1>7 DEF InSync
  <2>2. \A u \in InSync : u \in DevTasks \ {t}
    BY <2>1 DEF InSync
  <2>3. \A u \in InSync : Processing(u) => Processing(u)'
    BY <1>4, <2>2 DEF Processing
  <2>4. syncq = <<>> => Processing(t)'
    BY <1>2, <1>4 DEF Processing
  <2> QED BY <1>1, <1>3, <2>1, <2>3, <2>4, Entering
<1>11. InProcess'
  <2>1. \A u \in DevTasks : at[u].pc \in QueuePlaces => at[u].opn \in Opens
    BY <1>8 DEF ClosePlaces
  <2>2. at'[t].opn \in Opens /\ Requests(at'[t].opn) = {}
    BY <1>1, <1>4, <1>8
  <2> QED BY <1>1, <1>3, <1>7, <2>1, <2>2, ProcessKept
<1>12. Aborting'
  <2>1. AbortFact(t)'
    BY <1>2, <1>4 DEF AbortFact, AbortPlaces
  <2>2. ASSUME NEW c \in Opens
        PROVE  \/ opn'[c].abort_tskid = NoTask
               \/ opn'[c].abort_tskid = opn[c].abort_tskid /\ opn'[c].abort_tskid # t
    <3>1. opn[c].abort_tskid # NoTask => Aborts(opn[c].abort_tskid, c)
      BY <1>1 DEF Aborting
    <3>2. ~Aborts(t, c)
      BY <1>1 DEF Aborts, AbortPlaces
    <3> QED BY <1>3, <3>1, <3>2
  <2> QED BY <1>1, <1>3, <1>7, <2>1, <2>2, AbortKept
<1>13. ASSUME ~disturbed
       PROVE  OneByOne' /\ DriverKnows' /\ (~uncounted => Drained')
  <2>1. t \notin disabled /\ OneByOne /\ DriverKnows
    BY <1>1, <1>13 DEF DevInv, OneByOne, Woken, AbortPlaces
  <2>2. at'[t].pc \notin {"opening", "closing", "abortEnd", "draining"}
    BY <1>2, <1>4
  <2>3. Processing(t)' => t = Head(syncq')
    BY <1>2, <1>4, <1>10 DEF Processing
  <2>4. OneByOne'
    BY <1>1, <1>3, <1>4, <1>10, <2>1, <2>2, <2>3, OneByOneKept
  <2>5. DriverKnows'
    BY <1>3, <1>4, <2>1, <2>2, DriverKept
  <2>6. ~uncounted => Drained'
    BY <1>3, <1>7, <1>13, <2>2, DrainedKept DEF DevInv
  <2> QED BY <2>4, <2>5, <2>6
<1>14. ~uncounted => Counted'
  BY <1>3, <1>7, CountedKept DEF DevInv
<1> QED BY <1>3, <1>5, <1>9, <1>10, <1>11, <1>12, <1>13, <1>14 DEF DevInv

(* The two steps that end an open or a close: the open may go out of use.  *)
LEMMA LeavesSync ==
    ASSUME DevInv, NEW t \in DevTasks, at[t].pc \in {"opening", "closing"},
           Leaves(t), leaveSyncWait(t), UNCHANGED <<req, told, disturbed, uncounted>>,
           opn' \in [Opens -> OPNCB], driver' \in BOOLEAN,
           \A c \in Opens \ {at[t].opn} : opn'[c] = opn[c],
           LET o == at[t].opn
           IN  /\ \/ openq' = openq /\ opn'[o].resid = 1
                  \/ openq' = openq \ {o} /\ opn'[o].resid = 0
               /\ Calls(o) = {}
               /\ opn'[o].nwaireq = opn[o].nwaireq \/ opn'[o].nwaireq = 0
               /\ opn'[o].abort_tskid = opn[o].abort_tskid \/ opn'[o].abort_tskid = NoTask
    PROVE  /\ DevTypeOK' /\ InTurn' /\ Handled' /\ InProcess' /\ Aborting'
           /\ ~disturbed => OneByOne' /\ \A u \in DevTasks : ~Processing(u)'
           /\ ~uncounted => Counted'
           /\ ~uncounted => Drained'
<1> DEFINE o == at[t].opn
<1>1. /\ DevTypeOK /\ InTurn /\ InProcess /\ Handled /\ Aborting /\ openq \subseteq Opens
      /\ disabled \subseteq DevTasks
  BY DEF DevInv, DevTypeOK
<1>2. /\ at' \in [DevTasks -> Context] /\ at'[t].pc = "out" /\ ~at'[t].any
      /\ \A u \in DevTasks \ {t} : at'[u] = at[u]
  BY <1>1, Leaving DEF Turned
<1>3. ~at[t].any /\ ~InDriver(t)
  BY <1>1, PlacesApart DEF OpenPlaces, ClosePlaces, QueuePlaces
<1>4. /\ Aside(t)
      /\ at[t].pc \in OpenPlaces \cup ClosePlaces /\ at[t].pc \in OpenPlaces \cup QueuePlaces
      /\ at[t].pc \notin AbortPlaces /\ Processing(t)
      /\ at'[t].pc \notin OpenPlaces \cup ClosePlaces
      /\ at'[t].pc \notin QueuePlaces
      /\ at'[t].pc \notin AbortPlaces /\ at'[t].pc \notin DrainPlaces
  BY <1>2, <1>3 DEF Aside, OpenPlaces, ClosePlaces, QueuePlaces, AbortPlaces,
    DrainPlaces, UsePlaces, Processing
<1>5. o \in Opens /\ o \in openq /\ Handles(t, o)
  BY <1>1, <1>4 DEF Handled, Handles
<1>6. \A u \in DevTasks \ {t} : at[u].pc \in OpenPlaces \cup ClosePlaces =>
            /\ at[u].opn # o /\ at[u].opn \in Opens /\ at[u].opn \in openq
            /\ opn'[at[u].opn] = opn[at[u].opn]
  BY <1>1, <1>5, OpenApart DEF Handled
<1>7. /\ Calls(o) = {}
      /\ \/ openq' = openq /\ opn'[o].resid = 1
         \/ openq' = openq \ {o} /\ opn'[o].resid = 0
      /\ opn'[o].nwaireq = opn[o].nwaireq \/ opn'[o].nwaireq = 0
      /\ opn'[o].abort_tskid = opn[o].abort_tskid \/ opn'[o].abort_tskid = NoTask
  OBVIOUS
<1>8. t \in InSync /\ InSync' = InSync \ {t}
  BY <1>2, <1>4 DEF InSync
<1>9. /\ InTurn' /\ disabled' \subseteq DevTasks /\ disabled \subseteq disabled'
  BY <1>1, <1>8, Leave
<1>10. DevTypeOK'
  <2>1. openq' \subseteq Opens
    BY <1>1, <1>7
  <2> QED BY <1>1, <1>2, <1>9, <2>1 DEF DevTypeOK
<1> HIDE DEF o
<1>11. Handled'
  <2>1. \A c \in Opens : opn'[c].resid # 0 => c \in openq'
    BY <1>1, <1>5, <1>7 DEF Handled, o
  <2>2. ASSUME NEW u \in DevTasks
        PROVE  /\ at'[u].pc \in OpenPlaces => at'[u].opn \in openq' /\ opn'[at'[u].opn].resid = 0
               /\ at'[u].pc \in ClosePlaces => at'[u].opn \in openq' /\ opn'[at'[u].opn].resid = -1
    <3>1. CASE u = t
      BY <1>4, <3>1
    <3>2. CASE u # t
      BY <1>1, <1>2, <1>6, <1>7, <3>2 DEF Handled
    <3> QED BY <3>1, <3>2
  <2>3. \A u, v \in DevTasks, c \in Opens : Handles(u, c)' /\ Handles(v, c)' => u = v
    BY <1>1, <1>2, <1>4 DEF Handled, Handles
  <2> QED BY <2>1, <2>2, <2>3 DEF Handled
<1>12. InProcess'
  <2>1. \A u \in DevTasks : at[u].pc \in QueuePlaces => at[u].opn \in Opens
    BY <1>5, <1>6 DEF ClosePlaces, o
  <2>2. \A c \in Opens : \/ opn'[c].nwaireq = opn[c].nwaireq
                         \/ Calls(c) = {} /\ opn'[c].nwaireq = 0
    BY <1>7 DEF o
  <2>3. \A c \in Opens : opn[c].resid # 0 => opn'[c].resid # 0 \/ Calls(c) = {}
    BY <1>7 DEF o
  <2> QED BY <1>1, <1>4, <2>1, <2>2, <2>3, ProcessKept
<1>13. \A u \in DevTasks \ {t} : at[u].pc \in AbortPlaces \cup {"abortEnd"} =>
            at[u].opn \in Opens /\ opn'[at[u].opn] = opn[at[u].opn]
  BY <1>6 DEF ClosePlaces, DrainPlaces
<1>14. Aborting'
  <2>1. AbortFact(t)'
    BY <1>2 DEF AbortFact, AbortPlaces
  <2>2. ASSUME NEW c \in Opens
        PROVE  \/ opn'[c].abort_tskid = NoTask
               \/ opn'[c].abort_tskid = opn[c].abort_tskid /\ opn'[c].abort_tskid # t
    <3>1. opn[c].abort_tskid # NoTask => Aborts(opn[c].abort_tskid, c)
      BY <1>1 DEF Aborting
    <3>2. ~Aborts(t, c)
      BY DEF Aborts, AbortPlaces
    <3> QED BY <1>7, <3>1, <3>2 DEF o
  <2> QED BY <1>1, <1>4, <1>9, <1>13, <2>1, <2>2, AbortKept
<1>15. ~disturbed => OneByOne' /\ \A u \in DevTasks : ~Processing(u)'
  BY <1>2, <1>4, <1>8, <1>13, LeaveOneByOne
<1>16. ~uncounted => Counted'
  BY <1>4, <1>13, CountedKept DEF DevInv
<1>17. ~uncounted => Drained'
  <2>1. \A c \in openq : c \in openq' \/ Calls(c) = {}
    BY <1>7
  <2> QED BY <1>2, <1>4, <2>1, DrainedKept DEF DevInv
<1> QED BY <1>9, <1>10, <1>11, <1>12, <1>14, <1>15, <1>16, <1>17

LEMMA OpenEndStep ==
    ASSUME DevInv, NEW t \in DevTasks, OpenEnd(t)
    PROVE  DevInv'
<1> DEFINE o == at[t].opn
           z == [opn[o] EXCEPT !.resid = 1]
<1>1. /\ DevTypeOK /\ InProcess /\ Handled /\ at[t].pc = "opening"
      /\ Leaves(t) /\ leaveSyncWait(t) /\ UNCHANGED <<req, told, disturbed, uncounted>>
      /\ openq \subseteq Opens /\ driver \in BOOLEAN /\ opn \in [Opens -> OPNCB]
  BY DEF DevInv, DevTypeOK, OpenEnd, Is, history
<1>2. \/ opn' = [opn EXCEPT ![o] = z] /\ driver' = (driver \/ at[t].call) /\ openq' = openq
      \/ at[t].call /\ openq' = openq \ {o} /\ opn' = opn /\ driver' = driver
  BY DEF OpenEnd
<1>3. o \in Opens /\ o \in openq /\ opn[o].resid = 0 /\ opn[o] \in OPNCB
  BY <1>1 DEF Handled, OpenPlaces
<1>4. /\ z \in OPNCB /\ z.resid = 1 /\ z.nwaireq = opn[o].nwaireq
      /\ z.abort_tskid = opn[o].abort_tskid
  BY <1>3 DEF OPNCB
<1> HIDE DEF z
<1>5. Calls(o) = {}
  BY <1>1, <1>3, OpenUnused
<1>6. at[t].call \in BOOLEAN
  BY <1>1 DEF DevTypeOK, Context
<1>7. /\ opn' \in [Opens -> OPNCB] /\ driver' \in BOOLEAN
      /\ \A c \in Opens \ {o} : opn'[c] = opn[c]
      /\ \/ openq' = openq /\ opn'[o].resid = 1
         \/ openq' = openq \ {o} /\ opn'[o].resid = 0
      /\ opn'[o].nwaireq = opn[o].nwaireq
      /\ opn'[o].abort_tskid = opn[o].abort_tskid
  <2>1. CASE opn' = [opn EXCEPT ![o] = z] /\ driver' = (driver \/ at[t].call) /\ openq' = openq
    <3>1. opn' \in [Opens -> OPNCB] /\ opn'[o] = z /\ \A c \in Opens \ {o} : opn'[c] = opn[c]
      BY <1>1, <1>3, <1>4, <2>1, OpenTurns DEF OpenTurned
    <3>2. driver' \in BOOLEAN
      BY <2>1
    <3> QED BY <1>4, <2>1, <3>1, <3>2
  <2>2. CASE at[t].call /\ openq' = openq \ {o} /\ opn' = opn /\ driver' = driver
    BY <1>1, <1>3, <2>2
  <2> QED BY <1>2, <2>1, <2>2
<1>8. /\ DevTypeOK' /\ InTurn' /\ Handled' /\ InProcess' /\ Aborting'
      /\ ~disturbed => OneByOne' /\ \A u \in DevTasks : ~Processing(u)'
      /\ ~uncounted => Counted'
      /\ ~uncounted => Drained'
  BY <1>1, <1>5, <1>7, LeavesSync
<1>9. ASSUME ~disturbed
      PROVE  DriverKnows'
  <2>1. DriverKnows
    BY <1>9 DEF DevInv
  <2>2. /\ driver <=> \E c \in openq : opn[c].resid # 0
        /\ at[t].call <=> ~\E c \in openq \ {o} : opn[c].resid # 0
    BY <1>1, <2>1 DEF DriverKnows, chkopen
  <2>3. driver' <=> \E c \in openq' : opn'[c].resid # 0
    <3>1. CASE opn' = [opn EXCEPT ![o] = z] /\ driver' = (driver \/ at[t].call) /\ openq' = openq
      <4>1. opn'[o].resid = 1 /\ o \in openq'
        BY <1>3, <1>4, <1>1, <3>1
      <4>2. driver'
        BY <1>3, <2>2, <3>1
      <4> QED BY <4>1, <4>2
    <3>2. CASE at[t].call /\ openq' = openq \ {o} /\ opn' = opn /\ driver' = driver
      BY <1>3, <2>2, <3>2
    <3> QED BY <1>2, <3>1, <3>2
  <2>4. \A u \in DevTasks : at'[u].pc \notin {"opening", "closing"}
    BY <1>8, <1>9 DEF Processing
  <2> QED BY <2>3, <2>4 DEF DriverKnows
<1> QED BY <1>1, <1>8, <1>9 DEF DevInv

LEMMA CloseEndStep ==
    ASSUME DevInv, Served, NEW t \in DevTasks, CloseEnd(t)
    PROVE  DevInv'
<1> DEFINE o == at[t].opn
<1>1. /\ DevTypeOK /\ InProcess /\ Handled /\ at[t].pc = "closing"
      /\ Leaves(t) /\ leaveSyncWait(t) /\ UNCHANGED <<req, told, disturbed, uncounted>>
      /\ openq \subseteq Opens /\ driver \in BOOLEAN /\ opn \in [Opens -> OPNCB]
  BY DEF DevInv, DevTypeOK, CloseEnd, Is, history
<1>2. /\ opn' = [opn EXCEPT ![o] = NewOpen] /\ driver' = (driver /\ ~at[t].call)
      /\ openq' = openq \ {o}
  BY DEF CloseEnd
<1>3. o \in Opens /\ o \in openq /\ opn[o].resid = -1 /\ Requests(o) = {}
  BY <1>1 DEF Handled, InProcess, ClosePlaces, QueuePlaces
<1>4. Calls(o) = {}
  <2> SUFFICES ASSUME NEW u \in Calls(o)
               PROVE  FALSE
    OBVIOUS
  <2>1. u \in DevTasks /\ InDriver(u) /\ at[u].opn = o /\ at[u].pc \in UsePlaces
    BY DEF Calls, InDriver, UsePlaces
  <2>2. PICK r \in at[u].reqs : TRUE
    BY <1>1, <2>1 DEF InProcess
  <2>3. r \in Reqs
    BY <1>1, <2>1, <2>2 DEF DevTypeOK, Context
  <2>4. req[r] = [opncb |-> at[u].opn, tskid |-> u]
    BY <2>1, <2>2 DEF Served
  <2>5. req[r].opncb = o
    BY <2>1, <2>4
  <2> QED BY <1>3, <2>3, <2>5 DEF Requests
<1>5. /\ opn' \in [Opens -> OPNCB] /\ opn'[o] = NewOpen
      /\ \A c \in Opens \ {o} : opn'[c] = opn[c]
  BY <1>1, <1>2, <1>3, NewOpenIs, OpenTurns DEF OpenTurned
<1>6. /\ driver' \in BOOLEAN /\ opn'[o].resid = 0 /\ opn'[o].nwaireq = 0
      /\ opn'[o].abort_tskid = NoTask
  BY <1>2, <1>5, NewOpenIs
<1>7. /\ DevTypeOK' /\ InTurn' /\ Handled' /\ InProcess' /\ Aborting'
      /\ ~disturbed => OneByOne' /\ \A u \in DevTasks : ~Processing(u)'
      /\ ~uncounted => Counted'
      /\ ~uncounted => Drained'
  BY <1>1, <1>2, <1>4, <1>5, <1>6, LeavesSync
<1>8. ASSUME ~disturbed
      PROVE  DriverKnows'
  <2>1. DriverKnows
    BY <1>8 DEF DevInv
  <2>2. /\ driver <=> \E c \in openq : opn[c].resid # 0
        /\ at[t].call <=> ~\E c \in openq \ {o} : opn[c].resid # 0
    BY <1>1, <2>1 DEF DriverKnows, chkopen
  <2>3. driver' <=> ~at[t].call
    BY <1>2, <1>3, <2>2
  <2>4. (\E c \in openq' : opn'[c].resid # 0) <=> (\E c \in openq \ {o} : opn[c].resid # 0)
    BY <1>1, <1>2, <1>5
  <2>5. \A u \in DevTasks : at'[u].pc \notin {"opening", "closing"}
    BY <1>7, <1>8 DEF Processing
  <2> QED BY <2>2, <2>3, <2>4, <2>5 DEF DriverKnows
<1> QED BY <1>1, <1>7, <1>8 DEF DevInv

-----------------------------------------------------------------------------
(* Requests                                                                *)

(* The driver is called by t, which works for o, for the requests R. *)
CallStarts(t, o, R) ==
    /\ opn[o].resid = 1 /\ at[t].pc \in {"out", "executed"}
    /\ at' \in [DevTasks -> Context] /\ \A u \in DevTasks \ {t} : at'[u] = at[u]
    /\ at'[t].pc \in {"exec", "wait"} /\ at'[t].opn = o /\ at'[t].reqs = R
    /\ R \subseteq Reqs /\ R # {}
    /\ ~at'[t].any => \A r, q \in R : r = q
    /\ at'[t].any => /\ at'[t].pc = "wait" /\ opn[o].nwaireq = 0 /\ opn'[o].nwaireq > 0
                     /\ ~uncounted' => Calls(o) = {}
    /\ ~at'[t].any => opn'[o].nwaireq = opn[o].nwaireq
    /\ opn' \in [Opens -> OPNCB] /\ \A c \in Opens \ {o} : opn'[c] = opn[c]
    /\ opn'[o].resid = opn[o].resid
    /\ opn'[o].abort_tskid = opn[o].abort_tskid /\ opn'[o].abort_cnt = opn[o].abort_cnt
    /\ req' \in [Reqs -> REQCB] /\ \A r \in Reqs \ R : req'[r] = req[r]
    /\ \A r \in R : /\ req'[r] = [opncb |-> o, tskid |-> t]
                    /\ req[r].opncb = NoOpen \/ req[r].opncb = o
                    /\ ~uncounted' => req[r].opncb = NoOpen \/ req[r].tskid = NoTask
    /\ ~uncounted' => opn[o].nwaireq = 0
    /\ uncounted' \in BOOLEAN /\ (uncounted => uncounted')
    /\ UNCHANGED <<openq, syncq, disabled, told, driver, disturbed>>

LEMMA CallStartsTask ==
    ASSUME DevInv, NEW t \in DevTasks, NEW o \in Opens, NEW R, CallStarts(t, o, R)
    PROVE  /\ ~InDriver(t) /\ InDriver(t)' /\ ~Processing(t) /\ ~Processing(t)'
           /\ at[t].pc \notin OpenPlaces \cup ClosePlaces /\ ~at[t].any
           /\ at'[t].pc \notin OpenPlaces \cup ClosePlaces
           /\ at'[t].pc \notin AbortPlaces /\ at'[t].pc \notin DrainPlaces
           /\ at'[t].pc \notin QueuePlaces /\ at'[t].pc \in UsePlaces
           /\ \A u \in DevTasks \ {t} : InDriver(u)' <=> InDriver(u)
           /\ \A u \in DevTasks : at[u].pc \in OpenPlaces \cup ClosePlaces =>
                u # t /\ at[u].opn # o /\ at[u].opn \in Opens
                /\ opn'[at[u].opn] = opn[at[u].opn]
           /\ \A c \in Opens \ {o} : Calls(c)' = Calls(c) /\ t \notin Calls(c)
           /\ Calls(o)' = Calls(o) \cup {t}
<1>1. /\ ~InDriver(t) /\ InDriver(t)' /\ ~Processing(t) /\ ~Processing(t)'
      /\ at[t].pc \notin OpenPlaces \cup ClosePlaces
      /\ at'[t].pc \notin OpenPlaces \cup ClosePlaces
      /\ at'[t].pc \notin AbortPlaces /\ at'[t].pc \notin DrainPlaces
      /\ at'[t].pc \notin QueuePlaces /\ at'[t].pc \in UsePlaces
  BY DEF CallStarts, InDriver, Processing, OpenPlaces, ClosePlaces, AbortPlaces,
    DrainPlaces, QueuePlaces, UsePlaces
<1>2. ~at[t].any
  BY DEF CallStarts, DevInv, InProcess
<1>3. \A u \in DevTasks : at[u].pc \in OpenPlaces \cup ClosePlaces =>
            /\ u # t /\ at[u].opn # o /\ at[u].opn \in Opens
            /\ opn'[at[u].opn] = opn[at[u].opn]
  BY <1>1, OpenFree DEF CallStarts, DevInv, Handled, DevTypeOK
<1>4. \A u \in DevTasks \ {t} : (InDriver(u)' <=> InDriver(u)) /\ at'[u] = at[u]
  BY DEF CallStarts, InDriver
<1>5. at'[t].opn = o
  BY DEF CallStarts
<1>6. ASSUME NEW c \in Opens \ {o}
      PROVE  Calls(c)' = Calls(c) /\ t \notin Calls(c)
  BY <1>1, <1>4, <1>5 DEF Calls
<1>7. Calls(o)' = Calls(o) \cup {t}
  BY <1>1, <1>4, <1>5 DEF Calls
<1> QED BY <1>1, <1>2, <1>3, <1>4, <1>6, <1>7

LEMMA CallStartsProcess ==
    ASSUME DevInv, NEW t \in DevTasks, NEW o \in Opens, NEW R, CallStarts(t, o, R)
    PROVE  InProcess'
<1>1. /\ InProcess /\ Handled /\ DevTypeOK
      /\ \A u \in DevTasks \ {t} : at'[u] = at[u]
  BY DEF DevInv, CallStarts
<1>2. /\ at'[t].opn = o /\ at'[t].reqs = R /\ R # {} /\ R \subseteq Reqs
      /\ ~at'[t].any => \A r, q \in R : r = q
      /\ at'[t].any => at'[t].pc = "wait" /\ opn[o].nwaireq = 0 /\ opn'[o].nwaireq > 0
      /\ ~at'[t].any => opn'[o].nwaireq = opn[o].nwaireq
      /\ \A c \in Opens \ {o} : opn'[c] = opn[c]
      /\ opn'[o].resid = opn[o].resid /\ opn[o].resid = 1
      /\ \A r \in Reqs \ R : req'[r] = req[r]
      /\ \A r \in R : /\ req'[r].opncb = o /\ req'[r].tskid = t
  BY DEF CallStarts
<1>3. /\ ~InDriver(t) /\ InDriver(t)' /\ ~at[t].any
      /\ at'[t].pc \notin QueuePlaces /\ at'[t].pc \in UsePlaces
      /\ \A u \in DevTasks \ {t} : InDriver(u)' <=> InDriver(u)
      /\ \A u \in DevTasks : at[u].pc \in OpenPlaces \cup ClosePlaces =>
                u # t /\ at[u].opn # o /\ at[u].opn \in Opens
      /\ \A c \in Opens \ {o} : Calls(c)' = Calls(c) /\ t \notin Calls(c)
      /\ Calls(o)' = Calls(o) \cup {t}
  BY CallStartsTask
<1>4. ASSUME NEW r \in Reqs, req'[r].tskid # NoTask
      PROVE  InDriver(req[r].tskid)' /\ r \in at'[req'[r].tskid].reqs
  <2>1. CASE r \in R
    BY <1>2, <1>3, <2>1 DEF InDriver
  <2>2. CASE r \notin R
    <3>1. PICK u : u = req[r].tskid /\ u = req'[r].tskid
      BY <1>2, <2>2
    <3>2. InDriver(u) /\ r \in at[u].reqs
      <4>1. req[r].tskid # NoTask
        BY <1>4, <3>1
      <4>2. InDriver(req[r].tskid) /\ r \in at[req[r].tskid].reqs
        BY <1>1, <4>1 DEF InProcess
      <4> QED BY <3>1, <4>2 DEF InDriver
    <3>3. u \in DevTasks
      BY <1>1, <1>4, <3>1 DEF DevTypeOK, REQCB
    <3>4. u # t /\ InDriver(u)' /\ at'[u] = at[u]
      BY <1>1, <1>3, <3>2, <3>3
    <3> QED BY <3>1, <3>2, <3>4 DEF InDriver
  <2> QED BY <2>1, <2>2
<1>5. ASSUME NEW u \in DevTasks
      PROVE  /\ at'[u].pc \in UsePlaces => at'[u].opn \in Opens /\ at'[u].reqs # {}
             /\ at'[u].pc \in UsePlaces /\ ~at'[u].any => \A r, q \in at'[u].reqs : r = q
             /\ at'[u].any => at'[u].pc = "wait"
  BY <1>1, <1>2, <1>3 DEF InProcess
<1>6. \A u \in DevTasks : at[u].any => /\ at[u].opn \in Opens /\ opn[at[u].opn].nwaireq > 0
                                       /\ u \in Calls(at[u].opn)
  BY <1>1 DEF InProcess, UsePlaces, Calls, InDriver
<1>7. ASSUME NEW u \in DevTasks, at'[u].any
      PROVE  opn'[at'[u].opn].nwaireq > 0
  <2>1. CASE u = t
    BY <1>2, <1>7, <2>1
  <2>2. CASE u # t
    <3>1. at'[u] = at[u] /\ at[u].opn \in Opens /\ opn[at[u].opn].nwaireq > 0
      BY <1>1, <1>6, <1>7, <2>2
    <3>2. CASE at[u].opn = o
      BY <1>2, <3>1, <3>2
    <3>3. CASE at[u].opn # o
      BY <1>2, <3>1, <3>3
    <3> QED BY <3>2, <3>3
  <2> QED BY <2>1, <2>2
<1>8. \A u, v \in DevTasks : at'[u].any /\ at'[v].any /\ at'[u].opn = at'[v].opn => u = v
  <2>1. \A u \in DevTasks \ {t} : at'[t].any /\ at[u].any => at[u].opn # o
    BY <1>2, <1>6
  <2>2. \A u, v \in DevTasks \ {t} : at'[u].any /\ at'[v].any /\ at'[u].opn = at'[v].opn => u = v
    BY <1>1 DEF InProcess
  <2> QED BY <1>1, <1>2, <2>1, <2>2
<1>9. \A u \in DevTasks : InDriver(u)' => opn'[at'[u].opn].resid # 0
  <2> TAKE u \in DevTasks
  <2>1. CASE u = t
    BY <1>2, <2>1
  <2>2. CASE u # t
    <3>1. InDriver(u)' => at'[u] = at[u] /\ at[u].opn \in Opens /\ opn[at[u].opn].resid # 0
      BY <1>1, <1>3, <2>2 DEF InProcess, InDriver, UsePlaces
    <3> QED BY <1>2, <3>1
  <2> QED BY <2>1, <2>2
<1>10. ASSUME NEW u \in DevTasks, at'[u].pc \in QueuePlaces
       PROVE  Requests(at[u].opn)' = {}
  <2>1. u # t /\ at'[u] = at[u] /\ at[u].pc \in ClosePlaces
    BY <1>1, <1>3, <1>10 DEF ClosePlaces
  <2>2. at[u].opn # o /\ Requests(at[u].opn) = {}
    BY <1>1, <1>3, <1>10, <2>1 DEF InProcess
  <2> QED BY <1>2, <2>1, <2>2 DEF Requests
<1>11. ASSUME NEW c \in Opens, opn'[c].nwaireq > 0
       PROVE  \E u \in Calls(c)' : at'[u].any
  <2>1. CASE c = o /\ at'[t].any
    BY <1>3, <2>1
  <2>2. CASE ~(c = o /\ at'[t].any)
    <3>1. opn[c].nwaireq > 0
      BY <1>2, <1>11, <2>2
    <3>2. PICK u \in Calls(c) : at[u].any
      BY <1>1, <3>1 DEF InProcess
    <3>3. u # t /\ u \in DevTasks
      BY <1>3, <3>2 DEF Calls
    <3> QED BY <1>1, <1>3, <3>2, <3>3
  <2> QED BY <2>1, <2>2
<1> QED BY <1>4, <1>5, <1>7, <1>8, <1>9, <1>10, <1>11 DEF InProcess

LEMMA CallStartsStep ==
    ASSUME DevInv, Served, NEW t \in DevTasks, NEW o \in Opens, NEW R, CallStarts(t, o, R)
    PROVE  DevInv'
<1>1. /\ DevTypeOK /\ InTurn /\ Handled /\ InProcess /\ Aborting /\ openq \subseteq Opens
      /\ \A u \in DevTasks \ {t} : at'[u] = at[u]
      /\ UNCHANGED <<openq, syncq, disabled, told, driver, disturbed>>
      /\ uncounted' \in BOOLEAN /\ (uncounted => uncounted')
  BY DEF DevInv, DevTypeOK, CallStarts
<1>2. /\ at'[t].opn = o /\ at'[t].reqs = R /\ R \subseteq Reqs
      /\ at'[t].any => (~uncounted' => Calls(o) = {})
      /\ \A c \in Opens \ {o} : opn'[c] = opn[c]
      /\ opn'[o].resid = opn[o].resid /\ opn[o].resid = 1
      /\ opn'[o].abort_tskid = opn[o].abort_tskid /\ opn'[o].abort_cnt = opn[o].abort_cnt
      /\ \A r \in Reqs \ R : req'[r] = req[r]
      /\ \A r \in R : /\ req'[r] = [opncb |-> o, tskid |-> t]
                      /\ req[r].opncb = NoOpen \/ req[r].opncb = o
                      /\ ~uncounted' => req[r].opncb = NoOpen \/ req[r].tskid = NoTask
      /\ ~uncounted' => opn[o].nwaireq = 0
  BY DEF CallStarts
<1>3. /\ ~InDriver(t) /\ InDriver(t)' /\ ~Processing(t) /\ ~Processing(t)'
      /\ at[t].pc \notin OpenPlaces \cup ClosePlaces /\ ~at[t].any
      /\ at'[t].pc \notin OpenPlaces \cup ClosePlaces
      /\ at'[t].pc \notin AbortPlaces /\ at'[t].pc \notin DrainPlaces
      /\ at'[t].pc \notin QueuePlaces /\ at'[t].pc \in UsePlaces
      /\ \A u \in DevTasks \ {t} : InDriver(u)' <=> InDriver(u)
      /\ \A u \in DevTasks : at[u].pc \in OpenPlaces \cup ClosePlaces =>
            /\ u # t /\ at[u].opn # o /\ at[u].opn \in Opens
            /\ opn'[at[u].opn] = opn[at[u].opn]
      /\ \A c \in Opens \ {o} : Calls(c)' = Calls(c) /\ t \notin Calls(c)
      /\ Calls(o)' = Calls(o) \cup {t}
  BY CallStartsTask
<1>4. DevTypeOK'
  BY <1>1 DEF DevTypeOK, CallStarts
<1>5. InProcess'
  BY CallStartsProcess
<1>6. \A c \in Opens : opn'[c].resid = opn[c].resid
  BY <1>2
<1>7. Handled'
  BY <1>1, <1>3, <1>6, HandledKept
<1>8. InTurn'
  <2>1. InSync' = InSync /\ \A u \in InSync : u \in DevTasks \ {t}
    BY <1>1, <1>3 DEF InSync, ClosePlaces
  <2>2. \A u \in InSync : Processing(u) => Processing(u)'
    BY <1>1, <2>1 DEF Processing
  <2> QED BY <1>1, <2>1, <2>2, TurnKept
<1>9. \A u \in DevTasks : at[u].pc \in AbortPlaces \cup DrainPlaces =>
            /\ u # t /\ at[u].opn # o /\ at[u].opn \in Opens
            /\ opn'[at[u].opn] = opn[at[u].opn] /\ Calls(at[u].opn)' = Calls(at[u].opn)
  <2> TAKE u \in DevTasks
  <2> HAVE at[u].pc \in AbortPlaces \cup DrainPlaces
  <2>1. /\ u # t /\ at[u].opn # o /\ at[u].opn \in Opens
        /\ opn'[at[u].opn] = opn[at[u].opn]
    BY <1>3 DEF ClosePlaces
  <2>2. PICK c \in Opens : c = at[u].opn /\ c = at'[u].opn
    BY <1>1, <2>1
  <2>3. Calls(c)' = Calls(c)
    BY <1>3, <2>1, <2>2
  <2> QED BY <2>1, <2>2, <2>3 DEF Calls
<1>10. Aborting'
  <2>1. ASSUME NEW u \in DevTasks
        PROVE  AbortFact(u)'
    <3>1. CASE u = t
      BY <1>3, <3>1 DEF AbortFact, AbortPlaces
    <3>2. CASE u # t
      <4>1. at'[u] = at[u] /\ AbortFact(u)
        BY <1>1, <3>2 DEF Aborting
      <4>2. at[u].pc = "abortSync" => at[u].pc \in AbortPlaces
        BY DEF AbortPlaces
      <4>3. at[u].pc \in AbortPlaces =>
                opn'[at[u].opn] = opn[at[u].opn] /\ Calls(at[u].opn)' = Calls(at[u].opn)
        BY <1>9
      <4> QED BY <1>1, <4>1, <4>2, <4>3 DEF AbortFact
    <3> QED BY <3>1, <3>2
  <2>2. ASSUME NEW c \in Opens, opn'[c].abort_tskid # NoTask
        PROVE  Aborts(opn[c].abort_tskid, c)'
    <3>1. PICK u : u = opn[c].abort_tskid /\ u = opn'[c].abort_tskid
      BY <1>2
    <3>2. Aborts(u, c) /\ u \in DevTasks
      BY <1>1, <2>2, <3>1 DEF Aborting, DevTypeOK, OPNCB
    <3>3. u # t
      BY <1>3, <3>2 DEF Aborts, ClosePlaces, DrainPlaces
    <3> QED BY <1>1, <3>1, <3>2, <3>3 DEF Aborts
  <2> QED BY <2>1, <2>2 DEF Aborting
<1>11. ASSUME ~disturbed
       PROVE  OneByOne' /\ DriverKnows'
  <2>1. OneByOne /\ DriverKnows
    BY <1>11 DEF DevInv
  <2>2. t \notin disabled
    BY <1>3, <2>1 DEF OneByOne, Woken, OpenPlaces, ClosePlaces, QueuePlaces
  <2>3. at'[t].pc \notin {"opening", "closing", "abortEnd"}
    BY <1>3 DEF OpenPlaces, ClosePlaces, QueuePlaces, DrainPlaces
  <2>4. \A u \in DevTasks \ {t} : at[u].pc \in AbortPlaces \cup {"abortEnd"} =>
            opn'[at[u].opn].abort_cnt = opn[at[u].opn].abort_cnt
    BY <1>9 DEF DrainPlaces
  <2>5. OneByOne'
    BY <1>1, <1>3, <2>1, <2>2, <2>3, <2>4, OneByOneKept
  <2>6. \A c : c \in openq /\ opn[c].resid # 0 <=> c \in openq' /\ opn'[c].resid # 0
    BY <1>1, <1>6
  <2>7. DriverKnows'
    BY <1>1, <2>1, <2>3, <2>6, DriverKept
  <2> QED BY <2>5, <2>7
<1>12. ASSUME ~uncounted'
       PROVE  Counted'
  <2>1. Counted /\ opn[o].nwaireq = 0
    BY <1>1, <1>2, <1>12 DEF DevInv
  <2>2. \A u \in DevTasks : at[u].any => at[u].opn # o
    BY <1>1, <2>1 DEF InProcess
  <2>3. \A u \in DevTasks \ {t} : InDriver(u)' => InDriver(u) /\ at'[u] = at[u]
    BY <1>1, <1>3
  <2>4. \A u \in DevTasks : at'[t].any /\ InDriver(u) => at[u].opn # o
    BY <1>2, <1>12 DEF Calls
  <2>5. \A u, v \in DevTasks :
            InDriver(u)' /\ InDriver(v)' /\ at'[u].opn = at'[v].opn /\ at'[u].any => u = v
    BY <1>2, <2>1, <2>2, <2>3, <2>4 DEF Counted
  <2>6. ASSUME NEW u \in DevTasks, at'[u].pc \in AbortPlaces
        PROVE  opn'[at'[u].opn].abort_cnt = Cardinality(Calls(at[u].opn)')
    <3>1. u # t /\ at'[u] = at[u] /\ at[u].pc \in AbortPlaces
      BY <1>1, <1>3, <2>6
    <3>2. opn'[at[u].opn] = opn[at[u].opn] /\ Calls(at[u].opn)' = Calls(at[u].opn)
      BY <1>9, <3>1
    <3> QED BY <2>1, <3>1, <3>2 DEF Counted
  <2> QED BY <2>5, <2>6 DEF Counted
<1>13. ASSUME ~uncounted'
       PROVE  Drained'
  <2>1. Drained /\ NoTask \notin DevTasks /\ NoOpen \notin Opens
    BY <1>1, <1>13, DeviceIOAssumption DEF DevInv
  <2>2. ASSUME NEW u \in DevTasks, InDriver(u)'
        PROVE  /\ at'[u].opn \in openq'
               /\ \A r \in at'[u].reqs : req'[r] = [opncb |-> at'[u].opn, tskid |-> u]
    <3>1. CASE u = t
      BY <1>1, <1>2, <3>1 DEF Handled
    <3>2. CASE u # t
      <4>1. InDriver(u) /\ at'[u] = at[u] /\ at[u].reqs \subseteq Reqs
        BY <1>1, <1>3, <2>2, <3>2 DEF DevTypeOK, Context
      <4>2. at[u].opn \in openq
        BY <4>1 DEF Served
      <4>3. ASSUME NEW r \in at[u].reqs
            PROVE  req'[r] = [opncb |-> at[u].opn, tskid |-> u]
        <5>1. req[r] = [opncb |-> at[u].opn, tskid |-> u]
          BY <4>1 DEF Served
        <5>2. req[r].opncb = at[u].opn /\ req[r].tskid = u
          BY <5>1
        <5>3. r \notin R
          BY <1>1, <1>2, <1>13, <2>1, <4>2, <5>2
        <5> QED BY <1>2, <4>1, <5>1, <5>3
      <4> QED BY <1>1, <4>1, <4>2, <4>3
    <3> QED BY <3>1, <3>2
  <2>3. ASSUME NEW u \in DevTasks, at'[u].pc \in DrainPlaces
        PROVE  /\ Calls(at[u].opn)' = {}
               /\ at'[u].pc = "draining" => at'[u].reqs \subseteq Requests(at[u].opn)'
    <3>1. u # t /\ at'[u] = at[u] /\ at[u].pc \in DrainPlaces
      BY <1>1, <1>3, <2>3
    <3>2. /\ Calls(at[u].opn) = {} /\ Calls(at[u].opn)' = Calls(at[u].opn)
          /\ at[u].opn # o /\ at[u].opn \in Opens
          /\ at[u].pc = "draining" => at[u].reqs \subseteq Requests(at[u].opn)
      BY <1>9, <2>1, <3>1 DEF Drained
    <3>3. \A r \in Requests(at[u].opn) : r \notin R
      BY <1>2, <2>1, <3>2 DEF Requests
    <3> QED BY <1>2, <3>1, <3>2, <3>3 DEF Requests
  <2>4. \A u \in DevTasks : at'[u].pc = "draining" => at'[u].pc \in DrainPlaces
    BY DEF DrainPlaces
  <2>5. Served'
    BY <2>2 DEF Served
  <2> QED BY <2>3, <2>4, <2>5 DEF Drained
<1> QED BY <1>1, <1>4, <1>5, <1>7, <1>8, <1>10, <1>11, <1>12, <1>13 DEF DevInv

LEMMA RequestStartStep ==
    ASSUME DevInv, Served, NEW t \in DevTasks, NEW o \in Opens, NEW r \in Reqs,
           NEW sync \in BOOLEAN, RequestStart(t, o, r, sync)
    PROVE  DevInv'
<1> DEFINE w == [Outside EXCEPT !.pc = "exec", !.opn = o, !.reqs = {r}, !.sync = sync]
           n == IF sync THEN 1 ELSE 0
           z == [opn[o] EXCEPT !.syncreq = @ + n]
<1>1. /\ DevTypeOK /\ InProcess /\ at[t].pc = "out" /\ opn[o].resid = 1
      /\ req[r].opncb = NoOpen /\ uncounted \in BOOLEAN
      /\ uncounted' = (uncounted \/ opn[o].nwaireq > 0)
      /\ UNCHANGED <<openq, syncq, disabled, told, driver, disturbed>>
      /\ opn[o] \in OPNCB /\ req \in [Reqs -> REQCB]
  BY DEF DevInv, DevTypeOK, RequestStart, Is
<1>2. /\ opn' = [opn EXCEPT ![o] = z] /\ at' = [at EXCEPT ![t] = w]
      /\ req' = [req EXCEPT ![r] = [opncb |-> o, tskid |-> t]]
  BY DEF RequestStart
<1>3. "exec" \in Places
  BY DEF Places, UsePlaces
<1>4. Outside \in Context /\ ~Outside.any
  BY DEF Outside, Context, Places
<1>5. w \in Context /\ w.pc = "exec" /\ w.opn = o /\ w.reqs = {r} /\ ~w.any
  BY <1>3, <1>4 DEF Context
<1>6. /\ z \in OPNCB /\ z.resid = opn[o].resid /\ z.nwaireq = opn[o].nwaireq
      /\ z.abort_tskid = opn[o].abort_tskid /\ z.abort_cnt = opn[o].abort_cnt
  <2>1. n \in Int
    OBVIOUS
  <2> HIDE DEF n
  <2> QED BY <1>1, <2>1 DEF OPNCB
<1> HIDE DEF w, z
<1>7. /\ at' \in [DevTasks -> Context] /\ at'[t] = w /\ \A u \in DevTasks \ {t} : at'[u] = at[u]
  BY <1>1, <1>2, <1>5, Turns DEF Turned
<1>8. /\ opn' \in [Opens -> OPNCB] /\ opn'[o] = z /\ \A c \in Opens \ {o} : opn'[c] = opn[c]
  BY <1>1, <1>2, <1>6, OpenTurns DEF OpenTurned
<1>9. [opncb |-> o, tskid |-> t] \in REQCB
  BY DEF REQCB
<1>10. /\ req' \in [Reqs -> REQCB] /\ req'[r] = [opncb |-> o, tskid |-> t]
       /\ \A q \in Reqs \ {r} : req'[q] = req[q]
  BY <1>1, <1>2, <1>9
<1>11. ~uncounted' => opn[o].nwaireq = 0
  <2>1. opn[o].nwaireq \in Nat
    BY <1>1 DEF OPNCB
  <2>2. ~(opn[o].nwaireq > 0) => opn[o].nwaireq = 0
    BY <2>1
  <2> QED BY <1>1, <2>2
<1>12. CallStarts(t, o, {r})
  BY <1>1, <1>5, <1>6, <1>7, <1>8, <1>10, <1>11 DEF CallStarts
<1> QED BY <1>12, CallStartsStep

LEMMA WaitOneStep ==
    ASSUME DevInv, Served, NEW t \in DevTasks, NEW o \in Opens, NEW r \in Reqs,
           WaitOne(t, o, r)
    PROVE  DevInv'
<1> DEFINE w == [Outside EXCEPT !.pc = "wait", !.opn = o, !.reqs = {r}]
           z == [opn[o] EXCEPT !.waitone = @ + 1]
           q == [req[r] EXCEPT !.tskid = t]
<1>1. /\ DevTypeOK /\ InProcess /\ opn[o].resid = 1 /\ opn[o].nwaireq = 0
      /\ req[r].opncb = o /\ req[r].tskid = NoTask
      /\ UNCHANGED <<openq, syncq, disabled, told, driver, disturbed, uncounted>>
      /\ uncounted \in BOOLEAN
      /\ opn[o] \in OPNCB /\ req \in [Reqs -> REQCB] /\ req[r] \in REQCB
  BY DEF DevInv, DevTypeOK, WaitOne, MayWait, history
<1>2. /\ opn' = [opn EXCEPT ![o] = z] /\ req' = [req EXCEPT ![r] = q]
      /\ \/ at[t].pc = "out" /\ at' = [at EXCEPT ![t] = w]
         \/ at[t].pc = "executed" /\ at[t].opn = o /\ r \in at[t].reqs /\ Goes(t, "wait")
  BY DEF WaitOne, Is
<1>3. "wait" \in Places
  BY DEF Places, UsePlaces
<1>4. Outside \in Context /\ ~Outside.any
  BY DEF Outside, Context, Places
<1>5. w \in Context /\ w.pc = "wait" /\ w.opn = o /\ w.reqs = {r} /\ ~w.any
  BY <1>3, <1>4 DEF Context
<1>6. /\ z \in OPNCB /\ z.resid = opn[o].resid /\ z.nwaireq = opn[o].nwaireq
      /\ z.abort_tskid = opn[o].abort_tskid /\ z.abort_cnt = opn[o].abort_cnt
  BY <1>1 DEF OPNCB
<1>7. q \in REQCB /\ q = [opncb |-> o, tskid |-> t]
  BY <1>1 DEF REQCB
<1> HIDE DEF w, z, q
<1>8. /\ at' \in [DevTasks -> Context] /\ \A u \in DevTasks \ {t} : at'[u] = at[u]
      /\ at'[t].pc = "wait" /\ at'[t].opn = o /\ at'[t].reqs = {r} /\ ~at'[t].any
      /\ at[t].pc \in {"out", "executed"}
  <2>1. CASE at[t].pc = "out" /\ at' = [at EXCEPT ![t] = w]
    BY <1>1, <1>5, <2>1, Turns DEF Turned
  <2>2. CASE at[t].pc = "executed" /\ at[t].opn = o /\ r \in at[t].reqs /\ Goes(t, "wait")
    <3>1. /\ at' \in [DevTasks -> Context] /\ \A u \in DevTasks \ {t} : at'[u] = at[u]
          /\ at'[t].pc = "wait" /\ at'[t].opn = at[t].opn
          /\ at'[t].reqs = at[t].reqs /\ at'[t].any = at[t].any
      BY <1>1, <1>3, <2>2, Going DEF Turned
    <3>2. ~at[t].any /\ \A x, y \in at[t].reqs : x = y
      BY <1>1, <2>2 DEF InProcess, UsePlaces
    <3>3. at[t].reqs = {r}
      BY <2>2, <3>2
    <3> QED BY <2>2, <3>1, <3>2, <3>3
  <2> QED BY <1>2, <2>1, <2>2
<1>9. /\ opn' \in [Opens -> OPNCB] /\ opn'[o] = z /\ \A c \in Opens \ {o} : opn'[c] = opn[c]
  BY <1>1, <1>2, <1>6, OpenTurns DEF OpenTurned
<1>10. /\ req' \in [Reqs -> REQCB] /\ req'[r] = [opncb |-> o, tskid |-> t]
       /\ \A x \in Reqs \ {r} : req'[x] = req[x]
  BY <1>1, <1>2, <1>7
<1>11. CallStarts(t, o, {r})
  BY <1>1, <1>6, <1>8, <1>9, <1>10 DEF CallStarts
<1> QED BY <1>11, CallStartsStep

LEMMA WaitAnyStep ==
    ASSUME DevInv, Served, NEW t \in DevTasks, NEW o \in Opens, WaitAny(t, o)
    PROVE  DevInv'
<1> DEFINE R == Requests(o)
           n == Cardinality(R)
           w == [Outside EXCEPT !.pc = "wait", !.opn = o, !.reqs = R, !.any = TRUE]
           z == [opn[o] EXCEPT !.nwaireq = n]
<1>1. /\ DevTypeOK /\ InProcess /\ opn[o].resid = 1 /\ opn[o].nwaireq = 0
      /\ at[t].pc = "out" /\ R # {}
      /\ uncounted \in BOOLEAN /\ uncounted' = (uncounted \/ \E r \in R : req[r].tskid # NoTask)
      /\ UNCHANGED <<openq, syncq, disabled, told, driver, disturbed>>
      /\ opn[o] \in OPNCB /\ req \in [Reqs -> REQCB]
  BY DEF DevInv, DevTypeOK, WaitAny, Is
<1>2. /\ opn' = [opn EXCEPT ![o] = z] /\ at' = [at EXCEPT ![t] = w]
      /\ req' = [r \in Reqs |-> IF r \in R THEN [req[r] EXCEPT !.tskid = t] ELSE req[r]]
  BY DEF WaitAny
<1>3. "wait" \in Places /\ R \subseteq Reqs /\ \A r \in R : req[r].opncb = o
  BY DEF Places, UsePlaces, Requests
<1>4. n \in Nat /\ n > 0
  <2>1. IsFiniteSet(R)
    BY <1>3, DeviceIOAssumption, FS_Subset
  <2> QED BY <1>1, <2>1, FS_CardinalityType, FS_EmptySet
<1> HIDE DEF R, n
<1>5. Outside \in Context /\ ~Outside.any
  BY DEF Outside, Context, Places
<1>6. w \in Context /\ w.pc = "wait" /\ w.opn = o /\ w.reqs = R /\ w.any
  BY <1>3, <1>5 DEF Context
<1>7. /\ z \in OPNCB /\ z.resid = opn[o].resid /\ z.nwaireq = n
      /\ z.abort_tskid = opn[o].abort_tskid /\ z.abort_cnt = opn[o].abort_cnt
  BY <1>1, <1>4 DEF OPNCB
<1> HIDE DEF w, z
<1>8. /\ at' \in [DevTasks -> Context] /\ at'[t] = w /\ \A u \in DevTasks \ {t} : at'[u] = at[u]
  BY <1>1, <1>2, <1>6, Turns DEF Turned
<1>9. /\ opn' \in [Opens -> OPNCB] /\ opn'[o] = z /\ \A c \in Opens \ {o} : opn'[c] = opn[c]
  BY <1>1, <1>2, <1>7, OpenTurns DEF OpenTurned
<1>10. \A r \in R : /\ [req[r] EXCEPT !.tskid = t] = [opncb |-> o, tskid |-> t]
                    /\ [opncb |-> o, tskid |-> t] \in REQCB
  BY <1>1, <1>3 DEF REQCB
<1>11. /\ req' \in [Reqs -> REQCB] /\ \A r \in R : req'[r] = [opncb |-> o, tskid |-> t]
       /\ \A r \in Reqs \ R : req'[r] = req[r]
  BY <1>1, <1>2, <1>3, <1>10
<1>12. ASSUME ~uncounted'
       PROVE  Calls(o) = {}
  <2> SUFFICES ASSUME NEW u \in Calls(o)
               PROVE  FALSE
    OBVIOUS
  <2>1. u \in DevTasks /\ InDriver(u) /\ at[u].opn = o /\ at[u].pc \in UsePlaces
    BY DEF Calls, InDriver, UsePlaces
  <2>2. PICK r \in at[u].reqs : TRUE
    BY <1>1, <2>1 DEF InProcess
  <2>3. r \in Reqs
    BY <1>1, <2>1, <2>2 DEF DevTypeOK, Context
  <2>4. req[r] = [opncb |-> at[u].opn, tskid |-> u]
    BY <2>1, <2>2 DEF Served
  <2>5. r \in R /\ req[r].tskid = u
    BY <2>1, <2>3, <2>4 DEF R, Requests
  <2> QED BY <1>1, <1>12, <2>1, <2>5, DeviceIOAssumption
<1>13. CallStarts(t, o, R)
  BY <1>1, <1>3, <1>4, <1>6, <1>7, <1>8, <1>9, <1>11, <1>12 DEF CallStarts
<1> QED BY <1>13, CallStartsStep

(* A call of the driver returns to t, and a close that counts it is told. *)
CallReturns(t, o) ==
    /\ InDriver(t) /\ at[t].opn = o
    /\ at' \in [DevTasks -> Context] /\ \A u \in DevTasks \ {t} : at'[u] = at[u]
    /\ at'[t].pc \in {"out", "executed"} /\ ~at'[t].any
    /\ at'[t].pc = "executed" =>
            at[t].pc = "exec" /\ at'[t].opn = o /\ at'[t].reqs = at[t].reqs
    /\ opn' \in [Opens -> OPNCB] /\ \A c \in Opens \ {o} : opn'[c] = opn[c]
    /\ opn'[o].resid = opn[o].resid /\ opn'[o].abort_tskid = opn[o].abort_tskid
    /\ at[t].any => opn'[o].nwaireq = 0
    /\ ~at[t].any => opn'[o].nwaireq = opn[o].nwaireq
    /\ opn[o].abort_tskid # NoTask => opn'[o].abort_cnt = opn[o].abort_cnt - 1
    /\ opn[o].abort_tskid = NoTask => opn'[o].abort_cnt = opn[o].abort_cnt
    /\ req' \in [Reqs -> REQCB] /\ \A r \in Reqs \ at[t].reqs : req'[r] = req[r]
    /\ \A r \in at[t].reqs : /\ req'[r].tskid = NoTask
                             /\ req'[r].opncb = req[r].opncb \/ req'[r].opncb = NoOpen
    /\ Notifies(o) /\ told' = told \ {t}
    /\ UNCHANGED <<openq, syncq, driver, disturbed, uncounted>>

LEMMA CallReturnsTask ==
    ASSUME DevInv, NEW t \in DevTasks, NEW o \in Opens, CallReturns(t, o)
    PROVE  /\ ~InDriver(t)' /\ InDriver(t) /\ ~Processing(t) /\ ~Processing(t)'
           /\ at[t].pc \notin OpenPlaces \cup ClosePlaces
           /\ at'[t].pc \notin OpenPlaces \cup ClosePlaces
           /\ at'[t].pc \notin AbortPlaces /\ at'[t].pc \notin DrainPlaces
           /\ at'[t].pc \notin QueuePlaces
           /\ \A u \in DevTasks \ {t} : InDriver(u)' <=> InDriver(u)
           /\ \A u \in DevTasks : at[u].pc \in OpenPlaces \cup ClosePlaces =>
                u # t /\ at[u].opn \in Opens
           /\ \A c \in Opens \ {o} : Calls(c)' = Calls(c) /\ t \notin Calls(c)
           /\ Calls(o)' = Calls(o) \ {t} /\ t \in Calls(o)
<1>1. /\ ~InDriver(t)' /\ InDriver(t) /\ ~Processing(t) /\ ~Processing(t)'
      /\ at[t].pc \notin OpenPlaces \cup ClosePlaces
      /\ at'[t].pc \notin OpenPlaces \cup ClosePlaces
      /\ at'[t].pc \notin AbortPlaces /\ at'[t].pc \notin DrainPlaces
      /\ at'[t].pc \notin QueuePlaces
  BY DEF CallReturns, InDriver, Processing, OpenPlaces, ClosePlaces, AbortPlaces,
    DrainPlaces, QueuePlaces
<1>2. \A u \in DevTasks : at[u].pc \in OpenPlaces \cup ClosePlaces =>
            u # t /\ at[u].opn \in Opens
  BY <1>1 DEF DevInv, Handled, DevTypeOK
<1>3. \A u \in DevTasks \ {t} : (InDriver(u)' <=> InDriver(u)) /\ at'[u] = at[u]
  BY DEF CallReturns, InDriver
<1>4. at[t].opn = o
  BY DEF CallReturns
<1>5. ASSUME NEW c \in Opens \ {o}
      PROVE  Calls(c)' = Calls(c) /\ t \notin Calls(c)
  BY <1>1, <1>3, <1>4 DEF Calls
<1>6. Calls(o)' = Calls(o) \ {t} /\ t \in Calls(o)
  BY <1>1, <1>3, <1>4 DEF Calls
<1> QED BY <1>1, <1>2, <1>3, <1>5, <1>6

LEMMA CallReturnsProcess ==
    ASSUME DevInv, NEW t \in DevTasks, NEW o \in Opens, CallReturns(t, o)
    PROVE  InProcess'
<1>1. /\ InProcess /\ DevTypeOK /\ NoOpen \notin Opens
      /\ \A u \in DevTasks \ {t} : at'[u] = at[u]
  BY DeviceIOAssumption DEF DevInv, CallReturns
<1>2. /\ at[t].opn = o /\ ~at'[t].any /\ at'[t].pc \in {"out", "executed"}
      /\ at'[t].pc = "executed" =>
            at[t].pc = "exec" /\ at'[t].opn = o /\ at'[t].reqs = at[t].reqs
      /\ \A c \in Opens \ {o} : opn'[c] = opn[c]
      /\ opn'[o].resid = opn[o].resid
      /\ at[t].any => opn'[o].nwaireq = 0
      /\ ~at[t].any => opn'[o].nwaireq = opn[o].nwaireq
      /\ \A r \in Reqs \ at[t].reqs : req'[r] = req[r]
      /\ \A r \in at[t].reqs : /\ req'[r].tskid = NoTask
                               /\ req'[r].opncb = req[r].opncb \/ req'[r].opncb = NoOpen
  BY DEF CallReturns
<1>3. /\ ~InDriver(t)' /\ InDriver(t) /\ at'[t].pc \notin QueuePlaces
      /\ \A u \in DevTasks \ {t} : InDriver(u)' <=> InDriver(u)
      /\ \A u \in DevTasks : at[u].pc \in OpenPlaces \cup ClosePlaces =>
                u # t /\ at[u].opn \in Opens
      /\ \A c \in Opens \ {o} : Calls(c)' = Calls(c) /\ t \notin Calls(c)
      /\ Calls(o)' = Calls(o) \ {t} /\ t \in Calls(o)
  BY CallReturnsTask
<1>4. ASSUME NEW r \in Reqs, req'[r].tskid # NoTask
      PROVE  InDriver(req[r].tskid)' /\ r \in at'[req'[r].tskid].reqs
  <2>1. r \notin at[t].reqs /\ req'[r] = req[r]
    BY <1>2, <1>4
  <2>2. InDriver(req[r].tskid) /\ r \in at[req[r].tskid].reqs
    BY <1>1, <1>4, <2>1 DEF InProcess
  <2>3. req[r].tskid \in DevTasks \ {t}
    BY <1>1, <1>4, <2>1, <2>2 DEF DevTypeOK, REQCB
  <2> QED BY <1>1, <2>1, <2>2, <2>3 DEF InDriver
<1>5. at[t].pc = "exec" => ~at[t].any /\ at[t].pc \in UsePlaces
  BY <1>1 DEF InProcess, UsePlaces
<1>6. ASSUME NEW u \in DevTasks
      PROVE  /\ at'[u].pc \in UsePlaces => at'[u].opn \in Opens /\ at'[u].reqs # {}
             /\ at'[u].pc \in UsePlaces /\ ~at'[u].any => \A r, q \in at'[u].reqs : r = q
             /\ at'[u].any => at'[u].pc = "wait"
  <2>1. CASE u = t
    <3>1. at'[t].pc \in UsePlaces => at'[t].pc = "executed"
      BY <1>2 DEF UsePlaces
    <3> QED BY <1>1, <1>2, <1>5, <2>1, <3>1 DEF InProcess
  <2>2. CASE u # t
    BY <1>1, <2>2 DEF InProcess
  <2> QED BY <2>1, <2>2
<1>7. \A u \in DevTasks : at[u].any => /\ at[u].opn \in Opens /\ opn[at[u].opn].nwaireq > 0
                                       /\ u \in Calls(at[u].opn)
  BY <1>1 DEF InProcess, UsePlaces, Calls, InDriver
<1>8. ASSUME NEW u \in DevTasks, at'[u].any
      PROVE  opn'[at'[u].opn].nwaireq > 0
  <2>1. u # t /\ at'[u] = at[u] /\ at[u].opn \in Opens /\ opn[at[u].opn].nwaireq > 0
    BY <1>1, <1>2, <1>7, <1>8
  <2>2. CASE at[u].opn = o
    <3>1. ~at[t].any
      BY <1>1, <1>2, <1>8, <2>1, <2>2 DEF InProcess
    <3> QED BY <1>2, <2>1, <2>2, <3>1
  <2>3. CASE at[u].opn # o
    BY <1>2, <2>1, <2>3
  <2> QED BY <2>2, <2>3
<1>9. \A u, v \in DevTasks : at'[u].any /\ at'[v].any /\ at'[u].opn = at'[v].opn => u = v
  <2>1. \A u, v \in DevTasks \ {t} : at'[u].any /\ at'[v].any /\ at'[u].opn = at'[v].opn => u = v
    BY <1>1 DEF InProcess
  <2> QED BY <1>2, <2>1
<1>10. \A u \in DevTasks : InDriver(u)' => opn'[at'[u].opn].resid # 0
  <2> TAKE u \in DevTasks
  <2>1. InDriver(u)' => /\ u # t /\ at'[u] = at[u] /\ at[u].opn \in Opens
                        /\ opn[at[u].opn].resid # 0
    BY <1>1, <1>3 DEF InProcess, InDriver, UsePlaces
  <2> QED BY <1>2, <2>1
<1>11. ASSUME NEW u \in DevTasks, at'[u].pc \in QueuePlaces
       PROVE  Requests(at[u].opn)' = {}
  <2>1. u # t /\ at'[u] = at[u] /\ at[u].pc \in ClosePlaces
    BY <1>1, <1>3, <1>11 DEF ClosePlaces
  <2>2. Requests(at[u].opn) = {} /\ at[u].opn \in Opens
    BY <1>1, <1>3, <1>11, <2>1 DEF InProcess
  <2> QED BY <1>1, <1>2, <2>1, <2>2 DEF Requests
<1>12. ASSUME NEW c \in Opens, opn'[c].nwaireq > 0
       PROVE  \E u \in Calls(c)' : at'[u].any
  <2>1. opn[c].nwaireq > 0 /\ (c = o => ~at[t].any)
    BY <1>2, <1>12
  <2>2. PICK u \in Calls(c) : at[u].any
    BY <1>1, <2>1 DEF InProcess
  <2>3. u # t /\ u \in DevTasks
    BY <1>3, <2>1, <2>2 DEF Calls
  <2>4. u \in Calls(c)'
    BY <1>3, <2>2, <2>3
  <2> QED BY <1>1, <2>2, <2>3, <2>4
<1> QED BY <1>4, <1>6, <1>8, <1>9, <1>10, <1>11, <1>12 DEF InProcess

LEMMA CallReturnsStep ==
    ASSUME DevInv, Served, NEW t \in DevTasks, NEW o \in Opens, CallReturns(t, o)
    PROVE  DevInv'
<1>1. /\ DevTypeOK /\ InTurn /\ Handled /\ InProcess /\ Aborting /\ openq \subseteq Opens
      /\ disabled \subseteq DevTasks
      /\ \A u \in DevTasks \ {t} : at'[u] = at[u]
      /\ UNCHANGED <<openq, syncq, driver, disturbed, uncounted>>
  BY DEF DevInv, DevTypeOK, CallReturns
<1>2. /\ at[t].opn = o /\ ~at'[t].any /\ at'[t].pc \in {"out", "executed"}
      /\ \A c \in Opens \ {o} : opn'[c] = opn[c]
      /\ opn'[o].resid = opn[o].resid /\ opn'[o].abort_tskid = opn[o].abort_tskid
      /\ opn[o].abort_tskid # NoTask => opn'[o].abort_cnt = opn[o].abort_cnt - 1
      /\ opn[o].abort_tskid = NoTask => opn'[o].abort_cnt = opn[o].abort_cnt
      /\ \A r \in Reqs \ at[t].reqs : req'[r] = req[r]
      /\ told' = told \ {t}
  BY DEF CallReturns
<1>3. /\ ~InDriver(t)' /\ InDriver(t) /\ ~Processing(t) /\ ~Processing(t)'
      /\ at[t].pc \notin OpenPlaces \cup ClosePlaces
      /\ at'[t].pc \notin OpenPlaces \cup ClosePlaces
      /\ at'[t].pc \notin AbortPlaces /\ at'[t].pc \notin DrainPlaces
      /\ at'[t].pc \notin QueuePlaces
      /\ \A u \in DevTasks \ {t} : InDriver(u)' <=> InDriver(u)
      /\ \A u \in DevTasks : at[u].pc \in OpenPlaces \cup ClosePlaces =>
            u # t /\ at[u].opn \in Opens
      /\ \A c \in Opens \ {o} : Calls(c)' = Calls(c) /\ t \notin Calls(c)
      /\ Calls(o)' = Calls(o) \ {t} /\ t \in Calls(o)
  BY CallReturnsTask
<1>4. /\ disabled \subseteq disabled' /\ disabled' \subseteq DevTasks
      /\ \A u \in disabled' : u \in disabled
                    \/ (u \in DevTasks /\ u = opn[o].abort_tskid /\ opn[o].abort_cnt = 1)
      /\ opn[o].abort_tskid \in DevTasks /\ opn[o].abort_cnt = 1
                => opn[o].abort_tskid \in disabled'
  BY <1>1 DEF CallReturns, Notifies, LastAbort
<1>5. DevTypeOK'
  <2>1. at' \in [DevTasks -> Context] /\ opn' \in [Opens -> OPNCB] /\ req' \in [Reqs -> REQCB]
    BY DEF CallReturns
  <2> QED BY <1>1, <1>2, <1>4, <2>1 DEF DevTypeOK
<1>6. InProcess'
  BY CallReturnsProcess
<1>7. \A c \in Opens : opn'[c].resid = opn[c].resid
  BY <1>2
<1>8. Handled'
  BY <1>1, <1>3, <1>7, HandledKept
<1>9. InTurn'
  <2>1. InSync' = InSync /\ \A u \in InSync : u \in DevTasks \ {t}
    BY <1>1, <1>3 DEF InSync, ClosePlaces
  <2>2. \A u \in InSync : Processing(u) => Processing(u)'
    BY <1>1, <2>1 DEF Processing
  <2> QED BY <1>1, <1>4, <2>1, <2>2, TurnKept
<1>10. /\ opn[o].abort_cnt \in Int /\ Cardinality(Calls(o)) \in Nat
       /\ Cardinality(Calls(o) \ {t}) = Cardinality(Calls(o)) - 1
  <2>1. IsFiniteSet(Calls(o))
    BY DeviceIOAssumption, FS_Subset DEF Calls
  <2> QED BY <1>1, <1>3, <2>1, FS_CardinalityType, FS_RemoveElement DEF DevTypeOK, OPNCB
<1>11. \A u \in DevTasks : at[u].pc \in AbortPlaces \cup DrainPlaces =>
            u # t /\ at[u].opn \in Opens
  BY <1>3 DEF ClosePlaces
<1>12. ASSUME NEW u \in DevTasks, at[u].pc \in AbortPlaces, AbortFact(u)
       PROVE  /\ AbortFact(u)'
              /\ opn[at[u].opn].abort_cnt = Cardinality(Calls(at[u].opn))
                    => opn'[at'[u].opn].abort_cnt = Cardinality(Calls(at[u].opn)')
  <2>1. at'[u] = at[u] /\ at[u].opn \in Opens /\ u # t
    BY <1>1, <1>11, <1>12
  <2>2. PICK c \in Opens : c = at[u].opn /\ c = at'[u].opn
    BY <2>1
  <2>3. /\ opn[c].abort_tskid = u
        /\ opn[c].abort_cnt <= Cardinality(Calls(c) \cap told)
        /\ at[u].pc = "abortSync" => opn[c].abort_cnt > 0 \/ u \in disabled
    BY <1>12, <2>2 DEF AbortFact
  <2>4. CASE c # o
    <3>1. opn'[c] = opn[c] /\ Calls(c)' = Calls(c) /\ t \notin Calls(c)
      BY <1>2, <1>3, <2>4
    <3>2. Calls(c)' \cap told' = Calls(c) \cap told /\ (u \in disabled => u \in disabled')
      BY <1>2, <1>4, <3>1
    <3>3. Calls(at[u].opn)' = Calls(c)'
      BY <2>2 DEF Calls
    <3> QED BY <2>1, <2>2, <2>3, <3>1, <3>2, <3>3 DEF AbortFact
  <2>5. CASE c = o
    <3>1. /\ opn'[c].abort_tskid = u /\ opn'[c].abort_cnt = opn[c].abort_cnt - 1
          /\ Calls(c)' = Calls(c) \ {t} /\ Cardinality(Calls(c)') = Cardinality(Calls(c)) - 1
          /\ opn[c].abort_cnt \in Int
      BY <1>2, <1>3, <1>10, <2>3, <2>5, DeviceIOAssumption
    <3>2. Calls(c)' \cap told' = (Calls(c) \cap told) \ {t}
      BY <1>2, <3>1
    <3>3. opn'[c].abort_cnt <= Cardinality(Calls(c)' \cap told')
      <4>1. IsFiniteSet(Calls(c) \cap told)
        BY DeviceIOAssumption, FS_Subset DEF Calls
      <4>2. Cardinality(Calls(c) \cap told) \in Nat
        BY <4>1, FS_CardinalityType
      <4>3. Cardinality((Calls(c) \cap told) \ {t}) =
                IF t \in Calls(c) \cap told THEN Cardinality(Calls(c) \cap told) - 1
                ELSE Cardinality(Calls(c) \cap told)
        BY <4>1, FS_RemoveElement
      <4>4. opn[c].abort_cnt \in Int /\ opn[c].abort_cnt <= Cardinality(Calls(c) \cap told)
        BY <2>3, <3>1
      <4>5. opn[c].abort_cnt - 1 <= Cardinality((Calls(c) \cap told) \ {t})
        <5> DEFINE n == Cardinality(Calls(c) \cap told)
                   d == Cardinality((Calls(c) \cap told) \ {t})
        <5>1. n \in Nat /\ (d = n \/ d = n - 1) /\ opn[c].abort_cnt <= n
          BY <4>2, <4>3, <4>4
        <5> HIDE DEF n, d
        <5>2. opn[c].abort_cnt - 1 <= d
          BY <4>4, <5>1
        <5> QED BY <5>2 DEF d
      <4> QED BY <3>1, <3>2, <4>5
    <3>4. at[u].pc = "abortSync" => opn'[c].abort_cnt > 0 \/ u \in disabled'
      <4>1. CASE opn[c].abort_cnt = 1
        BY <1>4, <2>3, <2>5, <4>1
      <4>2. CASE opn[c].abort_cnt # 1
        BY <1>4, <2>3, <3>1, <4>2
      <4> QED BY <4>1, <4>2
    <3>5. Calls(at[u].opn)' = Calls(c)'
      BY <2>2 DEF Calls
    <3> QED BY <2>1, <2>2, <3>1, <3>2, <3>3, <3>4, <3>5 DEF AbortFact
  <2> QED BY <2>4, <2>5
<1>13. Aborting'
  <2>1. ASSUME NEW u \in DevTasks
        PROVE  AbortFact(u)'
    <3>1. CASE at[u].pc \in AbortPlaces
      BY <1>1, <1>12, <3>1 DEF Aborting
    <3>2. CASE at[u].pc \notin AbortPlaces
      <4>1. at'[u].pc \notin AbortPlaces /\ at'[u].pc # "abortSync"
        BY <1>1, <1>3, <3>2 DEF AbortPlaces
      <4> QED BY <4>1 DEF AbortFact
    <3> QED BY <3>1, <3>2
  <2>2. ASSUME NEW c \in Opens, opn'[c].abort_tskid # NoTask
        PROVE  Aborts(opn[c].abort_tskid, c)'
    <3>1. PICK u : u = opn[c].abort_tskid /\ u = opn'[c].abort_tskid
      BY <1>2
    <3>2. Aborts(u, c) /\ u \in DevTasks
      BY <1>1, <2>2, <3>1 DEF Aborting, DevTypeOK, OPNCB
    <3>3. u # t
      BY <1>3, <3>2 DEF Aborts, ClosePlaces, DrainPlaces
    <3> QED BY <1>1, <3>1, <3>2, <3>3 DEF Aborts
  <2> QED BY <2>1, <2>2 DEF Aborting
<1>14. ASSUME ~disturbed
       PROVE  OneByOne' /\ DriverKnows'
  <2>1. OneByOne /\ DriverKnows
    BY <1>14 DEF DevInv
  <2>2. t \notin disabled
    BY <1>3, <2>1 DEF OneByOne, Woken, OpenPlaces, ClosePlaces, QueuePlaces
  <2>3. at'[t].pc \notin {"opening", "closing", "abortEnd"}
    BY <1>2
  <2>4. \A u \in DevTasks \ {t} :
            /\ at[u].pc \in AbortPlaces \cup {"abortEnd"}
            /\ opn[at[u].opn].abort_cnt <= 0
            => opn'[at[u].opn].abort_cnt <= 0
    <3>1. opn[o].abort_cnt <= 0 => opn'[o].abort_cnt <= 0
      BY <1>2, <1>10
    <3> QED BY <1>2, <1>11, <3>1 DEF DrainPlaces
  <2>5. ASSUME NEW u \in DevTasks, u = opn[o].abort_tskid, opn[o].abort_cnt = 1
        PROVE  Woken(u)'
    <3>1. Aborts(u, o) /\ u # NoTask
      BY <1>1, <2>5, DeviceIOAssumption DEF Aborting
    <3>2. at[u].opn = o /\ at[u].pc \in AbortPlaces
      BY <2>1, <2>5, <3>1 DEF Aborts, OneByOne
    <3>3. at'[u] = at[u]
      BY <1>1, <1>11, <3>2
    <3>4. opn'[o].abort_cnt <= 0
      BY <1>2, <2>5, <3>1
    <3> QED BY <3>2, <3>3, <3>4 DEF Woken
  <2>6. \A u \in disabled' : u \in disabled \ {t} \/ Woken(u)'
    BY <1>4, <2>2, <2>5
  <2>7. OneByOne'
    BY <1>1, <1>3, <2>1, <2>3, <2>4, <2>6, OneByOneKept
  <2>8. \A c : c \in openq /\ opn[c].resid # 0 <=> c \in openq' /\ opn'[c].resid # 0
    BY <1>1, <1>7
  <2>9. DriverKnows'
    BY <1>1, <2>1, <2>3, <2>8, DriverKept
  <2> QED BY <2>7, <2>9
<1>15. ASSUME ~uncounted
       PROVE  Counted'
  <2>1. Counted
    BY <1>15 DEF DevInv
  <2>2. \A u \in DevTasks : InDriver(u)' => InDriver(u) /\ at'[u] = at[u]
    BY <1>1, <1>3
  <2>3. \A u, v \in DevTasks :
            InDriver(u)' /\ InDriver(v)' /\ at'[u].opn = at'[v].opn /\ at'[u].any => u = v
    BY <2>1, <2>2 DEF Counted
  <2>4. ASSUME NEW u \in DevTasks, at'[u].pc \in AbortPlaces
        PROVE  opn'[at'[u].opn].abort_cnt = Cardinality(Calls(at[u].opn)')
    <3>1. at'[u] = at[u] /\ at[u].pc \in AbortPlaces /\ AbortFact(u)
      BY <1>1, <1>3, <2>4 DEF Aborting
    <3>2. opn[at[u].opn].abort_cnt = Cardinality(Calls(at[u].opn))
      BY <2>1, <3>1 DEF Counted
    <3> QED BY <1>12, <3>1, <3>2
  <2> QED BY <2>3, <2>4 DEF Counted
<1>16. ASSUME ~disturbed, ~uncounted
       PROVE  Drained'
  <2>1. Drained /\ NoTask \notin DevTasks
    BY <1>16, DeviceIOAssumption DEF DevInv
  <2>2. ASSUME NEW u \in DevTasks, InDriver(u)'
        PROVE  /\ at'[u].opn \in openq'
               /\ \A r \in at'[u].reqs : req'[r] = [opncb |-> at'[u].opn, tskid |-> u]
    <3>1. u # t /\ InDriver(u) /\ at'[u] = at[u] /\ at[u].reqs \subseteq Reqs
      BY <1>1, <1>3, <2>2 DEF DevTypeOK, Context
    <3>2. at[u].opn \in openq
      BY <3>1 DEF Served
    <3>3. ASSUME NEW r \in at[u].reqs
          PROVE  req'[r] = [opncb |-> at[u].opn, tskid |-> u]
      <4>1. req[r] = [opncb |-> at[u].opn, tskid |-> u]
        BY <3>1 DEF Served
      <4>2. r \in at[t].reqs => req[r] = [opncb |-> at[t].opn, tskid |-> t]
        BY <1>3 DEF Served
      <4>3. r \notin at[t].reqs
        BY <3>1, <4>1, <4>2
      <4> QED BY <1>2, <3>1, <4>1, <4>3
    <3> QED BY <1>1, <3>1, <3>2, <3>3
  <2>3. ASSUME NEW u \in DevTasks, at'[u].pc \in DrainPlaces
        PROVE  /\ Calls(at[u].opn)' = {}
               /\ at'[u].pc = "draining" => at'[u].reqs \subseteq Requests(at[u].opn)'
    <3>1. u # t /\ at'[u] = at[u] /\ at[u].pc \in DrainPlaces /\ at[u].opn \in Opens
      BY <1>1, <1>3, <1>11, <2>3
    <3>2. PICK c \in Opens : c = at[u].opn /\ c = at'[u].opn
      BY <3>1
    <3>3. Calls(c) = {} /\ (at[u].pc = "draining" => at[u].reqs \subseteq Requests(c))
      BY <2>1, <3>1, <3>2 DEF Drained
    <3>4. c # o /\ Calls(c)' = {}
      BY <1>3, <3>3
    <3>5. \A r \in Requests(c) : r \notin at[t].reqs
      <4> TAKE r \in Requests(c)
      <4>1. r \in at[t].reqs => req[r] = [opncb |-> at[t].opn, tskid |-> t]
        BY <1>3 DEF Served
      <4>2. req[r].opncb = c
        BY DEF Requests
      <4> QED BY <1>2, <3>4, <4>1, <4>2
    <3>6. Requests(c) \subseteq Requests(c)'
      BY <1>2, <3>5 DEF Requests
    <3>7. Calls(at[u].opn)' = Calls(c)' /\ Requests(at[u].opn)' = Requests(c)'
      BY <3>2 DEF Calls, Requests
    <3> QED BY <3>1, <3>3, <3>4, <3>6, <3>7
  <2>4. \A u \in DevTasks : at'[u].pc = "draining" => at'[u].pc \in DrainPlaces
    BY DEF DrainPlaces
  <2>5. Served'
    BY <2>2 DEF Served
  <2> QED BY <2>3, <2>4, <2>5 DEF Drained
<1> QED BY <1>1, <1>5, <1>6, <1>8, <1>9, <1>13, <1>14, <1>15, <1>16 DEF DevInv

LEMMA NotifiedOpen ==
    ASSUME DevTypeOK, NEW o \in Opens, NEW s \in {0, 1}, NEW n \in {0, 1},
           NEW a \in BOOLEAN, NEW z, z = Notified(o, [sync |-> s, one |-> n, any |-> a])
    PROVE  /\ z \in OPNCB /\ z.resid = opn[o].resid /\ z.abort_tskid = opn[o].abort_tskid
           /\ z.nwaireq = IF a THEN 0 ELSE opn[o].nwaireq
           /\ opn[o].abort_tskid # NoTask => z.abort_cnt = opn[o].abort_cnt - 1
           /\ opn[o].abort_tskid = NoTask => z.abort_cnt = opn[o].abort_cnt
<1> DEFINE w == IF a THEN 0 ELSE opn[o].nwaireq
           c == IF opn[o].abort_tskid # NoTask THEN opn[o].abort_cnt - 1 ELSE opn[o].abort_cnt
           v == [opn[o] EXCEPT !.syncreq = @ - s]
           x == [v EXCEPT !.waitone = @ - n]
           y == [x EXCEPT !.nwaireq = w, !.abort_cnt = c]
<1>1. opn[o] \in OPNCB
  BY DEF DevTypeOK
<1>2. w \in Nat /\ c \in Int
  BY <1>1 DEF OPNCB
<1>3. /\ x \in OPNCB /\ x.resid = opn[o].resid /\ x.abort_tskid = opn[o].abort_tskid
      /\ x.nwaireq = opn[o].nwaireq /\ x.abort_cnt = opn[o].abort_cnt
  <2>1. /\ v \in OPNCB /\ v.resid = opn[o].resid /\ v.abort_tskid = opn[o].abort_tskid
        /\ v.nwaireq = opn[o].nwaireq /\ v.abort_cnt = opn[o].abort_cnt
    BY <1>1 DEF OPNCB
  <2> HIDE DEF v
  <2>2. /\ x \in OPNCB /\ x.resid = v.resid /\ x.abort_tskid = v.abort_tskid
        /\ x.nwaireq = v.nwaireq /\ x.abort_cnt = v.abort_cnt
    BY <2>1 DEF OPNCB
  <2> QED BY <2>1, <2>2
<1>4. z = y
  <2>1. z = [opn[o] EXCEPT !.syncreq = @ - s, !.waitone = @ - n,
                           !.nwaireq = IF a THEN 0 ELSE @,
                           !.abort_cnt = IF opn[o].abort_tskid # NoTask THEN @ - 1 ELSE @]
    BY DEF Notified
  <2> QED BY <1>1, <2>1 DEF OPNCB
<1> HIDE DEF x
<1>5. /\ y \in OPNCB /\ y.resid = x.resid /\ y.abort_tskid = x.abort_tskid
      /\ y.nwaireq = w /\ y.abort_cnt = c
  <2> HIDE DEF w, c
  <2> QED BY <1>2, <1>3 DEF OPNCB
<1> HIDE DEF y
<1> QED BY <1>3, <1>4, <1>5

LEMMA RequestEndStep ==
    ASSUME DevInv, Served, NEW t \in DevTasks, RequestEnd(t)
    PROVE  DevInv'
<1> DEFINE o == at[t].opn
<1>1. /\ DevTypeOK /\ InProcess /\ at[t].pc = "exec" /\ Notifies(o) /\ told' = told \ {t}
      /\ UNCHANGED <<openq, syncq, driver, disturbed, uncounted>>
      /\ req \in [Reqs -> REQCB] /\ "executed" \in Places
      /\ at[t] \in Context
  BY DEF DevInv, DevTypeOK, RequestEnd, Is, Places, UsePlaces, history
<1>2. /\ o \in Opens /\ ~at[t].any /\ InDriver(t) /\ at[t].sync \in BOOLEAN
      /\ at[t].reqs \subseteq Reqs
  BY <1>1 DEF InProcess, UsePlaces, InDriver, Context
<1>3. PICK ok \in BOOLEAN :
        /\ opn' = [opn EXCEPT ![o] = Notified(o,
                    [sync |-> One(at[t].sync /\ ~ok), one |-> 0, any |-> FALSE])]
        /\ req' = [r \in Reqs |->
                    IF r \notin at[t].reqs THEN req[r]
                    ELSE IF ok THEN [req[r] EXCEPT !.tskid = NoTask] ELSE FreeReq]
        /\ IF ok /\ at[t].sync THEN Goes(t, "executed") ELSE Leaves(t)
  BY DEF RequestEnd
<1>4. PICK s \in {0, 1} : s = One(at[t].sync /\ ~ok)
  BY DEF One
<1>5. PICK n \in {0, 1}, a \in BOOLEAN : n = 0 /\ a = FALSE
  OBVIOUS
<1>6. PICK z : z = Notified(o, [sync |-> s, one |-> n, any |-> a])
  OBVIOUS
<1>7. /\ z \in OPNCB /\ z.resid = opn[o].resid /\ z.abort_tskid = opn[o].abort_tskid
      /\ z.nwaireq = opn[o].nwaireq
      /\ opn[o].abort_tskid # NoTask => z.abort_cnt = opn[o].abort_cnt - 1
      /\ opn[o].abort_tskid = NoTask => z.abort_cnt = opn[o].abort_cnt
  BY <1>1, <1>2, <1>5, <1>6, NotifiedOpen
<1>8. /\ opn' \in [Opens -> OPNCB] /\ opn'[o] = z /\ \A c \in Opens \ {o} : opn'[c] = opn[c]
  <2>1. opn' = [opn EXCEPT ![o] = z]
    BY <1>3, <1>4, <1>5, <1>6
  <2> QED BY <1>1, <1>2, <1>7, <2>1, OpenTurns DEF OpenTurned
<1>9. /\ at' \in [DevTasks -> Context] /\ \A u \in DevTasks \ {t} : at'[u] = at[u]
      /\ at'[t].pc \in {"out", "executed"} /\ ~at'[t].any
      /\ at'[t].pc = "executed" => at'[t].opn = at[t].opn /\ at'[t].reqs = at[t].reqs
  <2>1. CASE Goes(t, "executed")
    BY <1>1, <1>2, <2>1, Going DEF Turned
  <2>2. CASE Leaves(t)
    BY <1>1, <2>2, Leaving DEF Turned
  <2> QED BY <1>3, <2>1, <2>2
<1>10. /\ req' \in [Reqs -> REQCB] /\ \A r \in Reqs \ at[t].reqs : req'[r] = req[r]
      /\ \A r \in at[t].reqs : /\ req'[r].tskid = NoTask
                               /\ req'[r].opncb = req[r].opncb \/ req'[r].opncb = NoOpen
  <2>1. FreeReq \in REQCB /\ FreeReq.tskid = NoTask /\ FreeReq.opncb = NoOpen
    BY DEF FreeReq, REQCB
  <2>2. \A r \in Reqs : /\ [req[r] EXCEPT !.tskid = NoTask] \in REQCB
                        /\ [req[r] EXCEPT !.tskid = NoTask].tskid = NoTask
                        /\ [req[r] EXCEPT !.tskid = NoTask].opncb = req[r].opncb
    BY <1>1 DEF REQCB
  <2> HIDE DEF o
  <2> QED BY <1>1, <1>2, <1>3, <2>1, <2>2
<1>11. CallReturns(t, o)
  BY <1>1, <1>2, <1>7, <1>8, <1>9, <1>10 DEF CallReturns
<1> QED BY <1>2, <1>11, CallReturnsStep

LEMMA WaitEndStep ==
    ASSUME DevInv, Served, NEW t \in DevTasks, WaitEnd(t)
    PROVE  DevInv'
<1> DEFINE o == at[t].opn
<1>1. /\ DevTypeOK /\ InProcess /\ at[t].pc = "wait" /\ Notifies(o) /\ told' = told \ {t}
      /\ UNCHANGED <<openq, syncq, driver, disturbed, uncounted>> /\ Leaves(t)
      /\ req \in [Reqs -> REQCB] /\ at[t] \in Context
  BY DEF DevInv, DevTypeOK, WaitEnd, Is, history
<1>2. /\ o \in Opens /\ InDriver(t) /\ at[t].sync \in BOOLEAN /\ at[t].any \in BOOLEAN
      /\ at[t].reqs \subseteq Reqs
  BY <1>1 DEF InProcess, UsePlaces, InDriver, Context
<1>3. /\ opn' = [opn EXCEPT ![o] = Notified(o, [sync |-> One(at[t].sync),
                    one |-> One(~at[t].any), any |-> at[t].any])]
      /\ \E done \in {{}} \cup {{r} : r \in at[t].reqs} :
            req' = [r \in Reqs |->
                        IF r \in done THEN FreeReq
                        ELSE IF r \in at[t].reqs THEN [req[r] EXCEPT !.tskid = NoTask]
                        ELSE req[r]]
  BY DEF WaitEnd
<1>4. PICK s \in {0, 1} : s = One(at[t].sync)
  BY DEF One
<1>5. PICK n \in {0, 1} : n = One(~at[t].any)
  BY DEF One
<1>6. PICK a \in BOOLEAN : a = at[t].any
  BY <1>2
<1>7. PICK z : z = Notified(o, [sync |-> s, one |-> n, any |-> a])
  OBVIOUS
<1>8. /\ z \in OPNCB /\ z.resid = opn[o].resid /\ z.abort_tskid = opn[o].abort_tskid
      /\ at[t].any => z.nwaireq = 0
      /\ ~at[t].any => z.nwaireq = opn[o].nwaireq
      /\ opn[o].abort_tskid # NoTask => z.abort_cnt = opn[o].abort_cnt - 1
      /\ opn[o].abort_tskid = NoTask => z.abort_cnt = opn[o].abort_cnt
  BY <1>1, <1>2, <1>6, <1>7, NotifiedOpen
<1>9. /\ opn' \in [Opens -> OPNCB] /\ opn'[o] = z /\ \A c \in Opens \ {o} : opn'[c] = opn[c]
  <2>1. opn' = [opn EXCEPT ![o] = z]
    BY <1>3, <1>4, <1>5, <1>6, <1>7
  <2> QED BY <1>1, <1>2, <1>8, <2>1, OpenTurns DEF OpenTurned
<1>10. /\ at' \in [DevTasks -> Context] /\ \A u \in DevTasks \ {t} : at'[u] = at[u]
       /\ at'[t].pc = "out" /\ ~at'[t].any
  BY <1>1, Leaving DEF Turned
<1>11. /\ req' \in [Reqs -> REQCB] /\ \A r \in Reqs \ at[t].reqs : req'[r] = req[r]
       /\ \A r \in at[t].reqs : /\ req'[r].tskid = NoTask
                                /\ req'[r].opncb = req[r].opncb \/ req'[r].opncb = NoOpen
  <2>1. FreeReq \in REQCB /\ FreeReq.tskid = NoTask /\ FreeReq.opncb = NoOpen
    BY DEF FreeReq, REQCB
  <2>2. \A r \in Reqs : /\ [req[r] EXCEPT !.tskid = NoTask] \in REQCB
                        /\ [req[r] EXCEPT !.tskid = NoTask].tskid = NoTask
                        /\ [req[r] EXCEPT !.tskid = NoTask].opncb = req[r].opncb
    BY <1>1 DEF REQCB
  <2>3. PICK done \in {{}} \cup {{r} : r \in at[t].reqs} :
            req' = [r \in Reqs |->
                        IF r \in done THEN FreeReq
                        ELSE IF r \in at[t].reqs THEN [req[r] EXCEPT !.tskid = NoTask]
                        ELSE req[r]]
    BY <1>3
  <2>4. done \subseteq at[t].reqs
    BY <2>3
  <2> HIDE DEF o
  <2> QED BY <1>1, <1>2, <2>1, <2>2, <2>3, <2>4
<1>12. CallReturns(t, o)
  BY <1>1, <1>2, <1>8, <1>9, <1>10, <1>11 DEF CallReturns
<1> QED BY <1>2, <1>12, CallReturnsStep

LEMMA WaitRefusedStep ==
    ASSUME DevInv, NEW t \in DevTasks, WaitRefused(t)
    PROVE  DevInv'
<1>1. /\ DevTypeOK /\ InTurn /\ Handled /\ InProcess /\ Aborting /\ at[t].pc = "executed"
      /\ Leaves(t) /\ UNCHANGED <<req, openq, syncq, disabled, told, driver, disturbed, uncounted>>
      /\ openq \subseteq Opens /\ opn \in [Opens -> OPNCB]
  BY DEF DevInv, DevTypeOK, WaitRefused, Is, history
<1>2. PICK os : opn' = [o \in Opens |-> IF o \in os THEN [opn[o] EXCEPT !.syncreq = @ - 1]
                                        ELSE opn[o]]
  BY DEF WaitRefused
<1>3. \A o \in Opens : /\ opn'[o] \in OPNCB /\ opn'[o].resid = opn[o].resid
                       /\ opn'[o].nwaireq = opn[o].nwaireq
                       /\ opn'[o].abort_tskid = opn[o].abort_tskid
                       /\ opn'[o].abort_cnt = opn[o].abort_cnt
  <2> TAKE o \in Opens
  <2> DEFINE z == [opn[o] EXCEPT !.syncreq = @ - 1]
  <2>1. opn[o] \in OPNCB
    BY <1>1
  <2>2. /\ z \in OPNCB /\ z.resid = opn[o].resid /\ z.nwaireq = opn[o].nwaireq
        /\ z.abort_tskid = opn[o].abort_tskid /\ z.abort_cnt = opn[o].abort_cnt
    BY <2>1 DEF OPNCB
  <2>3. opn'[o] = IF o \in os THEN z ELSE opn[o]
    BY <1>2
  <2> HIDE DEF z
  <2> QED BY <2>1, <2>2, <2>3
<1>4. opn' \in [Opens -> OPNCB]
  BY <1>2, <1>3
<1>5. /\ at' \in [DevTasks -> Context] /\ at'[t].pc = "out" /\ ~at'[t].any
      /\ \A u \in DevTasks \ {t} : at'[u] = at[u]
  BY <1>1, Leaving DEF Turned
<1>6. DevTypeOK'
  BY <1>1, <1>4, <1>5 DEF DevTypeOK
<1>7. /\ Aside(t) /\ ~Processing(t) /\ ~Processing(t)'
      /\ at[t].pc \notin OpenPlaces \cup ClosePlaces
      /\ at'[t].pc \notin OpenPlaces \cup ClosePlaces
      /\ at'[t].pc \notin AbortPlaces /\ at'[t].pc \notin DrainPlaces
      /\ at'[t].pc \notin QueuePlaces
  BY <1>1, <1>5 DEF Aside, InDriver, Processing, OpenPlaces, ClosePlaces, AbortPlaces,
    DrainPlaces, QueuePlaces, UsePlaces
<1>8. Handled'
  BY <1>1, <1>3, <1>5, <1>7, HandledKept
<1>9. InTurn'
  <2>1. InSync' = InSync /\ \A u \in InSync : u \in DevTasks \ {t}
    BY <1>5, <1>7 DEF InSync, ClosePlaces
  <2>2. \A u \in InSync : Processing(u) => Processing(u)'
    BY <1>5, <2>1 DEF Processing
  <2> QED BY <1>1, <2>1, <2>2, TurnKept
<1>10. \A u \in DevTasks : at[u].pc \in ClosePlaces => at[u].opn \in Opens
  BY <1>1 DEF Handled
<1>11. InProcess'
  <2>1. \A u \in DevTasks : at[u].pc \in QueuePlaces => at[u].opn \in Opens
    BY <1>10 DEF ClosePlaces
  <2> QED BY <1>1, <1>3, <1>7, <2>1, ProcessKept
<1>12. \A u \in DevTasks : at[u].pc \in AbortPlaces \cup {"abortEnd"} => at[u].opn \in Opens
  BY <1>10 DEF ClosePlaces, DrainPlaces
<1>13. Aborting'
  <2>1. AbortFact(t)'
    BY <1>5 DEF AbortFact, AbortPlaces
  <2>2. ASSUME NEW c \in Opens
        PROVE  \/ opn'[c].abort_tskid = NoTask
               \/ opn'[c].abort_tskid = opn[c].abort_tskid /\ opn'[c].abort_tskid # t
    <3>1. opn[c].abort_tskid # NoTask => Aborts(opn[c].abort_tskid, c)
      BY <1>1 DEF Aborting
    <3>2. ~Aborts(t, c)
      BY <1>1 DEF Aborts, AbortPlaces
    <3> QED BY <1>3, <3>1, <3>2
  <2> QED BY <1>1, <1>3, <1>7, <1>12, <2>1, <2>2, AbortKept
<1>14. ASSUME ~disturbed
       PROVE  OneByOne' /\ DriverKnows' /\ (~uncounted => Drained')
  <2>1. t \notin disabled /\ OneByOne /\ DriverKnows
    BY <1>1, <1>14 DEF DevInv, OneByOne, Woken, AbortPlaces
  <2>2. at'[t].pc \notin {"opening", "closing", "abortEnd", "draining"}
    BY <1>5
  <2>3. OneByOne'
    BY <1>1, <1>3, <1>5, <1>7, <1>12, <2>1, <2>2, OneByOneKept
  <2>4. \A c : c \in openq /\ opn[c].resid # 0 <=> c \in openq' /\ opn'[c].resid # 0
    BY <1>1, <1>3
  <2>5. DriverKnows'
    BY <1>1, <1>5, <2>1, <2>2, <2>4, DriverKept
  <2>6. ~uncounted => Drained'
    BY <1>1, <1>7, <1>14, <2>2, DrainedKept DEF DevInv
  <2> QED BY <2>3, <2>5, <2>6
<1>15. ~uncounted => Counted'
  BY <1>3, <1>7, <1>12, CountedKept DEF DevInv
<1> QED BY <1>1, <1>6, <1>8, <1>9, <1>11, <1>13, <1>14, <1>15 DEF DevInv

-----------------------------------------------------------------------------
(* The theorems                                                            *)

LEMMA DevInitially ==
    ASSUME DevInit
    PROVE  DevInv
<1>1. /\ opn = [o \in Opens |-> NewOpen] /\ req = [r \in Reqs |-> FreeReq] /\ openq = {}
      /\ syncq = <<>> /\ disabled = {} /\ at = [t \in DevTasks |-> Outside] /\ told = {}
      /\ driver = FALSE /\ disturbed = FALSE /\ uncounted = FALSE
  BY DEF DevInit
<1>2. /\ Outside \in Context /\ Outside.pc = "out" /\ ~Outside.any
      /\ FreeReq \in REQCB /\ FreeReq.tskid = NoTask
  BY DEF Outside, Context, Places, FreeReq, REQCB
<1>3. /\ \A t \in DevTasks : at[t].pc = "out" /\ ~at[t].any
      /\ \A r \in Reqs : req[r].tskid = NoTask
      /\ \A o \in Opens : /\ opn[o].resid = 0 /\ opn[o].nwaireq = 0
                          /\ opn[o].abort_tskid = NoTask
  BY <1>1, <1>2, NewOpenIs
<1>4. \A t \in DevTasks : at[t].pc \notin OpenPlaces \cup ClosePlaces \cup UsePlaces
  BY <1>3 DEF OpenPlaces, ClosePlaces, AbortPlaces, DrainPlaces, QueuePlaces, UsePlaces
<1>5. \A t \in DevTasks : /\ ~InDriver(t) /\ ~Processing(t)
                          /\ at[t].pc \notin AbortPlaces \cup DrainPlaces \cup QueuePlaces
  BY <1>3 DEF InDriver, Processing, AbortPlaces, DrainPlaces, QueuePlaces
<1>6. DevTypeOK
  BY <1>1, <1>2, NewOpenIs DEF DevTypeOK
<1>7. InTurn
  <2>1. InSync = {}
    BY <1>4, <1>5 DEF InSync
  <2> QED BY <1>1, <2>1, NothingLinked DEF InTurn
<1>8. Handled
  BY <1>3, <1>4 DEF Handled, Handles
<1>9. InProcess
  BY <1>3, <1>4, <1>5 DEF InProcess
<1>10. Aborting
  BY <1>3, <1>5 DEF Aborting, AbortFact
<1>11. OneByOne
  BY <1>1, <1>3, <1>5 DEF OneByOne
<1>12. DriverKnows
  BY <1>1, <1>3 DEF DriverKnows
<1>13. Counted
  BY <1>5 DEF Counted
<1>14. Drained
  BY <1>3, <1>5 DEF Drained, Served
<1> QED BY <1>1, <1>6, <1>7, <1>8, <1>9, <1>10, <1>11, <1>12, <1>13, <1>14 DEF DevInv

LEMMA DevStep ==
    ASSUME DevInv, [DevNext]_devvars
    PROVE  DevInv'
<1>1. CASE DevNext
  <2>1. Served
    BY <1>1 DEF DevNext
  <2>2. PICK t \in DevTasks :
            \/ SyncWait(t) \/ ReleaseWait(t)
            \/ \E o \in Opens : \/ OpenStart(t, o) \/ CloseStart(t, o) \/ WaitAny(t, o)
                                \/ \E r \in Reqs :
                                    \/ WaitOne(t, o, r)
                                    \/ \E sync \in BOOLEAN : RequestStart(t, o, r, sync)
            \/ OpenNext(t) \/ OpenEnd(t)
            \/ RequestEnd(t) \/ WaitRefused(t) \/ WaitEnd(t)
            \/ Abort(t) \/ AbortLook(t) \/ AbortEnd(t)
            \/ (\E r \in Reqs : Drain(t, r)) \/ DrainEnd(t)
            \/ CloseQueue(t) \/ CloseNext(t) \/ CloseEnd(t)
    BY <1>1 DEF DevNext
  <2>3. CASE SyncWait(t)
    BY <2>3, SyncWaitStep
  <2>24. CASE ReleaseWait(t)
    BY <2>24, ReleaseWaitStep
  <2>4. ASSUME NEW o \in Opens, OpenStart(t, o)
        PROVE  DevInv'
    BY <2>4, OpenStartStep
  <2>5. ASSUME NEW o \in Opens, CloseStart(t, o)
        PROVE  DevInv'
    BY <2>5, CloseStartStep
  <2>6. ASSUME NEW o \in Opens, WaitAny(t, o)
        PROVE  DevInv'
    BY <2>1, <2>6, WaitAnyStep
  <2>7. ASSUME NEW o \in Opens, NEW r \in Reqs, WaitOne(t, o, r)
        PROVE  DevInv'
    BY <2>1, <2>7, WaitOneStep
  <2>8. ASSUME NEW o \in Opens, NEW r \in Reqs, NEW sync \in BOOLEAN,
               RequestStart(t, o, r, sync)
        PROVE  DevInv'
    BY <2>1, <2>8, RequestStartStep
  <2>9. CASE OpenNext(t)
    BY <2>9, CallNext DEF OpenNext, Is, history
  <2>10. CASE OpenEnd(t)
    BY <2>10, OpenEndStep
  <2>11. CASE RequestEnd(t)
    BY <2>1, <2>11, RequestEndStep
  <2>12. CASE WaitRefused(t)
    BY <2>12, WaitRefusedStep
  <2>13. CASE WaitEnd(t)
    BY <2>1, <2>13, WaitEndStep
  <2>14. CASE Abort(t)
    BY <2>1, <2>14, AbortStep
  <2>15. CASE AbortLook(t)
    BY <2>15, AbortLookStep
  <2>16. CASE AbortEnd(t)
    BY <2>16, AbortEndStep
  <2>17. ASSUME NEW r \in Reqs, Drain(t, r)
         PROVE  DevInv'
    BY <2>17, DrainStep
  <2>18. CASE DrainEnd(t)
    BY <2>18, DrainEndStep
  <2>19. CASE CloseQueue(t)
    BY <2>19, CloseQueueStep
  <2>20. CASE CloseNext(t)
    BY <2>20, CallNext DEF CloseNext, Is, history
  <2>21. CASE CloseEnd(t)
    BY <2>1, <2>21, CloseEndStep
  <2>22. (\E o \in Opens : \/ OpenStart(t, o) \/ CloseStart(t, o) \/ WaitAny(t, o)
                           \/ \E r \in Reqs :
                                \/ WaitOne(t, o, r)
                                \/ \E sync \in BOOLEAN : RequestStart(t, o, r, sync))
         => DevInv'
    BY <2>4, <2>5, <2>6, <2>7, <2>8
  <2>23. (\E r \in Reqs : Drain(t, r)) => DevInv'
    BY <2>17
  <2> QED BY <2>2, <2>3, <2>9, <2>10, <2>11, <2>12, <2>13, <2>14, <2>15, <2>16, <2>18,
    <2>19, <2>20, <2>21, <2>22, <2>23, <2>24
<1>2. CASE UNCHANGED devvars
  <2>1. UNCHANGED <<opn, req, openq, syncq, disabled, at, told, driver, disturbed, uncounted>>
    BY <1>2 DEF devvars, history
  <2>2. /\ DevTypeOK' <=> DevTypeOK
        /\ InTurn' <=> InTurn
        /\ Handled' <=> Handled
    BY <2>1 DEF DevTypeOK, InTurn, Handled, InSync, Processing, Handles
  <2>3. \A o : Calls(o)' = Calls(o) /\ Requests(o)' = Requests(o)
    BY <2>1 DEF Calls, InDriver, Requests
  <2>4. InProcess' <=> InProcess
    BY <2>1 DEF InProcess, Calls, InDriver, Requests
  <2>5. Aborting' <=> Aborting
    BY <2>1 DEF Aborting, AbortFact, Aborts, Calls, InDriver
  <2>6. /\ OneByOne' <=> OneByOne
        /\ DriverKnows' <=> DriverKnows
    BY <2>1 DEF OneByOne, Woken, Processing, DriverKnows, chkopen
  <2>7. /\ Counted' <=> Counted
        /\ Drained' <=> Drained
    BY <2>1 DEF Counted, Drained, Served, Calls, InDriver, Requests
  <2> QED BY <2>1, <2>2, <2>4, <2>5, <2>6, <2>7 DEF DevInv
<1> QED BY <1>1, <1>2

(* The invariant holds in every state of device management, with any      *)
(* tasks, opens and requests (deviceio.c).                                 *)
THEOREM DevInvariant == DevSpec => []DevInv
<1>1. DevInit => DevInv
  BY DevInitially
<1>2. DevInv /\ [DevNext]_devvars => DevInv'
  BY DevStep
<1> QED BY <1>1, <1>2, PTL DEF DevSpec

(* Opens and closes work one at a time, and between them the driver is     *)
(* open exactly while the device is (chkopen), until abort_allrequest      *)
(* leaves a wakeup behind or a wait in SyncWaitDM is ended from outside.   *)
THEOREM DriverAgrees == DevSpec => []DriverMatches
<1>1. DevInv => DriverMatches
  BY DEF DevInv, DriverMatches, OneByOne, DriverKnows
<1> QED BY <1>1, DevInvariant, PTL

(* No wakeup of SyncWaitDM is lost: also when it comes before the wait,    *)
(* and whatever waits are ended from outside.                              *)
THEOREM NoLostSync == DevSpec => []SleepersAreWoken
<1>1. ASSUME DevInv
      PROVE  SleepersAreWoken
  <2> SUFFICES ASSUME NEW t \in DevTasks \ disabled
               PROVE  /\ at[t].pc \in {"openSync", "closeSync"} =>
                            Processing(Head(syncq)) \/ Head(syncq) \in disabled
                      /\ at[t].pc = "abortSync" =>
                            /\ opn[at[t].opn].abort_tskid = t
                            /\ opn[at[t].opn].abort_cnt \in 1 .. Cardinality(
                                {u \in told : InDriver(u) /\ at[u].opn = at[t].opn})
    BY DEF SleepersAreWoken
  <2>1. ASSUME at[t].pc \in {"openSync", "closeSync"}
        PROVE  Processing(Head(syncq)) \/ Head(syncq) \in disabled
    <3>1. t \in InSync
      BY <2>1 DEF InSync, OpenPlaces, QueuePlaces
    <3>2. syncq # <<>>
      BY <1>1, <3>1, EmptyLinked DEF DevInv, InTurn
    <3> QED BY <1>1, <3>2 DEF DevInv, InTurn
  <2>2. ASSUME at[t].pc = "abortSync"
        PROVE  /\ opn[at[t].opn].abort_tskid = t
               /\ opn[at[t].opn].abort_cnt \in 1 .. Cardinality(
                        {u \in told : InDriver(u) /\ at[u].opn = at[t].opn})
    <3> DEFINE o == at[t].opn
               C == Calls(o) \cap told
    <3>1. /\ opn[o].abort_tskid = t
          /\ opn[o].abort_cnt <= Cardinality(C)
          /\ opn[o].abort_cnt > 0
      BY <1>1, <2>2 DEF DevInv, Aborting, AbortFact, AbortPlaces
    <3>2. {u \in told : InDriver(u) /\ at[u].opn = o} = C
      BY <1>1, <3>1 DEF Calls, DevInv, DevTypeOK
    <3>3. o \in Opens
      BY <1>1, <2>2 DEF DevInv, DevTypeOK, Handled, ClosePlaces, AbortPlaces
    <3>4. opn[o].abort_cnt \in Int
      BY <1>1, <3>3 DEF DevInv, DevTypeOK, OPNCB
    <3>5. IsFiniteSet(C)
      BY DeviceIOAssumption, FS_Subset DEF Calls
    <3>6. Cardinality(C) \in Nat
      BY <3>5, FS_CardinalityType
    <3> HIDE DEF C
    <3>7. opn[o].abort_cnt \in 1 .. Cardinality(C)
      BY <3>1, <3>4, <3>6
    <3> QED BY <3>1, <3>2, <3>7
  <2> QED BY <2>1, <2>2
<1>2. DevInv => SleepersAreWoken
  BY <1>1
<1> QED BY <1>2, DevInvariant, PTL

(* While the driver works on a request, the request and the open stay      *)
(* (abort_allrequest, delOpnCB), until a wakeup comes too early or a wait  *)
(* for any request overlaps the start of another.                          *)
THEOREM RequestsStay == DevSpec => []InService
<1>1. DevInv => InService
  BY DEF DevInv, InService, Drained
<1> QED BY <1>1, DevInvariant, PTL
=============================================================================
