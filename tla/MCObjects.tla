----------------------------- MODULE MCObjects ------------------------------
(* The objects that tasks communicate with, for TLC.  They share no state,  *)
(* so a behaviour moves the one that its initial state names as `subject`,  *)
(* and the others stay as they begin.                                       *)
EXTENDS FastMLock, Semaphore, MessageBuffer, EventFlag, Rendezvous,
        TimerEvents, TLC

CONSTANTS m1, m2, m3, b0, b1, p1, p2, t1, t2, t3

VARIABLE subject

(* What an object has beside the priorities of the tasks *)
semstate == <<need, sem, served>>
mbfstate == <<msg, mbf, delivered>>
flagstate == <<wait, flag>>
rdvstate == <<wrdvno, rdv, port, brought, written>>

MCRank == t1 :> 0 @@ t2 :> 1 @@ t3 :> 1

MCSize == m1 :> 2 @@ m2 :> 5 @@ m3 :> 9

MCWait(ptn, or, c) == [waiptn |-> ptn, orw |-> or, clear |-> c]

MCWaits ==
    {MCWait({b0}, TRUE, c) : c \in {"none", "TWF_BITCLR", "TWF_CLR"}}
    \cup {MCWait({b0, b1}, FALSE, c) : c \in {"none", "TWF_BITCLR"}}
    \cup {MCWait({b1}, FALSE, "TWF_BITCLR"), MCWait({b0, b1}, TRUE, "TWF_BITCLR")}

MCMaxRmsz == p1 :> 1 @@ p2 :> 0

Subjects == {"semaphore", "message buffer", "event flag", "multi-lock",
             "rendezvous", "timer"}

(* The objects whose run does not depend on priorities begin with all      *)
(* tasks at the top priority.                                              *)
ObjectsInit ==
    /\ subject \in Subjects
    /\ SemInit
    /\ MbfInit
    /\ FlgInit
    /\ Init /\ \A t \in Tasks : no[t] = 0
    /\ RdvInit
    /\ TimerInit
    /\ subject \in {"semaphore", "message buffer", "event flag"}
       \/ \A t \in Tasks : priority[t] = 0

SemMoves ==
    /\ subject = "semaphore" /\ SemNext
    /\ UNCHANGED <<subject, mbfstate, flagstate, mlockvars, rdvstate, timervars>>

MbfMoves ==
    /\ subject = "message buffer" /\ MbfNext
    /\ UNCHANGED <<subject, semstate, flagstate, mlockvars, rdvstate, timervars>>

FlgMoves ==
    /\ subject = "event flag" /\ FlgNext
    /\ UNCHANGED <<subject, semstate, mbfstate, mlockvars, rdvstate, timervars>>

MLockMoves ==
    /\ subject = "multi-lock" /\ Next
    /\ UNCHANGED <<subject, priority, semstate, mbfstate, flagstate, rdvstate, timervars>>

RdvMoves ==
    /\ subject = "rendezvous" /\ RdvNext
    /\ UNCHANGED <<subject, semstate, mbfstate, flagstate, mlockvars, timervars>>

TimerMoves ==
    /\ subject = "timer" /\ TimerNext
    /\ UNCHANGED <<subject, priority, semstate, mbfstate, flagstate, mlockvars, rdvstate>>

ObjectsNext ==
    SemMoves \/ MbfMoves \/ FlgMoves \/ MLockMoves \/ RdvMoves \/ TimerMoves

ObjectsSpec ==
    ObjectsInit
    /\ [][ObjectsNext]_<<priority, semstate, mbfstate, flagstate, mlockvars,
                         rdvstate, timervars, subject>>
=============================================================================
