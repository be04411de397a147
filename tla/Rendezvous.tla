----------------------------- MODULE Rendezvous -----------------------------
(***************************************************************************)
(* Rendezvous ports (rendezvous.c) with the wait queue of wait.c: calls    *)
(* and acceptances that find each other by bit patterns, rendezvous        *)
(* numbers, forwarding to another port, replies.                           *)
(*                                                                         *)
(* A step is one system call, or the end of one wait.  Tasks pass          *)
(* rendezvous numbers on: whoever does not wait may use any number that    *)
(* was ever given out.  tk_dis_wai may come at any time, so each check of  *)
(* wait disabling (is_diswai) has either result.                           *)
(***************************************************************************)
EXTENDS WaitQueue

CONSTANTS Ports,
          ByPri,    \* the ports with TA_TPRI
          MaxRmsz,  \* porcb->maxrmsz of each port
          CallPris, \* the priorities of Pri that calls of tk_chg_pri set
          CallPtns, \* patterns of calls and acceptances: sets of bits
          MaxMsgSz, \* the longest message
          RdvLimit  \* bound of the numbers a task uses up; the code has 2^16

ASSUME RendezvousAssumption == MaxRmsz \in [Ports -> Nat] /\ CallPris \subseteq Pri

VARIABLES wrdvno,   \* tcb->wrdvno: the next number of each task
          rdv,      \* what each task waits for: wspec, wid and winfo
          port,     \* the PORCBs
          brought,  \* history: wrdvno when a waiting caller called its port,
                    \* and the size of the buffer it brought
          written   \* history: what the last step wrote to a caller's buffer

rdvvars == <<priority, wrdvno, rdv, port, brought, written>>

NoRdv == [wspec |-> "none"]
NoPort == [porid |-> FALSE, call_queue |-> <<>>, accept_queue |-> <<>>]
NoText == [to |-> {}, size |-> 0, rdvno |-> 0]

CallWait(p, ptn) == [wspec |-> "cal", wid |-> p, calptn |-> ptn]
AcceptWait(p, ptn) == [wspec |-> "acp", wid |-> p, acpptn |-> ptn]
EndOfRdvWait(no, size) == [wspec |-> "rdv", rdvno |-> no, maxrmsz |-> size]

Free(t) == rdv[t].wspec = "none"

-----------------------------------------------------------------------------
(* Definitions marked "fault" are not the code: each is a plausible mistake *)
(* in the definition that follows it.                                      *)

(* The places in a queue whose tasks have a bit of their pattern in common *)
(* with ptn; the first of them is taken.                                   *)
Callers(p, ptn) ==
    {i \in DOMAIN port[p].call_queue : rdv[port[p].call_queue[i]].calptn \cap ptn # {}}
Acceptors(p, ptn) ==
    {i \in DOMAIN port[p].accept_queue : rdv[port[p].accept_queue[i]].acpptn \cap ptn # {}}

(* wait_release, wait_cancel: t leaves the queue it is in. *)
WithoutTask(ps, t) ==
    [p \in Ports |-> [ps[p] EXCEPT !.call_queue = RemoveFirst(@, t),
                                   !.accept_queue = RemoveFirst(@, t)]]

Enqueued(p, t) ==
    [port EXCEPT ![p].call_queue = gcb_make_wait(@, t, priority, p \in ByPri)]

gen_rdvno(t) ==
    /\ wrdvno[t] < RdvLimit
    /\ wrdvno' = [wrdvno EXCEPT ![t] = @ + 1]

NotBrought == [begun |-> 0, room |-> 0]

(* What is kept of a call ends with it. *)
Kept(b) ==
    brought' = [t \in Tasks |->
                    IF rdv'[t].wspec \in {"cal", "rdv"} THEN b[t] ELSE NotBrought]

Unwritten == written' = NoText /\ UNCHANGED priority /\ Kept(brought)

tk_cre_por(p) ==
    /\ ~port[p].porid
    /\ port' = [port EXCEPT ![p].porid = TRUE]
    /\ UNCHANGED <<wrdvno, rdv>>
    /\ Unwritten

(* wait_delete for both queues *)
tk_del_por(p) ==
    /\ port[p].porid
    /\ port' = [port EXCEPT ![p] = NoPort]
    /\ rdv' = [t \in Tasks |->
                IF t \in ToSet(port[p].call_queue) \cup ToSet(port[p].accept_queue)
                THEN NoRdv ELSE rdv[t]]
    /\ UNCHANGED wrdvno
    /\ Unwritten

(* A polling call that finds no acceptor, and one with E_DISWAI, change    *)
(* nothing.  With an acceptor the wait for the end may turn out to be      *)
(* disabled when the acceptor has already gone on.                         *)
tk_cal_por(t, p, ptn) ==
    LET found == Acceptors(p, ptn)
        first == port[p].accept_queue[Min(found)]
    IN  /\ port[p].porid /\ Free(t)
        /\ \/ /\ found = {}
              /\ port' = Enqueued(p, t)
              /\ rdv' = [rdv EXCEPT ![t] = CallWait(p, ptn)]
              /\ UNCHANGED wrdvno
           \/ /\ found # {}
              /\ gen_rdvno(t)
              /\ port' = WithoutTask(port, first)
              /\ \E disabled \in BOOLEAN :
                    rdv' = [rdv EXCEPT
                        ![first] = NoRdv,
                        ![t] = IF disabled THEN NoRdv
                               ELSE EndOfRdvWait(wrdvno[t], MaxRmsz[p])]
        /\ Kept([brought EXCEPT ![t] = [begun |-> wrdvno[t],
                                        room |-> MaxRmsz[p]]])
        /\ written' = NoText
        /\ UNCHANGED priority

(* fault: the first caller is not looked at if another pattern waits *)
FirstOnly(p, ptn) == Callers(p, ptn) \cap {1}

Acceptable(p, ptn) == Callers(p, ptn)

(* The caller waits on for the end of the rendezvous, without a timeout,   *)
(* or is released with E_DISWAI; the acceptor goes on in both cases.       *)
tk_acp_por(t, p, ptn) ==
    LET found == Acceptable(p, ptn)
        first == port[p].call_queue[Min(found)]
    IN  /\ port[p].porid /\ Free(t)
        /\ \/ /\ found = {}
              /\ port' = [port EXCEPT ![p].accept_queue = Append(@, t)]
              /\ rdv' = [rdv EXCEPT ![t] = AcceptWait(p, ptn)]
              /\ UNCHANGED wrdvno
           \/ /\ found # {}
              /\ gen_rdvno(first)
              /\ port' = WithoutTask(port, first)
              /\ \E disabled \in BOOLEAN :
                    rdv' = [rdv EXCEPT
                        ![first] =
                            IF disabled THEN NoRdv
                            ELSE EndOfRdvWait(wrdvno[first], MaxRmsz[p])]
        /\ Unwritten

(* fault: the number is not compared *)
AnyNumber(t, no) == rdv[t].wspec = "rdv"

(* The number no was given out for the rendezvous that t waits to end. *)
Valid(t, no) == rdv[t].wspec = "rdv" /\ rdv[t].rdvno = no

NoLonger(p, t) == MaxRmsz[p] <= rdv[t].maxrmsz

(* The rendezvous of t goes on at port p, in a new one with an acceptor    *)
(* that waits there or in its call queue; size bytes of text replace those *)
(* of the caller.  With E_DISWAI the caller is released; an acceptor may   *)
(* have gone on by then.                                                   *)
tk_fwd_por(p, ptn, t, no, size) ==
    LET found == Acceptors(p, ptn)
        first == port[p].accept_queue[Min(found)]
    IN  /\ \E u \in Tasks : Free(u)
        /\ port[p].porid /\ Valid(t, no) /\ NoLonger(p, t)
        /\ size <= rdv[t].maxrmsz
        /\ \/ /\ found # {}
              /\ gen_rdvno(t)
              /\ port' = WithoutTask(port, first)
              /\ \E disabled \in BOOLEAN :
                    rdv' = [rdv EXCEPT
                        ![first] = NoRdv,
                        ![t] = IF disabled THEN NoRdv
                               ELSE EndOfRdvWait(wrdvno[t], MaxRmsz[p])]
              /\ written' = NoText
           \/ /\ found = {}
              /\ port' = Enqueued(p, t)
              /\ rdv' = [rdv EXCEPT ![t] = CallWait(p, ptn)]
              /\ written' = [to |-> {t}, size |-> size, rdvno |-> no]
              /\ UNCHANGED wrdvno
           \/ /\ rdv' = [rdv EXCEPT ![t] = NoRdv]
              /\ written' = NoText
              /\ UNCHANGED <<wrdvno, port>>
    /\ Kept(brought)
    /\ UNCHANGED priority

tk_rpl_rdv(t, no, size) ==
    /\ \E u \in Tasks : Free(u)
    /\ Valid(t, no) /\ size <= rdv[t].maxrmsz
    /\ rdv' = [rdv EXCEPT ![t] = NoRdv]
    /\ written' = [to |-> {t}, size |-> size, rdvno |-> no]
    /\ Kept(brought)
    /\ UNCHANGED <<priority, wrdvno, port>>

(* The end of a wait by timeout, release, tk_dis_wai or termination. *)
EndPortWait(t) ==
    /\ ~Free(t)
    /\ port' = WithoutTask(port, t)
    /\ rdv' = [rdv EXCEPT ![t] = NoRdv]
    /\ UNCHANGED wrdvno
    /\ Unwritten

(* cal_chg_pri of a call queue by priority *)
cal_chg_pri(t, pri) ==
    /\ priority' = [priority EXCEPT ![t] = pri]
    /\ port' = [p \in Ports |->
                    IF p \in ByPri /\ t \in ToSet(port[p].call_queue)
                    THEN [port[p] EXCEPT
                            !.call_queue = gcb_change_priority(@, t, priority')]
                    ELSE port[p]]
    /\ written' = NoText
    /\ UNCHANGED <<wrdvno, rdv, brought>>

RdvInit ==
    /\ priority \in [Tasks -> Pri]
    /\ wrdvno = [t \in Tasks |-> 0]
    /\ rdv = [t \in Tasks |-> NoRdv]
    /\ port = [p \in Ports |-> NoPort]
    /\ brought = [t \in Tasks |-> NotBrought]
    /\ written = NoText

RdvNext ==
    \/ \E p \in Ports :
        tk_cre_por(p) \/ tk_del_por(p)
    \/ \E t \in Tasks :
        \/ \E p \in Ports, ptn \in CallPtns :
            \/ tk_cal_por(t, p, ptn)
            \/ tk_acp_por(t, p, ptn)
            \/ \E no \in 0 .. wrdvno[t] - 1, size \in 0 .. MaxMsgSz :
                tk_fwd_por(p, ptn, t, no, size)
        \/ \E no \in 0 .. wrdvno[t] - 1, size \in 0 .. MaxMsgSz :
            tk_rpl_rdv(t, no, size)
        \/ EndPortWait(t)
        \/ \E pri \in CallPris : cal_chg_pri(t, pri)

RdvSpec == RdvInit /\ [][RdvNext]_rdvvars

-----------------------------------------------------------------------------
(* Nobody waits in vain: a call and an acceptance that fit never wait at   *)
(* the same port, whether the call came there by itself or was forwarded.  *)
NoMatchWaits ==
    \A p \in Ports :
        \A c \in ToSet(port[p].call_queue), a \in ToSet(port[p].accept_queue) :
            rdv[c].calptn \cap rdv[a].acpptn = {}

(* A late answer changes nothing: what is written to a caller's buffer, by *)
(* a reply or by a forwarding, belongs to the call that the caller is in   *)
(* and fits into the buffer that it brought, through any chain of ports;   *)
(* numbers from earlier calls, which ended by force, and from before a     *)
(* forwarding are void.  (RdvLimit stands for the 2^16 numbers after which *)
(* a task's numbers start again.)                                          *)
OwnAnswer ==
    [][\A t \in written'.to :
            /\ written'.rdvno \in brought[t].begun .. wrdvno[t] - 1
            /\ written'.rdvno = wrdvno[t] - 1
            /\ written'.size <= brought[t].room]_rdvvars
=============================================================================
