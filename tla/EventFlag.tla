----------------------------- MODULE EventFlag ------------------------------
(***************************************************************************)
(* An event flag (eventflag.c) with the wait queue of wait.c: waits for    *)
(* all or any bits of a pattern, that may clear these bits or all, and one *)
(* set that releases several tasks.  A bit pattern is a set of bits.       *)
(***************************************************************************)
EXTENDS WaitQueue

CONSTANTS Bits,    \* the bits of flgptn
          Waits   \* the waits that tasks ask for, of WaitModes

VARIABLES wait,     \* winfo.flg of a waiting task
          flag      \* the FLGCB

flagvars == <<priority, wait, flag>>

NoWait == [waiptn |-> {}, orw |-> FALSE, clear |-> "none"]
WaitModes == [waiptn : (SUBSET Bits) \ {{}}, orw : BOOLEAN,
              clear : {"none", "TWF_BITCLR", "TWF_CLR"}]

ASSUME EventFlagAssumption == Waits \subseteq WaitModes

NoFlag == [flgid |-> FALSE, tpri |-> FALSE, wmul |-> FALSE, flgptn |-> {},
           wait_queue |-> <<>>]

WaitsForFlg(t) == t \in ToSet(flag.wait_queue)

-----------------------------------------------------------------------------
(* Definitions marked "fault" are not the code: each is a plausible mistake *)
(* in the definition that follows it.                                      *)

eventflag_cond(flgptn, w) ==
    IF w.orw THEN flgptn \cap w.waiptn # {} ELSE w.waiptn \subseteq flgptn

(* TWF_CLR clears all bits, also with TWF_BITCLR, which clears those of    *)
(* the pattern.                                                            *)
Cleared(flgptn, w) ==
    CASE w.clear = "none"       -> flgptn
      [] w.clear = "TWF_BITCLR" -> flgptn \ w.waiptn
      [] w.clear = "TWF_CLR"    -> {}

(* fault: the search ends with the first task that is released *)
ReleaseOne(s, t) ==
    IF s.end \/ ~eventflag_cond(s.flag.flgptn, wait[t]) THEN s
    ELSE [flag |-> [s.flag EXCEPT !.flgptn = Cleared(@, wait[t]),
                                  !.wait_queue = RemoveFirst(@, t)],
          end  |-> TRUE]

(* One round of the search over the wait queue: it ends when all bits are  *)
(* cleared, by TWF_CLR or one by one.                                      *)
ReleaseNext(s, t) ==
    LET w    == wait[t]
        left == Cleared(s.flag.flgptn, w)
    IN  IF s.end \/ ~eventflag_cond(s.flag.flgptn, w) THEN s
        ELSE [flag |-> [s.flag EXCEPT !.flgptn = left,
                                      !.wait_queue = RemoveFirst(@, t)],
              end  |-> w.clear # "none" /\ left = {}]

ReleaseQueue(f) ==
    LET round[i \in 0 .. Len(f.wait_queue)] ==
            IF i = 0 THEN [flag |-> f, end |-> FALSE]
            ELSE ReleaseNext(round[i - 1], f.wait_queue[i])
    IN  round[Len(f.wait_queue)].flag

FlgBecomes(f) ==
    /\ flag' = f
    /\ wait' = [t \in Tasks |->
                    IF t \in ToSet(f.wait_queue) THEN wait[t] ELSE NoWait]

tk_cre_flg(tpri, wmul, iflgptn) ==
    /\ ~flag.flgid
    /\ FlgBecomes([flgid |-> TRUE, tpri |-> tpri, wmul |-> wmul,
                flgptn |-> iflgptn, wait_queue |-> <<>>])
    /\ UNCHANGED priority

(* wait_delete *)
tk_del_flg == flag.flgid /\ FlgBecomes(NoFlag) /\ UNCHANGED priority

tk_set_flg(setptn) ==
    /\ flag.flgid
    /\ FlgBecomes(ReleaseQueue([flag EXCEPT !.flgptn = @ \cup setptn]))
    /\ UNCHANGED priority

tk_clr_flg(clrptn) ==
    /\ flag.flgid
    /\ FlgBecomes([flag EXCEPT !.flgptn = @ \cap clrptn])
    /\ UNCHANGED priority

MayWait == flag.wmul \/ flag.wait_queue = <<>>

(* E_OBJ if the flag has one waiting task and not TA_WMUL.  A polling call *)
(* that is not satisfied changes nothing.                                  *)
tk_wai_flg(t, w) ==
    /\ flag.flgid /\ ~WaitsForFlg(t) /\ MayWait
    /\ \/ /\ eventflag_cond(flag.flgptn, w)
          /\ FlgBecomes([flag EXCEPT !.flgptn = Cleared(@, w)])
       \/ /\ ~eventflag_cond(flag.flgptn, w)
          /\ flag' = [flag EXCEPT
                        !.wait_queue = gcb_make_wait(@, t, priority, flag.tpri)]
          /\ wait' = [wait EXCEPT ![t] = w]
    /\ UNCHANGED priority

(* The end of a wait by timeout, release or termination: there is no hook. *)
EndFlgWait(t) ==
    /\ WaitsForFlg(t)
    /\ FlgBecomes([flag EXCEPT !.wait_queue = RemoveFirst(@, t)])
    /\ UNCHANGED priority

(* flg_chg_pri of a queue by priority *)
flg_chg_pri(t, p) ==
    /\ priority' = [priority EXCEPT ![t] = p]
    /\ flag' = IF WaitsForFlg(t) /\ flag.tpri
               THEN [flag EXCEPT !.wait_queue = gcb_change_priority(@, t, priority')]
               ELSE flag
    /\ UNCHANGED wait

FlgInit ==
    /\ priority \in [Tasks -> Pri]
    /\ wait = [t \in Tasks |-> NoWait]
    /\ flag = NoFlag

FlgNext ==
    \/ \E tpri, wmul \in BOOLEAN, ptn \in SUBSET Bits : tk_cre_flg(tpri, wmul, ptn)
    \/ tk_del_flg
    \/ \E ptn \in SUBSET Bits : tk_set_flg(ptn) \/ tk_clr_flg(ptn)
    \/ \E t \in Tasks :
        \/ \E w \in Waits : tk_wai_flg(t, w)
        \/ EndFlgWait(t)
        \/ \E p \in Pri : flg_chg_pri(t, p)

FlgSpec == FlgInit /\ [][FlgNext]_flagvars

-----------------------------------------------------------------------------
(* Nobody waits for what is set: one set releases every task it can, also  *)
(* when it ends its search early because a released task cleared the bits; *)
(* and the flag has no second waiting task without TA_WMUL.                *)
NoneSatisfied ==
    /\ \A t \in ToSet(flag.wait_queue) : ~eventflag_cond(flag.flgptn, wait[t])
    /\ flag.wmul \/ Len(flag.wait_queue) <= 1
=============================================================================
