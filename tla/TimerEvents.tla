---------------------------- MODULE TimerEvents -----------------------------
(***************************************************************************)
(* The timer event queue (timer.c) and what is in it: the timeouts of      *)
(* waiting tasks (wait.c), cyclic handlers and alarm handlers              *)
(* (time_calls.c).                                                         *)
(*                                                                         *)
(* The timer interrupt works off the events that are due.  While it runs a *)
(* cyclic or alarm handler, interrupts are enabled: that handler, and those *)
(* of other interrupts, start, stop, create and delete handlers and wake   *)
(* tasks.  Tasks go on when the timer interrupt is over.                   *)
(***************************************************************************)
EXTENDS Naturals, SequencesExt

CONSTANTS TimerTasks,
          Cycs,         \* the cyclic handlers
          Alms,         \* the alarm handlers
          TIMER_PERIOD, \* the time between two timer interrupts
          RelTimes,     \* the relative times that calls pass, not 0
          MaxTime       \* bound of current_time

(* Each event is the field of one control block: a TCB, a CYCCB or an      *)
(* ALMCB.                                                                  *)
ASSUME TimerEventsAssumption ==
    /\ TIMER_PERIOD \in Nat \ {0} /\ RelTimes \subseteq Nat \ {0}
    /\ TimerTasks \cap Cycs = {} /\ TimerTasks \cap Alms = {}
    /\ Cycs \cap Alms = {}

VARIABLES current_time, \* the time of the last timer interrupt
          elapsed,      \* adjust_time(): the time since then
          handling,     \* where the timer interrupt stands
          timer_queue,  \* the queued events
          tmeb,         \* the time field of each event
          waits,        \* whether each task waits, and with a timeout
          cyc,          \* the CYCCBs
          alm,          \* the ALMCBs
          due           \* history: when an event may happen at the earliest

timervars == <<current_time, elapsed, handling, timer_queue, tmeb, waits, cyc, alm, due>>

Events == TimerTasks \cup Cycs \cup Alms

NoCyc == [cychdr |-> FALSE, phs |-> FALSE, sta |-> FALSE, cyctim |-> 1]
NoAlm == [almhdr |-> FALSE, sta |-> FALSE]

RealTime == current_time + elapsed

-----------------------------------------------------------------------------
(* Definitions marked "fault" are not the code: each is a plausible mistake *)
(* in the definition that follows it.                                      *)

(* fault: behind all others *)
EnqueueLast(q, e, tm) == Append(q, e)

(* Behind the events of the same or an earlier time *)
enqueue_tmeb(q, e, tm) ==
    LET notLater == {i \in DOMAIN q : \A j \in 1 .. i : tmeb[q[j]] <= tm}
    IN  InsertAt(q, Cardinality(notLater) + 1, e)

(* timer_insert, timer_insert_reltim and timer_insert_abs: q is the queue  *)
(* before, and from the time at which e may happen.                        *)
Insert(q, e, tm, from) ==
    /\ timer_queue' = enqueue_tmeb(q, e, tm)
    /\ tmeb' = [tmeb EXCEPT ![e] = tm]
    /\ due' = [due EXCEPT ![e] = from]

(* timer_delete *)
Delete(e) ==
    /\ timer_queue' = RemoveFirst(timer_queue, e)
    /\ tmeb' = [tmeb EXCEPT ![e] = 0]
    /\ due' = [due EXCEPT ![e] = 0]

(* fault: the time since the last interrupt is not counted *)
FromInterrupt(reltim) == current_time + reltim

FromNow(reltim) == current_time + reltim + elapsed

(* Calls that handlers make, too *)
Called == handling # "loop"

(* Tasks run when no interrupt is handled. *)
ByTask == handling = "idle"

-----------------------------------------------------------------------------
(* make_wait, make_wait_reltim: with TMO_FEVR the event is not queued. *)
Wait(t) ==
    /\ ByTask /\ waits[t] = "no"
    /\ \/ \E reltim \in RelTimes :
            /\ waits' = [waits EXCEPT ![t] = "tmout"]
            /\ Insert(timer_queue, t, FromNow(reltim), RealTime + reltim)
       \/ /\ waits' = [waits EXCEPT ![t] = "forever"]
          /\ UNCHANGED <<timer_queue, tmeb, due>>
    /\ UNCHANGED <<current_time, elapsed, handling, cyc, alm>>

(* wait_release before the timeout; the event of an endless wait is linked *)
(* to itself.                                                              *)
Release(t) ==
    /\ Called /\ waits[t] # "no"
    /\ waits' = [waits EXCEPT ![t] = "no"]
    /\ Delete(t)
    /\ UNCHANGED <<current_time, elapsed, handling, cyc, alm>>

(* The first time after tm, in steps of the cycle, that lies in the future *)
cyc_next_time(tm, cyctim) ==
    IF tm + cyctim > current_time THEN tm + cyctim
    ELSE tm + ((current_time - tm) \div cyctim + 1) * cyctim

(* With TA_STA the handler is started, and called at once if the phase is  *)
(* 0; without it only its time is noted.                                   *)
tk_cre_cyc(c, phs, sta, cyctim, cycphs) ==
    LET tm == FromNow(cycphs)
    IN  /\ Called /\ ~cyc[c].cychdr
        /\ cyc' = [cyc EXCEPT ![c] = [cychdr |-> TRUE, phs |-> phs, sta |-> sta,
                                      cyctim |-> cyctim]]
        /\ \/ /\ sta /\ cycphs = 0
              /\ Insert(timer_queue, c, cyc_next_time(tm, cyctim), RealTime + cyctim)
           \/ /\ sta /\ cycphs > 0
              /\ Insert(timer_queue, c, tm, RealTime + cycphs)
           \/ /\ ~sta
              /\ tmeb' = [tmeb EXCEPT ![c] = tm]
              /\ due' = [due EXCEPT ![c] = RealTime + cycphs]
              /\ UNCHANGED timer_queue
        /\ UNCHANGED <<current_time, elapsed, handling, waits, alm>>

tk_del_cyc(c) ==
    /\ Called /\ cyc[c].cychdr
    /\ cyc' = [cyc EXCEPT ![c] = NoCyc]
    /\ Delete(c)
    /\ UNCHANGED <<current_time, elapsed, handling, waits, alm>>

(* TA_PHS: the phase goes on.  Else the handler starts anew. *)
tk_sta_cyc(c) ==
    /\ Called /\ cyc[c].cychdr
    /\ cyc' = [cyc EXCEPT ![c].sta = TRUE]
    /\ \/ /\ cyc[c].phs /\ cyc[c].sta
          /\ UNCHANGED <<timer_queue, tmeb, due>>
       \/ /\ cyc[c].phs /\ ~cyc[c].sta
          /\ LET tm == IF tmeb[c] > current_time THEN tmeb[c]
                       ELSE cyc_next_time(tmeb[c], cyc[c].cyctim)
             IN  Insert(timer_queue, c, tm, due[c])
       \/ /\ ~cyc[c].phs
          /\ Insert(IF cyc[c].sta THEN RemoveFirst(timer_queue, c) ELSE timer_queue,
                    c, FromNow(cyc[c].cyctim), RealTime + cyc[c].cyctim)
    /\ UNCHANGED <<current_time, elapsed, handling, waits, alm>>

(* The time of a stopped handler stays. *)
tk_stp_cyc(c) ==
    /\ Called /\ cyc[c].cychdr
    /\ cyc' = [cyc EXCEPT ![c].sta = FALSE]
    /\ timer_queue' = IF cyc[c].sta THEN RemoveFirst(timer_queue, c) ELSE timer_queue
    /\ UNCHANGED <<current_time, elapsed, handling, tmeb, waits, alm, due>>

tk_cre_alm(a) ==
    /\ Called /\ ~alm[a].almhdr
    /\ alm' = [alm EXCEPT ![a].almhdr = TRUE]
    /\ UNCHANGED <<current_time, elapsed, handling, timer_queue, tmeb, waits, cyc, due>>

tk_del_alm(a) ==
    /\ Called /\ alm[a].almhdr
    /\ alm' = [alm EXCEPT ![a] = NoAlm]
    /\ Delete(a)
    /\ UNCHANGED <<current_time, elapsed, handling, waits, cyc>>

(* The old setting goes.  With time 0 the handler is called at once. *)
tk_sta_alm(a, almtim) ==
    /\ Called /\ alm[a].almhdr
    /\ alm' = [alm EXCEPT ![a].sta = almtim > 0]
    /\ \/ /\ almtim > 0
          /\ Insert(RemoveFirst(timer_queue, a), a, FromNow(almtim), RealTime + almtim)
       \/ /\ almtim = 0
          /\ Delete(a)
    /\ UNCHANGED <<current_time, elapsed, handling, waits, cyc>>

tk_stp_alm(a) ==
    /\ Called /\ alm[a].almhdr /\ alm[a].sta
    /\ alm' = [alm EXCEPT ![a].sta = FALSE]
    /\ Delete(a)
    /\ UNCHANGED <<current_time, elapsed, handling, waits, cyc>>

-----------------------------------------------------------------------------
(* Time passes; the timer interrupt may stay pending for a period, but     *)
(* none is lost (the range of get_hw_timer_usec).                          *)
Pass ==
    /\ elapsed < 2 * TIMER_PERIOD - 1
    /\ elapsed' = elapsed + 1
    /\ UNCHANGED <<current_time, handling, timer_queue, tmeb, waits, cyc, alm, due>>

(* timer_handler begins; from now on the period that is over no longer     *)
(* counts as elapsed.                                                      *)
TimerInterrupt ==
    /\ handling = "idle" /\ elapsed >= TIMER_PERIOD
    /\ current_time + TIMER_PERIOD <= MaxTime
    /\ current_time' = current_time + TIMER_PERIOD
    /\ elapsed' = elapsed - TIMER_PERIOD
    /\ handling' = "loop"
    /\ UNCHANGED <<timer_queue, tmeb, waits, cyc, alm, due>>

IsDue == timer_queue # <<>> /\ tmeb[Head(timer_queue)] <= current_time

(* One round of the loop: wait_release_tmout, call_cychdr or call_almhdr,  *)
(* the latter two up to the call of the user's handler                     *)
HandleEvent ==
    LET e == Head(timer_queue)
    IN  /\ handling = "loop" /\ IsDue
        /\ \/ /\ e \in TimerTasks
              /\ waits' = [waits EXCEPT ![e] = "no"]
              /\ Delete(e)
              /\ UNCHANGED <<handling, cyc, alm>>
           \/ /\ e \in Cycs
              /\ Insert(Tail(timer_queue), e, cyc_next_time(tmeb[e], cyc[e].cyctim),
                        due[e] + cyc[e].cyctim)
              /\ handling' = "handler"
              /\ UNCHANGED <<waits, cyc, alm>>
           \/ /\ e \in Alms
              /\ alm' = [alm EXCEPT ![e].sta = FALSE]
              /\ Delete(e)
              /\ handling' = "handler"
              /\ UNCHANGED <<waits, cyc>>
        /\ UNCHANGED <<current_time, elapsed>>

(* The user's handler returns; the loop ends. *)
HandlerReturns ==
    /\ handling = "handler"
    /\ handling' = "loop"
    /\ UNCHANGED <<current_time, elapsed, timer_queue, tmeb, waits, cyc, alm, due>>

EndOfInterrupt ==
    /\ handling = "loop" /\ ~IsDue
    /\ handling' = "idle"
    /\ UNCHANGED <<current_time, elapsed, timer_queue, tmeb, waits, cyc, alm, due>>

TimerInit ==
    /\ current_time = 0 /\ elapsed = 0
    /\ handling = "idle"
    /\ timer_queue = <<>>
    /\ tmeb = [e \in Events |-> 0]
    /\ waits = [t \in TimerTasks |-> "no"]
    /\ cyc = [c \in Cycs |-> NoCyc]
    /\ alm = [a \in Alms |-> NoAlm]
    /\ due = [e \in Events |-> 0]

TimerNext ==
    \/ Pass \/ TimerInterrupt \/ HandleEvent \/ HandlerReturns \/ EndOfInterrupt
    \/ \E t \in TimerTasks : Wait(t) \/ Release(t)
    \/ \E c \in Cycs :
        \/ \E phs, sta \in BOOLEAN, cyctim \in RelTimes, cycphs \in RelTimes \cup {0} :
            tk_cre_cyc(c, phs, sta, cyctim, cycphs)
        \/ tk_del_cyc(c) \/ tk_sta_cyc(c) \/ tk_stp_cyc(c)
    \/ \E a \in Alms :
        \/ tk_cre_alm(a) \/ tk_del_alm(a) \/ tk_stp_alm(a)
        \/ \E almtim \in RelTimes \cup {0} : tk_sta_alm(a, almtim)

TimerSpec == TimerInit /\ [][TimerNext]_timervars

-----------------------------------------------------------------------------
Started ==
    {t \in TimerTasks : waits[t] = "tmout"}
    \cup {c \in Cycs : cyc[c].sta} \cup {a \in Alms : alm[a].sta}

(* What is started is queued, once, and nothing else is, so that no call   *)
(* unlinks an event that is not linked; and when the timer interrupt is    *)
(* over nothing that was due is left, whatever its handlers started,       *)
(* stopped and deleted.                                                    *)
QueuedExactly ==
    /\ IsInjective(timer_queue) /\ ToSet(timer_queue) = Started
    /\ handling = "idle" => \A e \in Started : tmeb[e] > current_time

(* Nothing happens before its time: a timeout, an alarm and the first call *)
(* of a cyclic handler come no earlier than asked for, to the microsecond  *)
(* between two interrupts; and cyclic calls keep their distance and phase, *)
(* also after a pause and after calls that had to be left out.             *)
NeverEarly ==
    /\ \A e \in ToSet(timer_queue) : tmeb[e] <= current_time => due[e] <= RealTime
    /\ \A c \in Cycs : cyc[c].sta =>
            /\ tmeb[c] >= due[c]
            /\ (tmeb[c] - due[c]) % cyc[c].cyctim = 0
=============================================================================
