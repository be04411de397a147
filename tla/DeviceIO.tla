------------------------------ MODULE DeviceIO -------------------------------
(***************************************************************************)
(* Opening, closing, reading and writing of one device                     *)
(* (kernel/sysmgr/src/deviceio.c).  A step is a section under the lock of  *)
(* device management, or one of the waits and driver calls between them.   *)
(* Tasks that open or close queue up in syncq; a task that closes first    *)
(* has the driver end the requests of other tasks, and sleeps meanwhile.   *)
(*                                                                         *)
(* The device has one unit and no TDA_OPENREQ, any open mode is allowed,   *)
(* and all tasks are in one resource group.                                *)
(***************************************************************************)
EXTENDS Integers, SequencesExt

CONSTANTS DevTasks, \* the tasks that use the device
          Opens,    \* the blocks of OpnCBtbl
          Reqs,     \* the blocks of ReqCBtbl
          NoTask, NoOpen,
          MinSync   \* bound on how far syncreq falls

ASSUME DeviceIOAssumption ==
    /\ IsFiniteSet(DevTasks) /\ IsFiniteSet(Reqs)
    /\ NoTask \notin DevTasks /\ NoOpen \notin Opens

VARIABLES opn,      \* OpnCBtbl
          req,      \* ReqCBtbl; a free block has no opncb
          openq,    \* DevCB.openq: the opens that are in use
          syncq,    \* DevCB.syncq: the tasks that open or close
          disabled, \* the tasks whose semaphore waits tk_dis_wai has disabled
          at,       \* where each task stands, with its local variables
          told,     \* the tasks whose driver call abortfn has been asked to end
          driver,   \* the driver is open
          disturbed, \* history: an early wakeup was not used up, or a wait
                    \* was ended from outside of device management
          uncounted \* history: disturbed, or a wait for any request
                    \* overlapped another call, which a close does not count

history == <<disturbed, uncounted>>

devvars == <<opn, req, openq, syncq, disabled, at, told, driver, history>>

(* newOpnCB; resid is 0 until the open is completed, and -1 in a close *)
NewOpen == [resid |-> 0, syncreq |-> 0, waitone |-> 0, nwaireq |-> 0,
            abort_tskid |-> NoTask, abort_cnt |-> 0]

FreeReq == [opncb |-> NoOpen, tskid |-> NoTask]

(* pc: "openSync" and "closeSync" wait in syncq, "opening" and "closing"   *)
(* call the driver; "exec" is in execfn, "executed" between the two halves *)
(* of a synchronous request, "wait" in waitfn; the others are steps of     *)
(* abort_allrequest.                                                       *)
Outside == [pc |-> "out", opn |-> NoOpen, reqs |-> {}, sync |-> FALSE,
            any |-> FALSE, call |-> FALSE]

DevInit ==
    /\ opn = [o \in Opens |-> NewOpen]
    /\ req = [r \in Reqs |-> FreeReq]
    /\ openq = {}
    /\ syncq = <<>>
    /\ disabled = {}
    /\ at = [t \in DevTasks |-> Outside]
    /\ told = {}
    /\ driver = FALSE
    /\ disturbed = FALSE
    /\ uncounted = FALSE

Is(t, pc) == at[t].pc = pc
Goes(t, pc) == at' = [at EXCEPT ![t].pc = pc]
Leaves(t) == at' = [at EXCEPT ![t] = Outside]
Requests(o) == {r \in Reqs : req[r].opncb = o}

-----------------------------------------------------------------------------
(* Definitions marked "fault" are not the code: each is a plausible mistake *)
(* in the definition that follows it.                                      *)

(* enterSyncWait: the first in the queue goes on, the others call          *)
(* SyncWaitDM.                                                             *)
enterSyncWait(t) == syncq' = Append(syncq, t)

Remaining(t) == RemoveFirst(syncq, t)

(* The task leaveSyncWait wakes up: the one that is then the first *)
NextInSync(t) == IF Remaining(t) = <<>> THEN {} ELSE {Head(Remaining(t))}

(* leaveSyncWait with SyncSignalDM *)
leaveSyncWait(t) ==
    /\ syncq' = Remaining(t)
    /\ disabled' = disabled \cup NextInSync(t)

Asleep(t) == at[t].pc \in {"openSync", "closeSync", "abortSync"}

(* SyncWaitDM: the wait for DevMgrSync, whose count is always 0, ends when *)
(* waits are disabled, or fails if they were already; both enable them.    *)
(* The result is not looked at: the task goes on in any case.              *)
SyncWait(t) ==
    /\ t \in disabled
    /\ disabled' = disabled \ {t}
    /\ \/ Is(t, "openSync") /\ Goes(t, "openNext")
       \/ Is(t, "closeSync") /\ Goes(t, "closeNext")
       \/ Is(t, "abortSync") /\ Goes(t, "abortEnd")
    /\ UNCHANGED <<opn, req, openq, syncq, told, driver, history>>

(* tk_rel_wai, or tk_dis_wai, for a task in SyncWaitDM by somebody who is  *)
(* not device management: the wait ends as SyncSignalDM would have ended   *)
(* it, since the task enables waits next and does not look at E_RLWAI.     *)
ReleaseWait(t) ==
    /\ Asleep(t) /\ t \notin disabled
    /\ disabled' = disabled \cup {t}
    /\ disturbed' = TRUE /\ uncounted' = TRUE
    /\ UNCHANGED <<opn, req, openq, syncq, at, told, driver>>

-----------------------------------------------------------------------------
(* _tk_opn_dev until SyncWaitDM *)
OpenStart(t, o) ==
    /\ Is(t, "out")
    /\ o \notin openq
    /\ opn' = [opn EXCEPT ![o] = NewOpen]
    /\ openq' = openq \cup {o}
    /\ enterSyncWait(t)
    /\ at' = [at EXCEPT ![t].opn = o,
                        ![t].pc = IF syncq = <<>> THEN "openNext" ELSE "openSync"]
    /\ UNCHANGED <<req, disabled, told, driver, history>>

(* fault: an open that is not completed counts *)
ChkopenAll(t) == \E o \in openq \ {at[t].opn} : TRUE

(* chkopen: somebody else has the device open, or is closing it *)
chkopen(t) == \E o \in openq \ {at[t].opn} : opn[o].resid # 0

(* Is the device driver call required? *)
OpenNext(t) ==
    /\ Is(t, "openNext")
    /\ at' = [at EXCEPT ![t].pc = "opening", ![t].call = ~chkopen(t)]
    /\ UNCHANGED <<opn, req, openq, syncq, disabled, told, driver, history>>

(* The driver opens the device or refuses. *)
OpenEnd(t) ==
    LET o == at[t].opn
    IN  /\ Is(t, "opening")
        /\ \/ /\ opn' = [opn EXCEPT ![o].resid = 1]
              /\ driver' = (driver \/ at[t].call)
              /\ UNCHANGED openq
           \/ /\ at[t].call
              /\ openq' = openq \ {o}
              /\ UNCHANGED <<opn, driver>>
        /\ leaveSyncWait(t)
        /\ Leaves(t)
        /\ UNCHANGED <<req, told, history>>

-----------------------------------------------------------------------------
(* request until execfn; only a synchronous one is refused while a task    *)
(* waits for any request.                                                  *)
RequestStart(t, o, r, sync) ==
    /\ Is(t, "out")
    /\ opn[o].resid = 1
    /\ opn[o].nwaireq > 0 => ~sync
    /\ req[r].opncb = NoOpen
    /\ opn' = [opn EXCEPT ![o].syncreq = @ + (IF sync THEN 1 ELSE 0)]
    /\ req' = [req EXCEPT ![r] = [opncb |-> o, tskid |-> t]]
    /\ at' = [at EXCEPT ![t] = [Outside EXCEPT !.pc = "exec", !.opn = o,
                                               !.reqs = {r}, !.sync = sync]]
    /\ uncounted' = (uncounted \/ opn[o].nwaireq > 0)
    /\ UNCHANGED <<openq, syncq, disabled, told, driver, disturbed>>

(* fault: the first of them wakes the task that closes *)
AnyAbort(o) == opn[o].abort_cnt >= 1

(* The last of the driver calls that a close has counted *)
LastAbort(o) == opn[o].abort_cnt = 1

(* If there is an abort completion wait task, notify abort completion: the *)
(* open after the return of a driver call, with its counts of requests     *)
(* changed by the record d                                                 *)
Notified(o, d) ==
    [opn[o] EXCEPT !.syncreq = @ - d.sync, !.waitone = @ - d.one,
                   !.nwaireq = IF d.any THEN 0 ELSE @,
                   !.abort_cnt = IF opn[o].abort_tskid # NoTask THEN @ - 1 ELSE @]

Notifies(o) ==
    disabled' = disabled \cup
        {u \in DevTasks : u = opn[o].abort_tskid /\ LastAbort(o)}

One(b) == IF b THEN 1 ELSE 0

(* execfn returns: the request is accepted, or refused and freed. *)
RequestEnd(t) ==
    LET o == at[t].opn
        s == at[t].sync
    IN  /\ Is(t, "exec")
        /\ Notifies(o)
        /\ \E ok \in BOOLEAN :
            /\ opn' = [opn EXCEPT ![o] =
                        Notified(o, [sync |-> One(s /\ ~ok), one |-> 0, any |-> FALSE])]
            /\ req' = [r \in Reqs |->
                        IF r \notin at[t].reqs THEN req[r]
                        ELSE IF ok THEN [req[r] EXCEPT !.tskid = NoTask] ELSE FreeReq]
            /\ IF ok /\ s THEN Goes(t, "executed") ELSE Leaves(t)
        /\ told' = told \ {t}
        /\ UNCHANGED <<openq, syncq, driver, history>>

-----------------------------------------------------------------------------
(* waitcomplete for one request may go to waitfn. *)
MayWait(o, r) ==
    /\ opn[o].resid = 1
    /\ req[r].opncb = o
    /\ opn[o].nwaireq = 0 /\ req[r].tskid = NoTask

WaitOne(t, o, r) ==
    /\ MayWait(o, r)
    /\ \/ Is(t, "out") /\ at' = [at EXCEPT ![t] =
            [Outside EXCEPT !.pc = "wait", !.opn = o, !.reqs = {r}]]
       \/ Is(t, "executed") /\ at[t].opn = o /\ r \in at[t].reqs /\ Goes(t, "wait")
    /\ req' = [req EXCEPT ![r].tskid = t]
    /\ opn' = [opn EXCEPT ![o].waitone = @ + 1]
    /\ UNCHANGED <<openq, syncq, disabled, told, driver, history>>

(* A synchronous request whose second half is refused: syncreq is counted  *)
(* down.  If check_devdesc refused, opncb has no value: some block is      *)
(* changed, or memory outside of the table.                                *)
WaitRefused(t) ==
    /\ Is(t, "executed")
    /\ \A r \in at[t].reqs : ~MayWait(at[t].opn, r)
    /\ LET wild == {{}} \cup {{o} : o \in {o \in Opens : opn[o].syncreq > MinSync}}
           counted == IF opn[at[t].opn].resid = 1 THEN {{at[t].opn}} ELSE wild
       IN  \E os \in counted :
            opn' = [o \in Opens |-> IF o \in os THEN [opn[o] EXCEPT !.syncreq = @ - 1]
                                    ELSE opn[o]]
    /\ Leaves(t)
    /\ UNCHANGED <<req, openq, syncq, disabled, told, driver, history>>

(* waitcomplete for any of the requests, also one that is still in execfn; *)
(* the counts are unsigned in the code, so those that fell below 0 are not *)
(* 0 either.                                                               *)
WaitAny(t, o) ==
    /\ Is(t, "out")
    /\ opn[o].resid = 1
    /\ opn[o].nwaireq = 0 /\ opn[o].waitone = 0 /\ opn[o].syncreq = 0
    /\ Requests(o) # {}
    /\ req' = [r \in Reqs |-> IF r \in Requests(o) THEN [req[r] EXCEPT !.tskid = t]
                              ELSE req[r]]
    /\ opn' = [opn EXCEPT ![o].nwaireq = Cardinality(Requests(o))]
    /\ at' = [at EXCEPT ![t] = [Outside EXCEPT !.pc = "wait", !.opn = o,
                                  !.reqs = Requests(o), !.any = TRUE]]
    /\ uncounted' = (uncounted \/ \E r \in Requests(o) : req[r].tskid # NoTask)
    /\ UNCHANGED <<openq, syncq, disabled, told, driver, disturbed>>

(* waitfn returns: one request is complete and freed, or none. *)
WaitEnd(t) ==
    LET o == at[t].opn
    IN  /\ Is(t, "wait")
        /\ Notifies(o)
        /\ opn' = [opn EXCEPT ![o] =
                    Notified(o, [sync |-> One(at[t].sync), one |-> One(~at[t].any),
                                 any |-> at[t].any])]
        /\ \E done \in {{}} \cup {{r} : r \in at[t].reqs} :
            req' = [r \in Reqs |->
                        IF r \in done THEN FreeReq
                        ELSE IF r \in at[t].reqs THEN [req[r] EXCEPT !.tskid = NoTask]
                        ELSE req[r]]
        /\ Leaves(t)
        /\ told' = told \ {t}
        /\ UNCHANGED <<openq, syncq, driver, history>>

-----------------------------------------------------------------------------
(* _tk_cls_dev *)
CloseStart(t, o) ==
    /\ Is(t, "out")
    /\ opn[o].resid = 1
    /\ opn' = [opn EXCEPT ![o].resid = -1]
    /\ at' = [at EXCEPT ![t].pc = "abort", ![t].opn = o]
    /\ UNCHANGED <<req, openq, syncq, disabled, told, driver, history>>

WaitsForAny(u, o) == Is(u, "wait") /\ at[u].any /\ at[u].opn = o

(* fault: each request is counted, also if one task waits for all of them  *)
AbortEach(o) == Cardinality({r \in Requests(o) : req[r].tskid # NoTask})

(* The driver calls that are asked to end: one that waits for any request, *)
(* or one for each request in process                                      *)
AbortCalls(o) == IF opn[o].nwaireq > 0 THEN 1
                 ELSE Cardinality({r \in Requests(o) : req[r].tskid # NoTask})

(* The tasks in these calls: while a task waits for any request, a call of *)
(* execfn is left alone.                                                   *)
AbortedTasks(o) ==
    IF opn[o].nwaireq > 0 THEN {u \in DevTasks : WaitsForAny(u, o)}
    ELSE {req[r].tskid : r \in Requests(o)} \ {NoTask}

(* abort_allrequest, first section: abortfn for all of them *)
Abort(t) ==
    LET o == at[t].opn
    IN  /\ Is(t, "abort")
        /\ opn' = [opn EXCEPT ![o].abort_tskid = t, ![o].abort_cnt = AbortCalls(o)]
        /\ told' = told \cup AbortedTasks(o)
        /\ Goes(t, "abortLook")
        /\ UNCHANGED <<req, openq, syncq, disabled, driver, history>>

(* abort_cnt is read after the lock was given up: if the last completion   *)
(* has come already, its SyncSignalDM stays in force.                      *)
AbortLook(t) ==
    LET sleeps == opn[at[t].opn].abort_cnt > 0
        early  == ~sleeps /\ t \in disabled
    IN  /\ Is(t, "abortLook")
        /\ Goes(t, IF sleeps THEN "abortSync" ELSE "abortEnd")
        /\ disturbed' = (disturbed \/ early)
        /\ uncounted' = (uncounted \/ early)
        /\ UNCHANGED <<opn, req, openq, syncq, disabled, told, driver>>

AbortEnd(t) ==
    /\ Is(t, "abortEnd")
    /\ opn' = [opn EXCEPT ![at[t].opn].abort_tskid = NoTask]
    /\ Goes(t, "drain")
    /\ UNCHANGED <<req, openq, syncq, disabled, told, driver, history>>

(* Remaining requests: waitfn is called for one after the other. *)
Drain(t, r) ==
    /\ Is(t, "drain") /\ r \in Requests(at[t].opn)
    /\ at' = [at EXCEPT ![t].pc = "draining", ![t].reqs = {r}]
    /\ UNCHANGED <<opn, req, openq, syncq, disabled, told, driver, history>>

DrainEnd(t) ==
    /\ Is(t, "draining")
    /\ req' = [r \in Reqs |-> IF r \in at[t].reqs THEN FreeReq ELSE req[r]]
    /\ at' = [at EXCEPT ![t].pc = "drain", ![t].reqs = {}]
    /\ UNCHANGED <<opn, openq, syncq, disabled, told, driver, history>>

(* close_device after abort_allrequest, until SyncWaitDM *)
CloseQueue(t) ==
    /\ Is(t, "drain") /\ Requests(at[t].opn) = {}
    /\ enterSyncWait(t)
    /\ Goes(t, IF syncq = <<>> THEN "closeNext" ELSE "closeSync")
    /\ UNCHANGED <<opn, req, openq, disabled, told, driver, history>>

CloseNext(t) ==
    /\ Is(t, "closeNext")
    /\ at' = [at EXCEPT ![t].pc = "closing", ![t].call = ~chkopen(t)]
    /\ UNCHANGED <<opn, req, openq, syncq, disabled, told, driver, history>>

(* closefn returns; delOpnCB *)
CloseEnd(t) ==
    /\ Is(t, "closing")
    /\ driver' = (driver /\ ~at[t].call)
    /\ opn' = [opn EXCEPT ![at[t].opn] = NewOpen]
    /\ openq' = openq \ {at[t].opn}
    /\ leaveSyncWait(t)
    /\ Leaves(t)
    /\ UNCHANGED <<req, told, history>>

-----------------------------------------------------------------------------
InDriver(t) == at[t].pc \in {"exec", "wait"}

(* While the driver works for a task, the blocks it returns to are its own.*)
(* If not, they are used for two things at once: the model stops there.    *)
Served ==
    \A t \in DevTasks : InDriver(t) =>
        /\ at[t].opn \in openq
        /\ \A r \in at[t].reqs : req[r] = [opncb |-> at[t].opn, tskid |-> t]

DevNext ==
    /\ Served
    /\ \E t \in DevTasks :
        \/ SyncWait(t) \/ ReleaseWait(t)
        \/ \E o \in Opens : \/ OpenStart(t, o) \/ CloseStart(t, o) \/ WaitAny(t, o)
                            \/ \E r \in Reqs :
                                \/ WaitOne(t, o, r)
                                \/ \E sync \in BOOLEAN : RequestStart(t, o, r, sync)
        \/ OpenNext(t) \/ OpenEnd(t)
        \/ RequestEnd(t) \/ WaitRefused(t) \/ WaitEnd(t)
        \/ Abort(t) \/ AbortLook(t) \/ AbortEnd(t)
        \/ (\E r \in Reqs : Drain(t, r)) \/ DrainEnd(t)
        \/ CloseQueue(t) \/ CloseNext(t) \/ CloseEnd(t)

DevSpec == DevInit /\ [][DevNext]_devvars

-----------------------------------------------------------------------------
Processing(t) == at[t].pc \in {"openNext", "opening", "closeNext", "closing"}

(* The driver is open exactly while the device is open for some task:      *)
(* opens and closes that overlap, fail, or abort requests never leave an   *)
(* open descriptor of a closed driver, or the reverse.  This needs that    *)
(* tasks process one at a time.  It holds until a close is overtaken by    *)
(* the wakeup it was about to wait for, or a wait in SyncWaitDM is ended   *)
(* from outside: each leaves a wakeup that lets a task pass its turn.      *)
DriverMatches ==
    ~disturbed =>
        /\ \A t, u \in DevTasks : Processing(t) /\ Processing(u) => t = u
        /\ (\A t \in DevTasks : ~Processing(t))
            => (driver <=> \E o \in openq : opn[o].resid # 0)

(* While the driver works on a request, nobody else frees the request or   *)
(* waits for it, and the open is not freed: a close waits for each of the  *)
(* calls it has counted.  It holds until a wakeup comes too early, as      *)
(* above, and until a wait for any request overlaps the start of another:  *)
(* such a wait takes the request from the task in execfn, or the close     *)
(* wakes up when the first of the two calls returns.                       *)
InService == ~uncounted => Served

(* No lost wakeup: who sleeps in SyncWaitDM behind others has a first in   *)
(* the queue that works or has been woken; a close that sleeps waits for   *)
(* driver calls that have been asked to end and that will wake it, also    *)
(* after wakeups that came early, releases from outside, and requests that *)
(* overlap a wait for any.                                                 *)
SleepersAreWoken ==
    \A t \in DevTasks \ disabled :
        /\ at[t].pc \in {"openSync", "closeSync"} =>
                Processing(Head(syncq)) \/ Head(syncq) \in disabled
        /\ at[t].pc = "abortSync" =>
                LET o == at[t].opn
                IN  /\ opn[o].abort_tskid = t
                    /\ opn[o].abort_cnt \in 1 .. Cardinality(
                            {u \in told : InDriver(u) /\ at[u].opn = o})
=============================================================================
