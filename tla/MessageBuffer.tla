--------------------------- MODULE MessageBuffer ----------------------------
(***************************************************************************)
(* A message buffer (messagebuf.c): a ring of words that holds messages of *)
(* different sizes behind their headers, a queue of tasks that wait to     *)
(* send and one of tasks that wait to receive.                             *)
(*                                                                         *)
(* A step is one system call, or the end of one wait.  A message is an     *)
(* identity with a size; the ring holds, word by word, the size or a part  *)
(* of a message.  A word that was read is forgotten.                       *)
(***************************************************************************)
EXTENDS WaitQueue

CONSTANTS Msgs,     \* the messages; each is in the system once at most
          MsgSize,  \* their sizes, in bytes
          BufSizes, \* the sizes of buffers that are asked for
          Nothing

(* A message has a byte at least (CHECK_PAR of tk_snd_mbf). *)
ASSUME MessageBufferAssumption ==
    /\ MsgSize \in [Msgs -> Nat \ {0}]
    /\ BufSizes \subseteq Nat
    /\ Nothing \notin Msgs

VARIABLES msg,       \* winfo.smbf.msg of a task that waits to send, or Nothing
          mbf,       \* the MBFCB
          delivered  \* history: the message a task received in the last step

mbfvars == <<priority, msg, mbf, delivered>>

HEADERSZ == 4
ROUNDSZ(sz) == ((sz + 3) \div 4) * 4

Words(sz) == {i \in 0 .. sz - 1 : i % 4 = 0}

NoMbf == [mbfid |-> FALSE, tpri |-> FALSE, bufsz |-> 0, frbufsz |-> 0,
          head |-> 0, tail |-> 0, buffer |-> [i \in Words(0) |-> <<>>],
          send_queue |-> <<>>, recv_queue |-> <<>>]

Sending(t) == t \in ToSet(mbf.send_queue)
Receiving(t) == t \in ToSet(mbf.recv_queue)

-----------------------------------------------------------------------------
(* Definitions marked "fault" are not the code: each is a plausible mistake *)
(* in the definition that follows it.                                      *)

mbf_free(b, msgsz) == HEADERSZ + msgsz <= b.frbufsz
mbf_empty(b) == b.frbufsz = b.bufsz

Wrapped(b, at) == IF at >= b.bufsz THEN 0 ELSE at

(* fault: the second part is taken for as long as the first *)
AfterCopyOfTwo(b, at, msgsz) ==
    LET remsz == b.bufsz - at
    IN  IF remsz < msgsz THEN Wrapped(b, ROUNDSZ(remsz))
        ELSE Wrapped(b, at + ROUNDSZ(msgsz))

(* The place behind a message that is copied to or from the place at, in   *)
(* two parts if it does not fit before the end of the ring, and the place  *)
(* of its word k                                                           *)
AfterCopy(b, at, msgsz) ==
    LET remsz == b.bufsz - at
    IN  IF remsz < msgsz THEN Wrapped(b, ROUNDSZ(msgsz - remsz))
        ELSE Wrapped(b, at + ROUNDSZ(msgsz))

PlaceOf(b, at, msgsz, k) ==
    LET remsz == b.bufsz - at
    IN  IF remsz < msgsz /\ k >= remsz THEN k - remsz ELSE at + k

msg_to_mbf(b, m) ==
    LET text  == Wrapped(b, b.tail + HEADERSZ)
        Here(i) == {k \in Words(MsgSize[m]) : PlaceOf(b, text, MsgSize[m], k) = i}
    IN  [b EXCEPT
            !.frbufsz = @ - (HEADERSZ + ROUNDSZ(MsgSize[m])),
            !.buffer = [i \in Words(b.bufsz) |->
                            IF i = b.tail THEN <<MsgSize[m]>>
                            ELSE IF Here(i) # {} THEN <<m, Max(Here(i))>>
                            ELSE @[i]],
            !.tail = AfterCopy(b, text, MsgSize[m])]

(* The message whose header is at the place at, or Nothing if there is no  *)
(* header or the words that follow are not those of one message            *)
MessageAt(b, at) ==
    LET text  == Wrapped(b, at + HEADERSZ)
        Match == {m \in Msgs :
                    /\ b.buffer[at] = <<MsgSize[m]>>
                    /\ \A k \in Words(MsgSize[m]) :
                        b.buffer[PlaceOf(b, text, MsgSize[m], k)] = <<m, k>>}
    IN  IF Match = {} THEN Nothing ELSE CHOOSE m \in Match : TRUE

mbf_to_msg(b) ==
    LET msgsz == b.buffer[b.head][1]
        text  == Wrapped(b, b.head + HEADERSZ)
        read  == {b.head} \cup {PlaceOf(b, text, msgsz, k) : k \in Words(msgsz)}
    IN  [b EXCEPT
            !.frbufsz = @ + HEADERSZ + ROUNDSZ(msgsz),
            !.buffer = [i \in Words(b.bufsz) |-> IF i \in read THEN <<>> ELSE @[i]],
            !.head = AfterCopy(b, text, msgsz)]

(* One round of mbf_wakeup: the message of the first sender is stored, if  *)
(* there is room.                                                          *)
StoreNext(b) ==
    LET top == Head(b.send_queue)
    IN  IF b.send_queue = <<>> \/ ~mbf_free(b, MsgSize[msg[top]]) THEN b
        ELSE [msg_to_mbf(b, msg[top]) EXCEPT !.send_queue = Tail(@)]

mbf_wakeup(b) ==
    LET round[i \in 0 .. Len(b.send_queue)] ==
            IF i = 0 THEN b ELSE StoreNext(round[i - 1])
    IN  round[Len(b.send_queue)]

(* fault: the senders behind the one that goes are left alone *)
LeaveSenders(b) == b

(* mbf_chg_pri after the place in the queue is adjusted, and mbf_rel_wai *)
Resend(b) == mbf_wakeup(b)

MbfBecomes(b, m) ==
    /\ mbf' = b
    /\ msg' = [t \in Tasks |-> IF t \in ToSet(b.send_queue) THEN msg[t] ELSE Nothing]
    /\ delivered' = m
    /\ UNCHANGED priority

tk_cre_mbf(tpri, sz) ==
    LET bufsz == ROUNDSZ(sz)
    IN  /\ ~mbf.mbfid
        /\ MbfBecomes([NoMbf EXCEPT !.mbfid = TRUE, !.tpri = tpri,
                             !.bufsz = bufsz, !.frbufsz = bufsz,
                             !.buffer = [i \in Words(bufsz) |-> <<>>]], Nothing)

tk_del_mbf == mbf.mbfid /\ MbfBecomes(NoMbf, Nothing)

(* The messages that are stored or offered *)
InUse ==
    {m \in Msgs : \E t \in Tasks : msg[t] = m}
    \cup {m \in Msgs : \E i \in DOMAIN mbf.buffer : \E k \in Words(MsgSize[m]) :
                            mbf.buffer[i] = <<m, k>>}

ToReceiver(m) ==
    /\ mbf.recv_queue # <<>>
    /\ MbfBecomes([mbf EXCEPT !.recv_queue = Tail(@)], m)

ToBuffer(m) ==
    /\ mbf.recv_queue = <<>> /\ mbf_free(mbf, MsgSize[m])
    /\ MbfBecomes(msg_to_mbf(mbf, m), Nothing)

MayStore(t) == gcb_top_of_wait_queue(mbf.send_queue, t, priority, mbf.tpri) = t

tk_snd_mbf(t, m) ==
    /\ mbf.mbfid /\ ~Sending(t) /\ ~Receiving(t) /\ m \notin InUse
    /\ \/ ToReceiver(m)
       \/ MayStore(t) /\ ToBuffer(m)
       \/ /\ mbf.recv_queue = <<>>
          /\ ~(MayStore(t) /\ mbf_free(mbf, MsgSize[m]))
          /\ mbf' = [mbf EXCEPT
                        !.send_queue = gcb_make_wait(@, t, priority, mbf.tpri)]
          /\ msg' = [msg EXCEPT ![t] = m]
          /\ delivered' = Nothing
          /\ UNCHANGED priority

(* A handler does not wait: it sends at once, past the tasks that do.  *)
SendFromHandler(m) ==
    /\ mbf.mbfid /\ m \notin InUse
    /\ ToReceiver(m) \/ ToBuffer(m)

tk_rcv_mbf(t) ==
    /\ mbf.mbfid /\ ~Sending(t) /\ ~Receiving(t)
    /\ \/ /\ ~mbf_empty(mbf)
          /\ MbfBecomes(mbf_wakeup(mbf_to_msg(mbf)), MessageAt(mbf, mbf.head))
       \/ /\ mbf_empty(mbf) /\ mbf.send_queue # <<>>
          /\ MbfBecomes(mbf_wakeup([mbf EXCEPT !.send_queue = Tail(@)]),
                     msg[Head(mbf.send_queue)])
       \/ /\ mbf_empty(mbf) /\ mbf.send_queue = <<>>
          /\ MbfBecomes([mbf EXCEPT !.recv_queue = Append(@, t)], Nothing)

(* The end of a wait by timeout, release or termination: a receiver has no *)
(* hook.                                                                   *)
EndMbfWait(t) ==
    \/ /\ Sending(t)
       /\ MbfBecomes(Resend([mbf EXCEPT !.send_queue = RemoveFirst(@, t)]), Nothing)
    \/ /\ Receiving(t)
       /\ MbfBecomes([mbf EXCEPT !.recv_queue = RemoveFirst(@, t)], Nothing)

mbf_chg_pri(t, p) ==
    /\ priority' = [priority EXCEPT ![t] = p]
    /\ delivered' = Nothing
    /\ LET b == Resend([mbf EXCEPT
                     !.send_queue = gcb_change_priority(@, t, priority')])
       IN  \/ /\ Sending(t) /\ mbf.tpri
              /\ mbf' = b
              /\ msg' = [u \in Tasks |->
                            IF u \in ToSet(b.send_queue) THEN msg[u] ELSE Nothing]
           \/ ~(Sending(t) /\ mbf.tpri) /\ UNCHANGED <<msg, mbf>>

MbfInit ==
    /\ priority \in [Tasks -> Pri]
    /\ msg = [t \in Tasks |-> Nothing]
    /\ mbf = NoMbf
    /\ delivered = Nothing

MbfNext ==
    \/ \E tpri \in BOOLEAN, bufsz \in BufSizes : tk_cre_mbf(tpri, bufsz)
    \/ tk_del_mbf
    \/ \E m \in Msgs : SendFromHandler(m)
    \/ \E t \in Tasks :
        \/ \E m \in Msgs : tk_snd_mbf(t, m)
        \/ tk_rcv_mbf(t)
        \/ EndMbfWait(t)
        \/ \E p \in Pri : mbf_chg_pri(t, p)

MbfSpec == MbfInit /\ [][MbfNext]_mbfvars

-----------------------------------------------------------------------------
(* The messages in the ring, from the head on, as many words as frbufsz    *)
(* says there are.  None is shorter than a header.                         *)
NextStored ==
    [s \in [at : Nat, words : Nat, list : Seq(Msgs)] |->
        LET m    == MessageAt(mbf, s.at)
            size == HEADERSZ + ROUNDSZ(MsgSize[m])
        IN  IF m = Nothing \/ s.words < size THEN s
            ELSE [at    |-> AfterCopy(mbf, Wrapped(mbf, s.at + HEADERSZ), MsgSize[m]),
                  words |-> s.words - size,
                  list  |-> Append(s.list, m)]]

Stored ==
    LET most == mbf.bufsz \div HEADERSZ
        found[i \in 0 .. most] ==
            IF i = 0 THEN [at |-> mbf.head, words |-> mbf.bufsz - mbf.frbufsz, list |-> <<>>]
            ELSE NextStored[found[i - 1]]
    IN  found[most].list

Queue == INSTANCE MsgQueue WITH
    accepted <- Stored,
    offered  <- {msg[t] : t \in Tasks} \ {Nothing}

(* The ring, with its messages cut in two at its end, and the two queues   *)
(* behave as one queue of messages: nothing is lost, altered, repeated or  *)
(* overtaken once it is accepted.                                          *)
ImplementsMsgQueue == Queue!Spec

(* Nobody waits in vain: no task waits to receive while a message is       *)
(* stored or offered, and the first sender waits only because its message  *)
(* does not fit, whichever call, timeout or change of priority came last.  *)
NoIdleWait ==
    /\ mbf.recv_queue # <<>> => mbf_empty(mbf) /\ mbf.send_queue = <<>>
    /\ mbf.send_queue # <<>> => ~mbf_free(mbf, MsgSize[msg[Head(mbf.send_queue)]])
=============================================================================
