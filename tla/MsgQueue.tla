------------------------------ MODULE MsgQueue ------------------------------
(***************************************************************************)
(* What a message buffer promises to those who use it.  Messages that were *)
(* accepted are delivered in the order of acceptance, once each.  A        *)
(* message that does not fit is offered: it is accepted later, handed to   *)
(* a receiver when no accepted message is left, or withdrawn.              *)
(***************************************************************************)
EXTENDS SequencesExt

CONSTANTS Msgs, Nothing

VARIABLES accepted, \* the messages accepted and not yet delivered, in order
          offered,  \* the messages whose senders wait
          delivered \* the message that the last step gave to a receiver

vars == <<accepted, offered, delivered>>

Init == accepted = <<>> /\ offered = {} /\ delivered = Nothing

(* Some of the offers become accepted, behind what is left of the queue. *)
Accept(offers, rest, queue) ==
    LET batch == SubSeq(queue, Len(rest) + 1, Len(queue))
    IN  /\ IsPrefix(rest, queue)
        /\ IsInjective(batch) /\ ToSet(batch) \subseteq offers
        /\ offered' = offers \ ToSet(batch)

Send(m) ==
    /\ delivered' = Nothing
    /\ \/ offered' = offered \cup {m} /\ m \notin offered /\ UNCHANGED accepted
       \/ accepted' = Append(accepted, m) /\ UNCHANGED offered

SendToReceiver(m) ==
    /\ delivered' = m
    /\ accepted = <<>> /\ offered = {} /\ UNCHANGED <<accepted, offered>>

Receive ==
    /\ accepted # <<>> /\ delivered' = Head(accepted)
    /\ Accept(offered, Tail(accepted), accepted')

HandOver(m) ==
    /\ delivered' = m /\ m \in offered
    /\ accepted = <<>> /\ Accept(offered \ {m}, <<>>, accepted')

(* A sender stops waiting, or the order of the senders changes. *)
Withdraw ==
    /\ delivered' = Nothing
    /\ \E W \in {{}} \cup {{m} : m \in offered} :
        Accept(offered \ W, accepted, accepted')

Delete == accepted' = <<>> /\ offered' = {} /\ delivered' = Nothing

Next ==
    \/ \E m \in Msgs : Send(m) \/ SendToReceiver(m) \/ HandOver(m)
    \/ Receive \/ Withdraw \/ Delete

Spec == Init /\ [][Next]_vars
=============================================================================
