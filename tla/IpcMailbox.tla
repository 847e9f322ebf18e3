----------------------------- MODULE IpcMailbox -----------------------------
(***************************************************************************)
(* What ipc_send and ipc_receive promise their callers, without slots and  *)
(* scans: a mailbox of bounded capacity, shared by all tasks, from which a *)
(* task takes only what was sent to it, each message once.  Two sends of   *)
(* the same message are told apart by the tag of the envelope they travel  *)
(* in.  The order in which two messages to one task are taken is left      *)
(* open, as the code leaves it.                                            *)
(***************************************************************************)
EXTENDS Integers, FiniteSets

CONSTANTS Task, Payload, Tag, Capacity

VARIABLES
    box,    \* the envelopes sent and not yet received
    live,   \* the tasks a message may be sent to
    reply   \* what the last IPC call returned to its caller

Message  == [from : Task, to : Task, data : Payload]
Envelope == [tag : Tag, msg : Message]

Init ==
    /\ box = {}
    /\ live \in SUBSET Task
    /\ reply = [call |-> "none"]

Send(e) ==
    /\ e.msg.to \in live
    /\ Cardinality(box) < Capacity
    /\ \A f \in box : f.tag # e.tag
    /\ box'   = box \cup {e}
    /\ reply' = [call |-> "send", msg |-> e.msg, code |-> 0]
    /\ UNCHANGED live

(* A send is refused only for one of two reasons.                           *)
RefuseSend(m) ==
    /\ m.to \notin live \/ Cardinality(box) >= Capacity
    /\ reply' = [call |-> "send", msg |-> m, code |-> -1]
    /\ UNCHANGED <<box, live>>

Receive(e) ==
    /\ e \in box
    /\ box'   = box \ {e}
    /\ reply' = [call |-> "receive", by |-> e.msg.to, code |-> 0,
                 data |-> e.msg.data]
    /\ UNCHANGED live

(* A receive comes back empty only when nothing waits for the caller.       *)
ReceiveNothing(t) ==
    /\ \A e \in box : e.msg.to # t
    /\ reply' = [call |-> "receive", by |-> t, code |-> -1]
    /\ UNCHANGED <<box, live>>

(* Tasks come and go; what is in the box stays there.                       *)
ChangeLive ==
    /\ live' \in SUBSET Task
    /\ UNCHANGED <<box, reply>>

Next ==
    \/ \E e \in Envelope : Send(e) \/ Receive(e)
    \/ \E m \in Message : RefuseSend(m)
    \/ \E t \in Task : ReceiveNothing(t)
    \/ ChangeLive

mailVars == <<box, live, reply>>

Spec == Init /\ [][Next]_mailVars
=============================================================================
