------------------------------ MODULE Rtl8111 -------------------------------
(***************************************************************************)
(* The Ethernet driver of src/drivers/ethernet/realtek/rtl8111.c: one      *)
(* thread that initialises the card once (kmain) and then sends and        *)
(* receives, the interrupt handler that may preempt it between any two     *)
(* accesses to the card, and the card, which runs on its own.              *)
(*                                                                         *)
(* A frame is one value and a packet has none: lengths, buffers and the    *)
(* ring pointer, which the driver never advances, are left out, and so is  *)
(* rx_errors (a 16-bit length never exceeds RX_BUF_SIZE).  Nothing in the  *)
(* source installs the handler; the model runs it whenever the card would  *)
(* interrupt.                                                              *)
(*                                                                         *)
(* External: the card.  A reset clears the mask and the pending events; a  *)
(* one written to a pending event clears it; writing the transmit status   *)
(* starts the transmission of tx_buf and clears its TOK bit, which the end *)
(* of a transmission sets, also of one begun before (the card ends them in *)
(* order, and at most two are told apart); every change of the link raises *)
(* CABLE.                                                                  *)
(***************************************************************************)
EXTENDS Integers

CONSTANTS
    Frames,      \* what callers send
    MaxTxPolls,  \* 100000: how often the transmit status is polled
    MaxPackets,  \* bound of the model: packets that arrive
    Counter,     \* the modulus of tx_packets and rx_packets, 2^32
    NoFrame      \* an empty buffer

CountAssumption ==
    /\ Counter \in Nat \ {0} /\ MaxTxPolls \in Nat /\ MaxPackets \in Nat
    /\ NoFrame \notin Frames

ROK   == "ROK"
TOK   == "TOK"
CABLE == "CABLE"

VARIABLES
    rtl,        \* the driver's statics
    nic,        \* the card: RTL_ISR, RTL_IMR written, RTL_MSR_LINK, the TOK bit
                \* of RTL_TXSTATUSO, and the transmissions under way
    thread,     \* where the thread is, with its locals
    handler,    \* where rtl8111_irq_handler is, and the events it has read
    arrived,    \* history: how often ROK was raised for a packet
    crossed,    \* history: the handler's last look fell between init's two steps
    abandoned   \* history: a send stopped waiting for a card at work

history == <<arrived, crossed, abandoned>>
rtlVars == <<rtl, nic, thread, handler, history>>

(* frame, polls and ret are rtl8111_send's, seen is rtl8111_init's look at    *)
(* the link; sent is history: the card has transmitted this call's frame.    *)
At(pc) == [pc |-> pc, frame |-> NoFrame, polls |-> 0, ret |-> -1,
           seen |-> FALSE, sent |-> FALSE]

NoHandler == [pc |-> "none", events |-> {}]

Init ==
    /\ rtl = [base |-> FALSE, cable_status |-> FALSE, tx_packets |-> 0,
              rx_packets |-> 0, tx_buf |-> NoFrame]
    /\ nic \in [isr : {{}}, imr : {FALSE}, link : BOOLEAN, tok : {FALSE},
                sending : {0}]
    /\ thread = At("init")
    /\ handler = NoHandler
    /\ arrived = 0 /\ crossed = FALSE /\ abandoned = FALSE

(* The handler runs to its end before the thread goes on.                    *)
Step(from, to) == handler.pc = "none" /\ thread.pc = from /\ thread' = to

GoTo(pc) == [thread EXCEPT !.pc = pc]

-----------------------------------------------------------------------------
(* rtl8111_init.  No card: every later call is refused.                      *)
NoDevice ==
    /\ Step("init", At("idle"))
    /\ UNCHANGED <<rtl, nic, handler, history>>

(* The reset does not end in 10000 polls: rtl_base stays set.                *)
ResetTimeout ==
    /\ Step("init", At("idle"))
    /\ rtl' = [rtl EXCEPT !.base = TRUE]
    /\ UNCHANGED <<nic, handler, history>>

EnableCard ==
    /\ Step("init", At("check"))
    /\ rtl' = [rtl EXCEPT !.base = TRUE]
    /\ nic' = [nic EXCEPT !.isr = {}, !.imr = TRUE]
    /\ UNCHANGED <<handler, history>>

(* rtl_check_cable reads the link, and the handler may come before the       *)
(* result is stored.                                                         *)
InitialRead ==
    /\ Step("check", [At("store") EXCEPT !.seen = nic.link])
    /\ UNCHANGED <<rtl, nic, handler, history>>

InitialStore ==
    /\ Step("store", At("idle"))
    /\ rtl' = [rtl EXCEPT !.cable_status = thread.seen]
    /\ UNCHANGED <<nic, handler, history>>

-----------------------------------------------------------------------------
(* rtl8111_send.  cable_status is what was last stored.                      *)
Send(frame) ==
    /\ rtl.base /\ rtl.cable_status
    /\ Step("idle", [At("copy") EXCEPT !.frame = frame])
    /\ UNCHANGED <<rtl, nic, handler, history>>

(* Mutant of CopyFrame: the buffer keeps the last frame.                     *)
CopyNothing == Step("copy", GoTo("start")) /\ UNCHANGED <<rtl, nic, handler, history>>

CopyFrame ==
    /\ Step("copy", GoTo("start"))
    /\ rtl' = [rtl EXCEPT !.tx_buf = thread.frame]
    /\ UNCHANGED <<nic, handler, history>>

StartTransmit ==
    /\ Step("start", [GoTo("poll") EXCEPT !.polls = MaxTxPolls])
    /\ nic' = [nic EXCEPT !.sending = IF @ < 2 THEN @ + 1 ELSE @, !.tok = FALSE]
    /\ UNCHANGED <<rtl, handler, history>>

(* The loop leaves timeout at 0 when the bit appears at the very last look,  *)
(* and at -1 when it does not: an error in both cases.                       *)
PollTransmit ==
    /\ Step("poll", IF thread.polls = 0 THEN GoTo("idle")
                    ELSE IF nic.tok THEN GoTo("sent")
                    ELSE [thread EXCEPT !.polls = @ - 1])
    /\ abandoned' = (abandoned \/ (thread.polls = 0 /\ ~nic.tok))
    /\ UNCHANGED <<rtl, nic, handler, arrived, crossed>>

CountSent ==
    /\ Step("sent", [GoTo("idle") EXCEPT !.ret = 0])
    /\ rtl' = [rtl EXCEPT !.tx_packets = (@ + 1) % Counter]
    /\ UNCHANGED <<nic, handler, history>>

-----------------------------------------------------------------------------
(* rtl8111_receive, which does not ask whether the card was initialised.     *)
Receive ==
    /\ rtl.base /\ ROK \in nic.isr
    /\ Step("idle", At("ack"))
    /\ UNCHANGED <<rtl, nic, handler, history>>

(* Mutant of AckPacket: the event is not acknowledged.                       *)
AckNothing == Step("ack", GoTo("take")) /\ UNCHANGED <<rtl, nic, handler, history>>

AckPacket ==
    /\ Step("ack", GoTo("take"))
    /\ nic' = [nic EXCEPT !.isr = @ \ {ROK}]
    /\ UNCHANGED <<rtl, handler, history>>

TakePacket ==
    /\ Step("take", At("idle"))
    /\ rtl' = [rtl EXCEPT !.rx_packets = (@ + 1) % Counter]
    /\ UNCHANGED <<nic, handler, history>>

-----------------------------------------------------------------------------
(* rtl8111_irq_handler: it acknowledges all it has read, ROK included, and   *)
(* counts a transmission that CountSent counts as well.                      *)
Interrupt ==
    /\ handler.pc = "none"
    /\ rtl.base /\ nic.imr /\ nic.isr # {}
    /\ handler' = [pc |-> "ack", events |-> nic.isr]
    /\ UNCHANGED <<rtl, nic, thread, history>>

Acknowledge(events) ==
    /\ handler.pc = "ack"
    /\ nic' = [nic EXCEPT !.isr = @ \ events]
    /\ handler' = [handler EXCEPT !.pc = IF CABLE \in handler.events
                                        THEN "check" ELSE "count"]
    /\ UNCHANGED <<rtl, thread, history>>

(* Mutant of HandlerAck: whatever is pending by now is acknowledged.         *)
HandlerAckAll == Acknowledge(nic.isr)

HandlerAck == Acknowledge(handler.events)

HandlerCheck ==
    /\ handler.pc = "check"
    /\ rtl' = [rtl EXCEPT !.cable_status = nic.link]
    /\ crossed' = (thread.pc = "store")
    /\ handler' = [handler EXCEPT !.pc = "count"]
    /\ UNCHANGED <<nic, thread, arrived, abandoned>>

HandlerCount ==
    /\ handler.pc = "count"
    /\ rtl' = IF TOK \in handler.events
              THEN [rtl EXCEPT !.tx_packets = (@ + 1) % Counter] ELSE rtl
    /\ handler' = NoHandler
    /\ UNCHANGED <<nic, thread, history>>

-----------------------------------------------------------------------------
(* The card and the world behind it.                                         *)
Transmitted ==
    /\ nic.sending > 0
    /\ nic' = [nic EXCEPT !.sending = @ - 1, !.tok = TRUE, !.isr = @ \cup {TOK}]
    /\ thread' = [thread EXCEPT !.sent =
                    @ \/ (thread.pc = "poll" /\ nic.sending = 1 /\ rtl.tx_buf = thread.frame)]
    /\ UNCHANGED <<rtl, handler, history>>

Arrives ==
    /\ nic.imr /\ arrived < MaxPackets
    /\ nic' = [nic EXCEPT !.isr = @ \cup {ROK}]
    /\ arrived' = arrived + 1
    /\ UNCHANGED <<rtl, thread, handler, crossed, abandoned>>

LinkChanges ==
    /\ nic' = [nic EXCEPT !.link = ~@, !.isr = @ \cup {CABLE}]
    /\ UNCHANGED <<rtl, thread, handler, history>>

Next ==
    \/ NoDevice \/ ResetTimeout \/ EnableCard \/ InitialRead \/ InitialStore
    \/ \E frame \in Frames : Send(frame)
    \/ CopyFrame \/ StartTransmit \/ PollTransmit \/ CountSent
    \/ Receive \/ AckPacket \/ TakePacket
    \/ Interrupt \/ HandlerAck \/ HandlerCheck \/ HandlerCount
    \/ Transmitted \/ Arrives \/ LinkChanges

Spec == Init /\ [][Next]_rtlVars

-----------------------------------------------------------------------------
(* Until some send stops waiting for a card at work, the transmit status is  *)
(* a faithful receipt: a send that returns 0 has had its own frame put on    *)
(* the wire, whatever the handler acknowledged or counted meanwhile.         *)
SentIsMine ==
    (thread.pc = "idle" /\ thread.ret = 0 /\ ~abandoned) => thread.sent

(* No packet is handed out twice, although the thread and the handler both   *)
(* acknowledge ROK (one of them may drop a packet, the other never repeats   *)
(* one).                                                                     *)
DeliveredOnce == rtl.rx_packets <= arrived

(* cable_status, by which send refuses, never misses a change of the link:   *)
(* when no change is pending it is the state of the link, because the        *)
(* handler acknowledges the change before it looks.  Excepted is what        *)
(* rtl8111_init stores over a look of the handler newer than its own, until  *)
(* the handler looks again.                                                  *)
CableFresh ==
    (/\ nic.imr /\ thread.pc \notin {"check", "store"} /\ ~crossed
     /\ handler.pc = "none" /\ CABLE \notin nic.isr)
    => rtl.cable_status = nic.link
=============================================================================
