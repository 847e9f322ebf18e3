--------------------------- MODULE DriversProofs ----------------------------
(***************************************************************************)
(* The polled device drivers of MCDrivers, each with the device it drives, *)
(* for every set of requests and every number of polls.                    *)
(*                                                                         *)
(* The driver and the host adapter of Ahci: one inductive invariant says   *)
(* who may use the command table at each point of a call, and the three    *)
(* safety properties follow from it.  SafeDisk with ATA and Rtl8111 have   *)
(* one of their own each.  The PCI scan: for every machine, every number   *)
(* of buses, slots and functions and every size of the table.              *)
(***************************************************************************)
EXTENDS MCDrivers, WellFoundedInduction, TLAPS

Waiting == call.pc \in {"ci", "is"}

(* The request in the table and in the call, wherever the call is.           *)
TableInv ==
    /\ call.pc \in {"fill", "issue", "ci", "is"} => call.req \in Requests
    /\ call.pc \in {"issue", "ci", "is"} => table = call.req

(* An adapter that failed holds no request, for ever; a call that began      *)
(* after the failure waits for a bit that nobody will clear.                 *)
StopInv ==
    /\ tfes => running = None
    /\ call.late => tfes
    /\ (call.late /\ Waiting) => ci
    /\ ErrorSticks

(* Until a call gives up: between calls the adapter has nothing to do, and   *)
(* while a call waits it does that call's request or has done it.            *)
ReceiptInv ==
    ~gaveup =>
        /\ ~Waiting => running = None /\ (ci => tfes)
        /\ Waiting => /\ running \in {None, call.req}
                      /\ running # None => ci
                      /\ ~ci => call.moved
        /\ SuccessIsTransfer

AhciInv == TypeOK /\ TableInv /\ StopInv /\ ReceiptInv

LEMMA AhciInvInit == Init => AhciInv
<1> SUFFICES ASSUME Init PROVE AhciInv
  OBVIOUS
<1>1. TypeOK
  <2>1. NoCall \in Call
    BY PollAssumption DEF NoCall, Call
  <2>2. NoCall.pc = "returned"
    BY DEF NoCall
  <2> QED
    BY <2>1, <2>2 DEF Init, TypeOK, CommandTable
<1>2. call.pc = "returned" /\ call.late = FALSE /\ call.req = None /\ ~tfes
  BY DEF Init, NoCall
<1>3. running = None /\ ~ci
  BY DEF Init
<1>4. TableInv
  BY <1>2 DEF TableInv
<1>5. StopInv
  BY <1>2 DEF StopInv, ErrorSticks
<1>6. ReceiptInv
  BY <1>2, <1>3 DEF ReceiptInv, Waiting, SuccessIsTransfer
<1> QED
  BY <1>1, <1>4, <1>5, <1>6 DEF AhciInv

LEMMA AhciInvStep == AhciInv /\ [Next]_vars => AhciInv'
<1> SUFFICES ASSUME AhciInv, [Next]_vars PROVE AhciInv'
  OBVIOUS
<1> USE PollAssumption, RequestAssumption
    DEF AhciInv, TypeOK, TableInv, StopInv, ReceiptInv, Waiting, Call, CommandTable, ErrorSticks,
        SuccessIsTransfer
<1>1. CASE ahci_init
  BY <1>1 DEF ahci_init
<1>2. ASSUME NEW req \in Requests, Send(req) PROVE AhciInv'
  <2>1. call' = [pc |-> "fill", req |-> req, ret |-> 0, polls |-> 0,
                 moved |-> FALSE, late |-> tfes]
    BY <1>2 DEF Send, NoCall
  <2>2. call' \in Call /\ call'.pc = "fill" /\ call'.req = req
    BY <2>1
  <2>3. call'.late = tfes
    BY <2>1
  <2>4. TypeOK'
    BY <1>2, <2>2 DEF Send, hba
  <2>5. TableInv'
    BY <1>2, <2>2
  <2>6. StopInv'
    BY <1>2, <2>2, <2>3 DEF Send, hba
  <2>7. ReceiptInv'
    BY <1>2, <2>2 DEF Send, hba
  <2> QED
    BY <2>4, <2>5, <2>6, <2>7
<1>3. CASE FillTable
  BY <1>3 DEF FillTable, hba
<1>4. CASE Issue
  <2>1. TypeOK'
    <3>1. MaxPolls \in 0..MaxPolls
      OBVIOUS
    <3>2. call' \in Call
      BY <1>4, <3>1 DEF Issue, Polling
    <3>3. call'.polls = MaxPolls
      BY <1>4 DEF Issue, Polling
    <3> QED
      BY <1>4, <3>2, <3>3 DEF Issue
  <2>2. TableInv'
    BY <1>4 DEF Issue, Polling
  <2>3. StopInv'
    BY <1>4 DEF Issue, Polling
  <2>4. ReceiptInv'
    BY <1>4 DEF Issue, Polling
  <2> QED
    BY <2>1, <2>2, <2>3, <2>4
<1>5. CASE ReadCi
  BY <1>5 DEF ReadCi, Return, hba
<1>6. CASE ReadIs
  <2>1. TypeOK'
    <3>1. call' \in Call /\ (call'.pc = "ci" => call'.polls > 0) /\ call'.pc # "is"
      <4>1. CASE tfes
        BY <1>6, <4>1 DEF ReadIs, Return
      <4>2. CASE ~tfes /\ call.polls > 1
        <5>1. call.polls - 1 \in 0..MaxPolls /\ call.polls - 1 > 0
          BY <4>2
        <5>2. call' = [call EXCEPT !.pc = "ci", !.polls = call.polls - 1]
          BY <1>6, <4>2 DEF ReadIs
        <5> QED
          BY <5>1, <5>2
      <4>3. CASE ~tfes /\ ~(call.polls > 1)
        BY <1>6, <4>3 DEF ReadIs, Return
      <4> QED
        BY <4>1, <4>2, <4>3
    <3>2. gaveup' \in BOOLEAN
      BY <1>6 DEF ReadIs
    <3> QED
      BY <1>6, <3>1, <3>2 DEF ReadIs, hba
  <2>2. TableInv'
    BY <1>6 DEF ReadIs, Return, hba
  <2>3. StopInv'
    BY <1>6 DEF ReadIs, Return, hba
  <2>4. ReceiptInv'
    BY <1>6 DEF ReadIs, Return, hba
  <2> QED
    BY <2>1, <2>2, <2>3, <2>4
<1>7. CASE Fetch
  BY <1>7 DEF Fetch
<1>8. CASE Transfer
  BY <1>8 DEF Transfer
<1>9. CASE TaskFileError
  BY <1>9 DEF TaskFileError
<1>10. CASE UNCHANGED vars
  BY <1>10 DEF vars, hba
<1> QED
  BY <1>1, <1>2, <1>3, <1>4, <1>5, <1>6, <1>7, <1>8, <1>9, <1>10 DEF Next, Driver

(* AhciInv holds in every state, however driver and adapter interleave.      *)
THEOREM AhciInvariant == Spec => []AhciInv
  BY AhciInvInit, AhciInvStep, PTL DEF Spec

(* Driver, adapter and the call in progress keep their types.                *)
THEOREM TypeCorrect == Spec => []TypeOK
  BY AhciInvariant, PTL DEF AhciInv

(* Until a call gives up, success means that the request was carried out.    *)
THEOREM SuccessCorrect == Spec => []SuccessIsTransfer
<1>1. AhciInv => SuccessIsTransfer
  BY DEF AhciInv, ReceiptInv, SuccessIsTransfer
<1> QED
  BY <1>1, AhciInvariant, PTL

(* Until a call gives up, the adapter has only the waiting call's request.   *)
THEOREM TableCorrect == Spec => []TableIsOurs
<1>1. AhciInv => TableIsOurs
  BY DEF AhciInv, TableInv, ReceiptInv, Waiting, TableIsOurs
<1> QED
  BY <1>1, AhciInvariant, PTL

(* No call that began after a failure reports success.                       *)
THEOREM ErrorCorrect == Spec => []ErrorSticks
<1>1. AhciInv => ErrorSticks
  BY DEF AhciInv, StopInv
<1> QED
  BY <1>1, AhciInvariant, PTL

-----------------------------------------------------------------------------
(* Rtl8111: the driver's thread, its interrupt handler and the card.         *)
Events == {R!ROK, R!TOK, R!CABLE}
Packets == 0 .. Counter - 1

Statics == [base : BOOLEAN, cable_status : BOOLEAN, tx_packets : Packets,
            rx_packets : Packets, tx_buf : Frames \cup {NoFrame}]
Card    == [isr : SUBSET Events, imr : BOOLEAN, link : BOOLEAN, tok : BOOLEAN,
            sending : {0, 1, 2}]
Points  == {"init", "check", "store", "idle", "copy", "start", "poll", "sent", "ack",
            "take"}
Threads == [pc : Points, frame : Frames \cup {NoFrame}, polls : 0..MaxTxPolls,
            ret : {0, -1}, seen : BOOLEAN, sent : BOOLEAN]
Handlers == [pc : {"none", "ack", "check", "count"}, events : SUBSET Events]

RtlTypeOK ==
    /\ rtl \in Statics /\ nic \in Card /\ thread \in Threads /\ handler \in Handlers
    /\ arrived \in Nat /\ crossed \in BOOLEAN /\ abandoned \in BOOLEAN

(* The buffer holds the call's frame while the call needs it; until a send   *)
(* is abandoned the card works only for the call that polls, and its TOK bit *)
(* says that this call's frame is on the wire.                               *)
SendInv ==
    /\ thread.pc \in {"start", "poll", "sent"} => rtl.tx_buf = thread.frame
    /\ thread.pc \in {"copy", "start", "poll", "sent"} => thread.ret = -1
    /\ ~abandoned =>
          /\ nic.sending > 0 => thread.pc = "poll" /\ nic.sending = 1 /\ ~nic.tok
          /\ thread.pc = "poll" /\ nic.tok => thread.sent
          /\ thread.pc = "sent" => thread.sent
    /\ R!SentIsMine

(* Each packet handed out, the one being handed out and the one whose event  *)
(* is pending arrived on its own.  An event that the thread has seen is no   *)
(* longer its own: the thread clears it next.                                *)
ReceiveInv ==
    /\ thread.pc = "ack" => rtl.rx_packets + 1 <= arrived
    /\ thread.pc = "take" =>
          rtl.rx_packets + 1 + (IF R!ROK \in nic.isr THEN 1 ELSE 0) <= arrived
    /\ thread.pc \notin {"ack", "take"} =>
          rtl.rx_packets + (IF R!ROK \in nic.isr THEN 1 ELSE 0) <= arrived

(* A change of the link that the driver has not looked at is pending in the  *)
(* card or in the handler's hands.                                           *)
ChangeAhead ==
    \/ R!CABLE \in nic.isr
    \/ handler.pc = "check"
    \/ handler.pc = "ack" /\ R!CABLE \in handler.events

CableInv ==
    (nic.imr /\ ~crossed) =>
        /\ thread.pc \notin {"check", "store"} =>
              rtl.cable_status = nic.link \/ ChangeAhead
        /\ thread.pc = "store" => thread.seen = nic.link \/ ChangeAhead

RtlInv == RtlTypeOK /\ SendInv /\ ReceiveInv /\ CableInv

LEMMA NextPacket ==
    ASSUME NEW n \in Packets
    PROVE  (n + 1) % Counter \in Packets /\ (n + 1) % Counter <= n + 1
<1> USE CardAssumption DEF R!CountAssumption, Packets
<1>1. CASE n + 1 = Counter
  BY <1>1
<1>2. CASE n + 1 < Counter
  BY <1>2
<1> QED
  BY <1>1, <1>2

LEMMA AtTyped ==
    ASSUME NEW pc \in Points
    PROVE  R!At(pc) \in Threads
  BY CardAssumption DEF R!CountAssumption, R!At, Threads

LEMMA RtlInvInit == R!Init => RtlInv
<1> SUFFICES ASSUME R!Init PROVE RtlInv
  OBVIOUS
<1>1. RtlTypeOK
  <2>1. rtl \in Statics
    BY CardAssumption DEF R!CountAssumption, R!Init, Statics, Packets
  <2>2. nic \in Card
    BY DEF R!Init, Card
  <2>3. thread \in Threads
    BY AtTyped DEF R!Init, Points
  <2>4. handler \in Handlers
    BY DEF R!Init, R!NoHandler, Handlers
  <2> QED
    BY <2>1, <2>2, <2>3, <2>4 DEF R!Init, RtlTypeOK
<1> USE DEF R!Init, R!At, R!NoHandler
<1>2. SendInv
  BY DEF SendInv, R!SentIsMine
<1>3. ReceiveInv
  BY DEF ReceiveInv
<1>4. CableInv
  BY DEF CableInv
<1> QED
  BY <1>1, <1>2, <1>3, <1>4 DEF RtlInv

LEMMA RtlTypeStep ==
    ASSUME RtlTypeOK, [R!Next]_(R!rtlVars) PROVE RtlTypeOK'
<1> USE DEF RtlTypeOK, R!Step, R!history
<1>1. CASE R!NoDevice
  <2>1. thread' \in Threads
    BY <1>1, AtTyped DEF R!NoDevice, Threads, Points, R!GoTo
  <2> QED
    BY <1>1, <2>1 DEF R!NoDevice
<1>2. CASE R!ResetTimeout
  <2>1. rtl' \in Statics
    BY <1>2 DEF R!ResetTimeout, Statics
  <2>2. thread' \in Threads
    BY <1>2, AtTyped DEF R!ResetTimeout, Threads, Points, R!GoTo
  <2> QED
    BY <1>2, <2>1, <2>2 DEF R!ResetTimeout
<1>3. CASE R!EnableCard
  <2>1. rtl' \in Statics
    BY <1>3 DEF R!EnableCard, Statics
  <2>2. nic' \in Card
    BY <1>3 DEF R!EnableCard, Card, Events, R!ROK, R!TOK, R!CABLE
  <2>3. thread' \in Threads
    BY <1>3, AtTyped DEF R!EnableCard, Threads, Points, R!GoTo
  <2> QED
    BY <1>3, <2>1, <2>2, <2>3 DEF R!EnableCard
<1>4. CASE R!InitialRead
  <2>1. thread' \in Threads
    BY <1>4, AtTyped DEF R!InitialRead, Threads, Points, Card
  <2> QED
    BY <1>4, <2>1 DEF R!InitialRead
<1>5. CASE R!InitialStore
  <2>1. rtl' \in Statics
    BY <1>5 DEF R!InitialStore, Statics, Threads
  <2>2. thread' \in Threads
    BY <1>5, AtTyped DEF R!InitialStore, Threads, Points, R!GoTo
  <2> QED
    BY <1>5, <2>1, <2>2 DEF R!InitialStore
<1>6. ASSUME NEW frame \in Frames, R!Send(frame) PROVE RtlTypeOK'
  <2>1. thread' \in Threads
    BY <1>6, AtTyped DEF R!Send, Threads, Points, R!GoTo
  <2> QED
    BY <1>6, <2>1 DEF R!Send
<1>7. CASE R!CopyFrame
  <2>1. rtl' \in Statics
    BY <1>7 DEF R!CopyFrame, Statics, Threads
  <2>2. thread' \in Threads
    BY <1>7 DEF R!CopyFrame, Threads, Points, R!GoTo
  <2> QED
    BY <1>7, <2>1, <2>2 DEF R!CopyFrame
<1>8. CASE R!StartTransmit
  <2>1. nic' \in Card
    <3>1. \A k \in {0, 1, 2} : [nic EXCEPT !.sending = k, !.tok = FALSE] \in Card
      BY DEF Card
    <3>2. (IF nic.sending < 2 THEN nic.sending + 1 ELSE nic.sending) \in {0, 1, 2}
      BY DEF Card
    <3> QED
      BY <1>8, <3>1, <3>2 DEF R!StartTransmit
  <2>2. thread' \in Threads
    <3>1. MaxTxPolls \in 0..MaxTxPolls
      BY CardAssumption DEF R!CountAssumption
    <3> QED
      BY <1>8, <3>1 DEF R!StartTransmit, Threads, Points, R!GoTo
  <2> QED
    BY <1>8, <2>1, <2>2 DEF R!StartTransmit
<1>9. CASE R!PollTransmit
  <2>1. thread' \in Threads
    <3>1. \A pc \in Points : [thread EXCEPT !.pc = pc] \in Threads
      BY DEF Threads
    <3>2. thread.polls # 0 => thread.polls - 1 \in 0..MaxTxPolls
      BY CardAssumption DEF Threads, R!CountAssumption
    <3>3. thread.polls # 0 => [thread EXCEPT !.polls = thread.polls - 1] \in Threads
      BY <3>2 DEF Threads
    <3> QED
      BY <1>9, <3>1, <3>3 DEF R!PollTransmit, R!GoTo, Points
  <2> QED
    BY <1>9, <2>1 DEF R!PollTransmit
<1>10. CASE R!CountSent
  <2>1. rtl' \in Statics
    BY <1>10, NextPacket DEF R!CountSent, Statics
  <2>2. thread' \in Threads
    BY <1>10 DEF R!CountSent, Threads, Points, R!GoTo
  <2> QED
    BY <1>10, <2>1, <2>2 DEF R!CountSent
<1>11. CASE R!Receive
  <2>1. thread' \in Threads
    BY <1>11, AtTyped DEF R!Receive, Threads, Points, R!GoTo
  <2> QED
    BY <1>11, <2>1 DEF R!Receive
<1>12. CASE R!AckPacket
  <2>1. nic' \in Card
    BY <1>12 DEF R!AckPacket, Card, Events, R!ROK, R!TOK, R!CABLE
  <2>2. thread' \in Threads
    BY <1>12 DEF R!AckPacket, Threads, Points, R!GoTo
  <2> QED
    BY <1>12, <2>1, <2>2 DEF R!AckPacket
<1>13. CASE R!TakePacket
  <2>1. rtl' \in Statics
    BY <1>13, NextPacket DEF R!TakePacket, Statics
  <2>2. thread' \in Threads
    BY <1>13, AtTyped DEF R!TakePacket, Threads, Points, R!GoTo
  <2> QED
    BY <1>13, <2>1, <2>2 DEF R!TakePacket
<1>14. CASE R!Interrupt
  <2>1. handler' \in Handlers
    BY <1>14 DEF R!Interrupt, Handlers, R!NoHandler, Events, Card
  <2> QED
    BY <1>14, <2>1 DEF R!Interrupt
<1>15. CASE R!HandlerAck
  <2>1. nic' \in Card
    BY <1>15 DEF R!HandlerAck, R!Acknowledge, Card, Events, R!ROK, R!TOK, R!CABLE
  <2>2. handler' \in Handlers
    BY <1>15 DEF R!HandlerAck, R!Acknowledge, Handlers, R!NoHandler, Events
  <2> QED
    BY <1>15, <2>1, <2>2 DEF R!HandlerAck, R!Acknowledge
<1>16. CASE R!HandlerCheck
  <2>1. rtl' \in Statics
    BY <1>16 DEF R!HandlerCheck, Statics, Card
  <2>2. handler' \in Handlers
    BY <1>16 DEF R!HandlerCheck, Handlers, R!NoHandler, Events, Card
  <2> QED
    BY <1>16, <2>1, <2>2 DEF R!HandlerCheck
<1>17. CASE R!HandlerCount
  <2>1. rtl' \in Statics
    BY <1>17, NextPacket DEF R!HandlerCount, Statics
  <2>2. handler' \in Handlers
    BY <1>17 DEF R!HandlerCount, Handlers, R!NoHandler, Events
  <2> QED
    BY <1>17, <2>1, <2>2 DEF R!HandlerCount
<1>18. CASE R!Transmitted
  <2>1. nic' \in Card
    <3>1. nic.isr \cup {R!TOK} \in SUBSET Events /\ nic.sending - 1 \in {0, 1, 2}
      BY <1>18 DEF R!Transmitted, Card, Events
    <3> QED
      BY <1>18, <3>1 DEF R!Transmitted, Card
  <2>2. thread' \in Threads
    BY <1>18 DEF R!Transmitted, Threads, Points, R!GoTo
  <2> QED
    BY <1>18, <2>1, <2>2 DEF R!Transmitted
<1>19. CASE R!Arrives
  <2>1. nic' \in Card
    BY <1>19 DEF R!Arrives, Card, Events, R!ROK, R!TOK, R!CABLE
  <2> QED
    BY <1>19, <2>1 DEF R!Arrives
<1>20. CASE R!LinkChanges
  <2>1. nic' \in Card
    BY <1>20 DEF R!LinkChanges, Card, Events, R!ROK, R!TOK, R!CABLE
  <2> QED
    BY <1>20, <2>1 DEF R!LinkChanges
<1>21. CASE UNCHANGED R!rtlVars
  BY <1>21 DEF R!rtlVars
<1> QED
  BY <1>1, <1>2, <1>3, <1>4, <1>5, <1>6, <1>7, <1>8, <1>9, <1>10, <1>11, <1>12,
     <1>13, <1>14, <1>15, <1>16, <1>17, <1>18, <1>19, <1>20, <1>21 DEF R!Next

LEMMA SendStep ==
    ASSUME RtlTypeOK, SendInv, [R!Next]_(R!rtlVars) PROVE SendInv'
<1> USE DEF RtlTypeOK, Statics, Card, Threads, SendInv, R!SentIsMine, R!Step, R!GoTo, R!At, R!history
<1>1. CASE R!NoDevice
  BY <1>1 DEF R!NoDevice
<1>2. CASE R!ResetTimeout
  BY <1>2 DEF R!ResetTimeout
<1>3. CASE R!EnableCard
  BY <1>3 DEF R!EnableCard
<1>4. CASE R!InitialRead
  BY <1>4 DEF R!InitialRead
<1>5. CASE R!InitialStore
  BY <1>5 DEF R!InitialStore
<1>6. ASSUME NEW frame \in Frames, R!Send(frame) PROVE SendInv'
  BY <1>6 DEF R!Send
<1>7. CASE R!CopyFrame
  BY <1>7 DEF R!CopyFrame
<1>8. CASE R!StartTransmit
  BY <1>8 DEF R!StartTransmit
<1>9. CASE R!PollTransmit
  BY <1>9 DEF R!PollTransmit
<1>10. CASE R!CountSent
  BY <1>10 DEF R!CountSent
<1>11. CASE R!Receive
  BY <1>11 DEF R!Receive
<1>12. CASE R!AckPacket
  BY <1>12 DEF R!AckPacket
<1>13. CASE R!TakePacket
  BY <1>13 DEF R!TakePacket
<1>14. CASE R!Interrupt
  BY <1>14 DEF R!Interrupt
<1>15. CASE R!HandlerAck
  BY <1>15 DEF R!HandlerAck, R!Acknowledge
<1>16. CASE R!HandlerCheck
  BY <1>16 DEF R!HandlerCheck
<1>17. CASE R!HandlerCount
  BY <1>17 DEF R!HandlerCount
<1>18. CASE R!Transmitted
  <2> DEFINE got == thread.pc = "poll" /\ nic.sending = 1 /\ rtl.tx_buf = thread.frame
  <2>1. /\ thread'.pc = thread.pc /\ thread'.frame = thread.frame
        /\ thread'.ret = thread.ret /\ thread'.sent = (thread.sent \/ got)
    BY <1>18 DEF R!Transmitted
  <2>2. nic'.sending = nic.sending - 1 /\ nic'.tok /\ nic.sending > 0
    BY <1>18 DEF R!Transmitted
  <2>3. UNCHANGED <<rtl, abandoned>>
    BY <1>18 DEF R!Transmitted
  <2>4. ~abandoned => got
    BY <2>2
  <2>5. CASE abandoned
    BY <2>1, <2>3, <2>5
  <2>6. CASE ~abandoned
    <3>1. got
      BY <2>4, <2>6
    <3>2. thread.pc = "poll" /\ nic'.sending = 0
      BY <2>2, <3>1
    <3>3. thread'.sent
      BY <2>1, <3>1
    <3> QED
      BY <2>1, <2>3, <3>2, <3>3
  <2> QED
    BY <2>5, <2>6
<1>19. CASE R!Arrives
  BY <1>19 DEF R!Arrives
<1>20. CASE R!LinkChanges
  BY <1>20 DEF R!LinkChanges
<1>21. CASE UNCHANGED R!rtlVars
  BY <1>21 DEF R!rtlVars
<1> QED
  BY <1>1, <1>2, <1>3, <1>4, <1>5, <1>6, <1>7, <1>8, <1>9, <1>10, <1>11, <1>12,
     <1>13, <1>14, <1>15, <1>16, <1>17, <1>18, <1>19, <1>20, <1>21 DEF R!Next

LEMMA ReceiveStep ==
    ASSUME RtlTypeOK, ReceiveInv, [R!Next]_(R!rtlVars) PROVE ReceiveInv'
<1> USE DEF RtlTypeOK, Statics, Card, Threads, Handlers, Packets, ReceiveInv, R!Step, R!GoTo, R!At, R!history, R!ROK, R!TOK,
        R!CABLE
<1>1. CASE R!NoDevice
  BY <1>1 DEF R!NoDevice
<1>2. CASE R!ResetTimeout
  BY <1>2 DEF R!ResetTimeout
<1>3. CASE R!EnableCard
  BY <1>3 DEF R!EnableCard
<1>4. CASE R!InitialRead
  BY <1>4 DEF R!InitialRead
<1>5. CASE R!InitialStore
  BY <1>5 DEF R!InitialStore
<1>6. ASSUME NEW frame \in Frames, R!Send(frame) PROVE ReceiveInv'
  BY <1>6 DEF R!Send
<1>7. CASE R!CopyFrame
  BY <1>7 DEF R!CopyFrame
<1>8. CASE R!StartTransmit
  BY <1>8 DEF R!StartTransmit
<1>9. CASE R!PollTransmit
  BY <1>9 DEF R!PollTransmit
<1>10. CASE R!CountSent
  BY <1>10 DEF R!CountSent
<1>11. CASE R!Receive
  BY <1>11 DEF R!Receive
<1>12. CASE R!AckPacket
  BY <1>12 DEF R!AckPacket
<1>13. CASE R!TakePacket
  BY <1>13, NextPacket DEF R!TakePacket
<1>14. CASE R!Interrupt
  BY <1>14 DEF R!Interrupt
<1>15. CASE R!HandlerAck
  BY <1>15 DEF R!HandlerAck, R!Acknowledge
<1>16. CASE R!HandlerCheck
  BY <1>16 DEF R!HandlerCheck
<1>17. CASE R!HandlerCount
  BY <1>17 DEF R!HandlerCount
<1>18. CASE R!Transmitted
  BY <1>18 DEF R!Transmitted
<1>19. CASE R!Arrives
  BY <1>19 DEF R!Arrives
<1>20. CASE R!LinkChanges
  BY <1>20 DEF R!LinkChanges
<1>21. CASE UNCHANGED R!rtlVars
  BY <1>21 DEF R!rtlVars
<1> QED
  BY <1>1, <1>2, <1>3, <1>4, <1>5, <1>6, <1>7, <1>8, <1>9, <1>10, <1>11, <1>12,
     <1>13, <1>14, <1>15, <1>16, <1>17, <1>18, <1>19, <1>20, <1>21 DEF R!Next

LEMMA CableStep ==
    ASSUME RtlTypeOK, CableInv, [R!Next]_(R!rtlVars) PROVE CableInv'
<1> USE DEF RtlTypeOK, Statics, Card, Threads, Handlers, CableInv, ChangeAhead, R!Step, R!GoTo, R!At, R!NoHandler, R!history,
        R!ROK, R!TOK, R!CABLE
<1>1. CASE R!NoDevice
  BY <1>1 DEF R!NoDevice
<1>2. CASE R!ResetTimeout
  BY <1>2 DEF R!ResetTimeout
<1>3. CASE R!EnableCard
  BY <1>3 DEF R!EnableCard
<1>4. CASE R!InitialRead
  BY <1>4 DEF R!InitialRead
<1>5. CASE R!InitialStore
  BY <1>5 DEF R!InitialStore
<1>6. ASSUME NEW frame \in Frames, R!Send(frame) PROVE CableInv'
  BY <1>6 DEF R!Send
<1>7. CASE R!CopyFrame
  BY <1>7 DEF R!CopyFrame
<1>8. CASE R!StartTransmit
  BY <1>8 DEF R!StartTransmit
<1>9. CASE R!PollTransmit
  BY <1>9 DEF R!PollTransmit
<1>10. CASE R!CountSent
  BY <1>10 DEF R!CountSent
<1>11. CASE R!Receive
  BY <1>11 DEF R!Receive
<1>12. CASE R!AckPacket
  BY <1>12 DEF R!AckPacket
<1>13. CASE R!TakePacket
  BY <1>13 DEF R!TakePacket
<1>14. CASE R!Interrupt
  BY <1>14 DEF R!Interrupt
<1>15. CASE R!HandlerAck
  BY <1>15 DEF R!HandlerAck, R!Acknowledge
<1>16. CASE R!HandlerCheck
  BY <1>16 DEF R!HandlerCheck
<1>17. CASE R!HandlerCount
  BY <1>17 DEF R!HandlerCount
<1>18. CASE R!Transmitted
  BY <1>18 DEF R!Transmitted
<1>19. CASE R!Arrives
  BY <1>19 DEF R!Arrives
<1>20. CASE R!LinkChanges
  BY <1>20 DEF R!LinkChanges
<1>21. CASE UNCHANGED R!rtlVars
  BY <1>21 DEF R!rtlVars
<1> QED
  BY <1>1, <1>2, <1>3, <1>4, <1>5, <1>6, <1>7, <1>8, <1>9, <1>10, <1>11, <1>12,
     <1>13, <1>14, <1>15, <1>16, <1>17, <1>18, <1>19, <1>20, <1>21 DEF R!Next

LEMMA RtlInvStep == RtlInv /\ [R!Next]_(R!rtlVars) => RtlInv'
  BY RtlTypeStep, SendStep, ReceiveStep, CableStep DEF RtlInv

(* RtlInv holds in every state, however thread, handler and card interleave. *)
THEOREM RtlInvariant == R!Spec => []RtlInv
  BY RtlInvInit, RtlInvStep, PTL DEF R!Spec

(* Of the composition, the card's driver takes exactly its own steps.        *)
THEOREM RtlPart == DriversSpec => R!Spec
<1>1. DriversInit => R!Init
  BY DEF DriversInit
<1>2. [DriversNext]_driversVars => [R!Next]_(R!rtlVars)
  BY DEF DriversNext, driversVars, AhciStep, DiskStep, RtlStep, ScanStep, rtlVars,
         R!rtlVars, R!history
<1> QED
  BY <1>1, <1>2, PTL DEF DriversSpec, R!Spec

(* rtl8111_send: as long as no send was abandoned, one that returns 0 has    *)
(* had its own frame put on the wire.                                        *)
THEOREM SentCorrect == DriversSpec => []SentIsMine
<1>1. RtlInv => SentIsMine
  BY DEF RtlInv, SendInv, SentIsMine
<1> QED
  BY <1>1, RtlInvariant, RtlPart, PTL

(* rtl8111_receive and the handler never hand a packet out twice.            *)
THEOREM DeliveredCorrect == DriversSpec => []DeliveredOnce
<1>1. RtlInv => DeliveredOnce
  BY DEF RtlInv, RtlTypeOK, Statics, Packets, Threads, ReceiveInv, DeliveredOnce,
         R!DeliveredOnce
<1> QED
  BY <1>1, RtlInvariant, RtlPart, PTL

(* cable_status is the link whenever no change of it is pending, but for the *)
(* store of rtl8111_init that a look of the handler has overtaken.           *)
THEOREM CableCorrect == DriversSpec => []CableFresh
<1>1. RtlInv => CableFresh
  BY DEF RtlInv, CableInv, ChangeAhead, CableFresh, R!CableFresh
<1> QED
  BY <1>1, RtlInvariant, RtlPart, PTL

-----------------------------------------------------------------------------
(* SafeDisk: the entry points, the ATA driver and the drive.                 *)
Calls(buffer) ==
    [pc : {"command", "drq", "flush", "bsy", "returned"}, op : {None, "read", "write"},
     lba : Nat, count : Nat, len : Nat, buffer : {buffer}, done : Nat, polls : Nat,
     ret : {0, -1}, failed : BOOLEAN]
Commands(got) ==
    [cmd : {None, "read", "write", "flush"}, lba : Nat, left : Nat, bsy : BOOLEAN,
     got : {got}]

DiskTypeOK ==
    /\ io \in Calls(io.buffer) /\ DOMAIN io.buffer = 1 .. (io.len \div SectorWords)
    /\ drive \in Commands(drive.got)
    /\ DOMAIN disk = Lbas /\ lapsed \in BOOLEAN

(* What is true of the drive whatever it was told before: a write in hand    *)
(* ends below the limit, and only a write has a sector to store.             *)
LimitInv ==
    /\ drive.cmd = None => drive = D!Idle
    /\ drive.got # None => drive.cmd = "write" /\ drive.bsy
    /\ drive.cmd = "flush" => drive.bsy
    /\ drive.cmd \in {"read", "write"} => drive.left > 0
    /\ drive.cmd = "write" => drive.lba + drive.left <= DISK_LIMIT_LBA
    /\ D!LimitKept

(* What is true of the call by itself.                                       *)
CallInv ==
    /\ io.pc # "returned" => /\ io.op # None /\ io.count > 0
                             /\ io.lba + io.count <= DISK_LIMIT_LBA
    /\ io.count <= io.len \div SectorWords
    /\ io.op = "write" => /\ io.count = io.len \div SectorWords
                          /\ \A i \in 1 .. io.count : io.buffer[i] # None
    /\ io.pc = "command" => io.done = 0
    /\ io.pc = "drq" => io.done < io.count
    /\ io.pc \in {"drq", "bsy"} => io.polls > 0
    /\ io.pc \in {"flush", "bsy"} => io.op = "write" /\ io.done = io.count

Moved(n) == \A i \in 1 .. n : disk[io.lba + i - 1] = io.buffer[i]

(* Until a call lapses the drive works only for the call in progress: it has *)
(* the last sector of it in hand, or waits for the next, or it has failed.   *)
TransferInv ==
    ~lapsed =>
        /\ io.pc \in {"returned", "command"} => drive.cmd = None
        /\ (io.pc = "drq" /\ drive.cmd # None) => drive.cmd = io.op
        /\ (io.pc = "drq" /\ drive.cmd # None /\ drive.got = None) =>
              /\ drive.lba = io.lba + io.done /\ drive.left = io.count - io.done
              /\ Moved(io.done)
        /\ drive.got # None =>
              /\ io.done > 0 /\ drive.got = io.buffer[io.done]
              /\ drive.lba = io.lba + io.done - 1 /\ drive.left = io.count - io.done + 1
              /\ Moved(io.done - 1)
        /\ (io.pc \in {"flush", "bsy"} /\ drive.got = None) =>
              /\ drive.cmd \in {None, "flush"}
              /\ Moved(io.count) \/ (io.failed /\ Moved(io.count - 1))
        /\ (io.pc = "returned" /\ io.ret = 0 /\ io.op # None) =>
              \/ Moved(io.count)
              \/ io.op = "write" /\ io.failed /\ Moved(io.count - 1)

DiskInv == DiskTypeOK /\ LimitInv /\ CallInv /\ TransferInv

LEMMA SectorsWhole ==
    ASSUME NEW len \in Nat
    PROVE  /\ len \div SectorWords \in Nat
           /\ D!SectorCount(len) \in Nat /\ D!SectorCount(len) <= len \div SectorWords
<1> USE DriveAssumption DEF D!DiskAssumption
<1> DEFINE whole == len \div SectorWords
<1>1. whole \in Nat
  OBVIOUS
<1> HIDE DEF whole
<1>2. whole % U16 \in Nat /\ whole % U16 <= whole
  BY <1>1
<1> QED
  BY <1>1, <1>2 DEF whole, D!SectorCount

(* A write that fits has as many sectors as its count says.                  *)
LEMMA CountIsWhole ==
    ASSUME NEW len \in Nat, D!Fits(len)
    PROVE  D!SectorCount(len) = len \div SectorWords
<1> USE DriveAssumption DEF D!DiskAssumption
<1> DEFINE whole == len \div SectorWords
<1>1. whole \in Nat /\ whole * SectorWords <= len
  OBVIOUS
<1>2. whole * SectorWords <= MAX_WRITE_SECTORS * SectorWords
  <2>1. len <= MAX_WRITE_SECTORS * SectorWords
    BY DEF D!Fits
  <2> QED
    BY <1>1, <2>1
<1> HIDE DEF whole
<1>3. whole <= MAX_WRITE_SECTORS
  BY <1>1, <1>2
<1>4. whole % U16 = whole
  BY <1>1, <1>3
<1> QED
  BY <1>4 DEF whole, D!SectorCount

LEMMA Begun ==
    ASSUME NEW op \in {"read", "write"}, NEW lba \in Lbas, NEW len \in Lengths,
           D!Begin(op, lba, len)
    PROVE  /\ io' = [pc |-> "command", op |-> op, lba |-> lba,
                     count |-> D!SectorCount(len), len |-> len,
                     buffer |-> D!Content(op, len), done |-> 0, polls |-> 0, ret |-> 0,
                     failed |-> FALSE]
           /\ D!SectorCount(len) \in Nat \ {0} /\ D!SectorCount(len) <= len \div SectorWords
           /\ len \in Nat /\ lba \in Nat /\ lba + D!SectorCount(len) <= DISK_LIMIT_LBA
           /\ DOMAIN D!Content(op, len) = 1 .. (len \div SectorWords)
           /\ op = "write" => \A i \in 1 .. (len \div SectorWords) :
                                 D!Content(op, len)[i] # None
<1>1. len \in Nat /\ lba \in Nat
  BY DriveAssumption DEF D!DiskAssumption
<1>2. io' = [D!NoCall EXCEPT !.pc = "command", !.op = op, !.lba = lba, !.len = len,
                !.count = D!SectorCount(len), !.buffer = D!Content(op, len)]
  BY DEF D!Begin
<1>3. op = "write" => \A i \in 1 .. (len \div SectorWords) : D!Content(op, len)[i] # None
  BY DriveAssumption DEF D!DiskAssumption, D!Content
<1>4. D!SectorCount(len) # 0 /\ lba + D!SectorCount(len) <= DISK_LIMIT_LBA
  BY DEF D!Begin, D!ValidLba
<1> QED
  BY <1>1, <1>2, <1>3, <1>4, SectorsWhole DEF D!NoCall, D!Content

LEMMA DiskInvInit == D!Init => DiskInv
<1> SUFFICES ASSUME D!Init PROVE DiskInv
  OBVIOUS
<1>1. DiskTypeOK
  <2>1. 0 \div SectorWords = 0
    BY DriveAssumption DEF D!DiskAssumption
  <2>2. io \in Calls(io.buffer) /\ DOMAIN io.buffer = 1 .. 0 /\ io.len = 0
    BY DEF D!Init, D!NoCall, Calls
  <2>3. drive \in Commands(drive.got)
    BY DEF D!Init, D!Idle, Commands
  <2> QED
    BY <2>1, <2>2, <2>3 DEF D!Init, DiskTypeOK
<1>2. LimitInv
  BY DriveAssumption DEF D!Init, D!Idle, LimitInv, D!LimitKept, D!DiskAssumption
<1>3. CallInv
  BY <1>1, DriveAssumption DEF D!Init, D!NoCall, CallInv, DiskTypeOK, D!DiskAssumption
<1>4. TransferInv
  BY DEF D!Init, D!NoCall, D!Idle, TransferInv
<1> QED
  BY <1>1, <1>2, <1>3, <1>4 DEF DiskInv

(* What the driver does with a call's record between two accesses.           *)
LEMMA CallEdits ==
    ASSUME DiskTypeOK
    PROVE  /\ \A ret \in {0, -1} : D!Return(ret) \in Calls(io.buffer)
           /\ \A ret \in {0, -1} : D!Return(ret).len = io.len
           /\ D!AfterSector(io.done + 1) \in Calls(io.buffer)
           /\ D!AfterSector(io.done + 1).len = io.len
           /\ io.polls > 1 => [io EXCEPT !.polls = @ - 1] \in Calls(io.buffer)
<1> USE DEF DiskTypeOK
<1>1. \A ret \in {0, -1} : D!Return(ret) \in Calls(io.buffer) /\ D!Return(ret).len = io.len
  BY DEF D!Return, Calls
<1>2. io.polls > 1 => [io EXCEPT !.polls = @ - 1] \in Calls(io.buffer)
  BY DEF Calls
<1>3. D!AfterSector(io.done + 1) \in Calls(io.buffer) /\ D!AfterSector(io.done + 1).len = io.len
  <2>1. CASE io.done + 1 < io.count
    <3>1. D!AfterSector(io.done + 1) = [io EXCEPT !.done = io.done + 1, !.polls = MaxPolls]
      BY <2>1 DEF D!AfterSector
    <3>2. io.done + 1 \in Nat /\ MaxPolls \in Nat
      BY PollAssumption DEF Calls
    <3> QED
      BY <3>1, <3>2 DEF Calls
  <2>2. CASE ~(io.done + 1 < io.count) /\ io.op = "write"
    <3>1. D!AfterSector(io.done + 1) = [io EXCEPT !.done = io.done + 1, !.pc = "flush"]
      BY <2>2 DEF D!AfterSector
    <3>2. io.done + 1 \in Nat
      BY DEF Calls
    <3> QED
      BY <3>1, <3>2 DEF Calls
  <2>3. CASE ~(io.done + 1 < io.count) /\ io.op # "write"
    <3>1. D!AfterSector(io.done + 1) = D!Return(0)
      BY <2>3 DEF D!AfterSector
    <3> QED
      BY <3>1, <1>1
  <2> QED
    BY <2>1, <2>2, <2>3
<1> QED
  BY <1>1, <1>2, <1>3

LEMMA DiskTypeStep ==
    ASSUME DiskTypeOK, LimitInv, CallInv, [D!Next]_(D!diskVars) PROVE DiskTypeOK'
<1> USE DEF DiskTypeOK
<1>1. ASSUME NEW op \in {"read", "write"}, NEW lba \in Lbas, NEW len \in Lengths,
             D!Begin(op, lba, len)
      PROVE  DiskTypeOK'
  <2> DEFINE count == D!SectorCount(len)
             buffer == D!Content(op, len)
  <2>1. io' = [pc |-> "command", op |-> op, lba |-> lba, count |-> count, len |-> len,
               buffer |-> buffer, done |-> 0, polls |-> 0, ret |-> 0, failed |-> FALSE]
    BY <1>1, Begun
  <2>2. count \in Nat /\ len \in Nat /\ lba \in Nat
    BY <1>1, Begun
  <2> HIDE DEF count, buffer
  <2>3. io' \in Calls(io'.buffer)
    BY <2>1, <2>2 DEF Calls
  <2>4. DOMAIN io'.buffer = 1 .. (io'.len \div SectorWords)
    BY <1>1, Begun
  <2> QED
    BY <1>1, <2>3, <2>4 DEF D!Begin
<1>2. CASE D!Command
  <2>1. io' \in Calls(io'.buffer) /\ io'.buffer = io.buffer /\ io'.len = io.len
    BY <1>2, PollAssumption DEF D!Command, Calls
  <2>2. drive' \in Commands(drive'.got)
    BY <1>2 DEF D!Command, D!Take, Commands, Calls
  <2> QED
    BY <1>2, <2>1, <2>2 DEF D!Command
<1>3. CASE D!WriteSector
  <2>1. io' \in Calls(io'.buffer) /\ io'.buffer = io.buffer /\ io'.len = io.len
    BY <1>3, CallEdits DEF D!WriteSector, Calls
  <2>2. drive' \in Commands(drive'.got)
    BY <1>3 DEF D!WriteSector, D!SectorOut, Commands
  <2> QED
    BY <1>3, <2>1, <2>2 DEF D!WriteSector
<1>4. CASE D!ReadSector
  <2>1. /\ io' \in Calls(io'.buffer) /\ DOMAIN io'.buffer = DOMAIN io.buffer
        /\ io'.len = io.len
    BY <1>4, CallEdits DEF D!ReadSector, Calls
  <2>2. drive' \in Commands(drive'.got)
    <3>1. CASE drive.cmd # "read"
      BY <1>4, <3>1 DEF D!ReadSector, D!SectorIn
    <3>2. CASE drive.cmd = "read" /\ drive.left = 1
      BY <1>4, <3>2 DEF D!ReadSector, D!SectorIn, D!Idle, Commands
    <3>3. CASE drive.cmd = "read" /\ drive.left > 1
      <4>1. drive' = [drive EXCEPT !.bsy = TRUE, !.lba = drive.lba + 1,
                         !.left = drive.left - 1]
        BY <1>4, <3>3 DEF D!ReadSector, D!SectorIn
      <4>2. drive.lba + 1 \in Nat /\ drive.left - 1 \in Nat
        BY <3>3 DEF Commands
      <4> QED
        BY <4>1, <4>2 DEF Commands
    <3> QED
      BY <3>1, <3>2, <3>3 DEF LimitInv, Commands
  <2> QED
    BY <1>4, <2>1, <2>2 DEF D!ReadSector
<1>5. CASE D!PollDrq
  BY <1>5, CallEdits DEF D!PollDrq, Calls
<1>6. CASE D!Flush
  <2>1. io' \in Calls(io'.buffer) /\ io'.buffer = io.buffer /\ io'.len = io.len
    BY <1>6, PollAssumption DEF D!Flush, Calls
  <2>2. drive' \in Commands(drive'.got)
    BY <1>6 DEF D!Flush, D!Take, Commands
  <2> QED
    BY <1>6, <2>1, <2>2 DEF D!Flush
<1>7. CASE D!PollBsy
  BY <1>7, CallEdits DEF D!PollBsy, Calls
<1>8. CASE D!DriveReady
  BY <1>8 DEF D!DriveReady, Commands
<1>9. CASE D!DriveStores
  <2>1. CASE drive.left = 1
    BY <1>9, <2>1 DEF D!DriveStores, D!Idle, Commands
  <2>2. CASE drive.left > 1
    <3>1. drive' = [drive EXCEPT !.bsy = FALSE, !.got = None, !.lba = drive.lba + 1,
                       !.left = drive.left - 1]
      BY <1>9, <2>2 DEF D!DriveStores
    <3>2. drive.lba + 1 \in Nat /\ drive.left - 1 \in Nat
      BY <2>2 DEF Commands
    <3>3. drive' \in Commands(drive'.got)
      BY <3>1, <3>2 DEF Commands
    <3> QED
      BY <1>9, <3>3 DEF D!DriveStores
  <2> QED
    BY <1>9, <2>1, <2>2 DEF LimitInv, Commands, D!DriveStores
<1>10. CASE D!DriveFlushed
  BY <1>10 DEF D!DriveFlushed, D!Idle, Commands
<1>11. CASE D!DriveFails
  <2>1. drive' \in Commands(drive'.got)
    BY <1>11 DEF D!DriveFails, D!Idle, Commands
  <2>2. io' \in Calls(io'.buffer) /\ io'.buffer = io.buffer /\ io'.len = io.len
    BY <1>11 DEF D!DriveFails, Calls
  <2> QED
    BY <1>11, <2>1, <2>2 DEF D!DriveFails
<1>12. CASE UNCHANGED D!diskVars
  BY <1>12 DEF D!diskVars
<1> QED
  BY <1>1, <1>2, <1>3, <1>4, <1>5, <1>6, <1>7, <1>8, <1>9, <1>10, <1>11, <1>12
     DEF D!Next, D!secure_write, D!secure_read

LEMMA LimitStep == ASSUME DiskInv, [D!Next]_(D!diskVars) PROVE LimitInv'
<1> USE DriveAssumption
    DEF DiskInv, DiskTypeOK, LimitInv, Commands, D!LimitKept, D!DiskAssumption, D!Idle
<1>1. ASSUME NEW op \in {"read", "write"}, NEW lba \in Lbas, NEW len \in Lengths,
             D!Begin(op, lba, len)
      PROVE  LimitInv'
  BY <1>1 DEF D!Begin
<1>2. CASE D!Command
  <2>1. io.op \in {"read", "write"} /\ io.count > 0 /\ io.lba + io.count <= DISK_LIMIT_LBA
    BY <1>2 DEF D!Command, CallInv, Calls
  <2> QED
    BY <1>2, <2>1 DEF D!Command, D!Take
<1>3. CASE D!WriteSector
  BY <1>3 DEF D!WriteSector, D!SectorOut
<1>4. CASE D!ReadSector
  <2>1. CASE drive.cmd # "read"
    BY <1>4, <2>1 DEF D!ReadSector, D!SectorIn
  <2>2. CASE drive.cmd = "read" /\ drive.left = 1
    BY <1>4, <2>2 DEF D!ReadSector, D!SectorIn
  <2>3. CASE drive.cmd = "read" /\ drive.left > 1
    BY <1>4, <2>3 DEF D!ReadSector, D!SectorIn
  <2> QED
    BY <2>1, <2>2, <2>3
<1>5. CASE D!PollDrq
  BY <1>5 DEF D!PollDrq
<1>6. CASE D!Flush
  BY <1>6 DEF D!Flush, D!Take
<1>7. CASE D!PollBsy
  BY <1>7 DEF D!PollBsy
<1>8. CASE D!DriveReady
  BY <1>8 DEF D!DriveReady
<1>9. CASE D!DriveStores
  <2>1. drive.cmd = "write" /\ drive.lba < DISK_LIMIT_LBA
    BY <1>9 DEF D!DriveStores
  <2>2. D!LimitKept'
    BY <1>9, <2>1 DEF D!DriveStores
  <2>3. CASE drive.left = 1
    BY <1>9, <2>2, <2>3 DEF D!DriveStores
  <2>4. CASE drive.left > 1
    BY <1>9, <2>1, <2>2, <2>4 DEF D!DriveStores
  <2> QED
    BY <2>1, <2>3, <2>4
<1>10. CASE D!DriveFlushed
  BY <1>10 DEF D!DriveFlushed
<1>11. CASE D!DriveFails
  BY <1>11 DEF D!DriveFails
<1>12. CASE UNCHANGED D!diskVars
  BY <1>12 DEF D!diskVars
<1> QED
  BY <1>1, <1>2, <1>3, <1>4, <1>5, <1>6, <1>7, <1>8, <1>9, <1>10, <1>11, <1>12
     DEF D!Next, D!secure_write, D!secure_read

LEMMA CallStep == ASSUME DiskInv, [D!Next]_(D!diskVars) PROVE CallInv'
<1> USE PollAssumption DEF DiskInv, DiskTypeOK, CallInv, Calls
<1>1. ASSUME NEW op \in {"read", "write"}, NEW lba \in Lbas, NEW len \in Lengths,
             D!Begin(op, lba, len), op = "write" => D!Fits(len)
      PROVE  CallInv'
  <2>1. op = "write" => D!SectorCount(len) = len \div SectorWords
    BY <1>1, CountIsWhole, Begun
  <2>2. op # None
    BY DriveAssumption DEF D!DiskAssumption
  <2> QED
    BY <1>1, <2>1, <2>2, Begun
<1>2. CASE D!Command
  BY <1>2 DEF D!Command
<1>3. CASE D!WriteSector
  BY <1>3 DEF D!WriteSector, D!AfterSector, D!Return
<1>4. CASE D!ReadSector
  BY <1>4 DEF D!ReadSector, D!AfterSector, D!Return
<1>5. CASE D!PollDrq
  BY <1>5 DEF D!PollDrq, D!Return
<1>6. CASE D!Flush
  BY <1>6 DEF D!Flush
<1>7. CASE D!PollBsy
  BY <1>7 DEF D!PollBsy, D!Return
<1>8. CASE D!DriveReady
  BY <1>8 DEF D!DriveReady
<1>9. CASE D!DriveStores
  BY <1>9 DEF D!DriveStores
<1>10. CASE D!DriveFlushed
  BY <1>10 DEF D!DriveFlushed
<1>11. CASE D!DriveFails
  BY <1>11 DEF D!DriveFails
<1>12. CASE UNCHANGED D!diskVars
  BY <1>12 DEF D!diskVars
<1> QED
  BY <1>1, <1>2, <1>3, <1>4, <1>5, <1>6, <1>7, <1>8, <1>9, <1>10, <1>11, <1>12
     DEF D!Next, D!secure_write, D!secure_read

(* What the steps of the transfer are argued from, on records taken apart.   *)
LEMMA DiskFacts ==
    ASSUME DiskInv
    PROVE  /\ io.lba \in Nat /\ io.count \in Nat /\ io.done \in Nat /\ io.polls \in Nat
           /\ drive.lba \in Nat /\ drive.left \in Nat /\ drive.bsy \in BOOLEAN
           /\ io.failed \in BOOLEAN
           /\ None \notin {"read", "write", "flush"}
           /\ drive.cmd \in {None, "read", "write", "flush"}
           /\ io.pc \in {"command", "drq", "flush", "bsy", "returned"}
           /\ drive.cmd = None => drive.got = None /\ drive.bsy = FALSE
           /\ drive.got # None => drive.cmd = "write" /\ drive.bsy
           /\ (~lapsed /\ drive.got # None) => io.pc \in {"drq", "flush", "bsy"}
  BY DriveAssumption DEF DiskInv, DiskTypeOK, Calls, Commands, TransferInv, LimitInv,
                         D!DiskAssumption, D!Idle

LEMMA TransferStep == ASSUME DiskInv, [D!Next]_(D!diskVars) PROVE TransferInv'
<1> SUFFICES ASSUME ~lapsed' PROVE TransferInv'
  BY DEF TransferInv
<1>a. ~lapsed
  BY DEF D!Next, D!secure_write, D!secure_read, D!Begin, D!Command, D!WriteSector,
         D!ReadSector, D!PollDrq, D!Flush, D!PollBsy, D!DriveReady, D!DriveStores,
         D!DriveFlushed, D!DriveFails, D!diskVars
<1>b. DiskTypeOK /\ LimitInv /\ CallInv /\ TransferInv
  BY DEF DiskInv
<1> USE <1>a, DiskFacts DEF TransferInv
<1>1. ASSUME NEW op \in {"read", "write"}, NEW lba \in Lbas, NEW len \in Lengths,
             D!Begin(op, lba, len)
      PROVE  TransferInv'
  <2>1. io.pc = "returned" /\ UNCHANGED drive
    BY <1>1 DEF D!Begin
  <2>2. io'.pc = "command"
    BY <1>1, Begun
  <2>3. drive.cmd = None /\ drive.got = None
    BY <1>b, <2>1
  <2> QED
    BY <2>1, <2>2, <2>3
<1>2. CASE D!Command
  <2>1. drive.cmd = None /\ io.pc = "command" /\ io.done = 0
    BY <1>2, <1>b DEF D!Command, CallInv
  <2>2. drive' = [cmd |-> io.op, lba |-> io.lba, left |-> io.count, bsy |-> TRUE,
                  got |-> None]
    BY <1>2, <2>1 DEF D!Command, D!Take
  <2>3. /\ io'.pc = "drq" /\ io'.done = 0 /\ io'.lba = io.lba /\ io'.count = io.count
        /\ io'.op = io.op
    BY <1>2, <1>b, <2>1 DEF D!Command, DiskTypeOK, Calls
  <2>4. Moved(0)'
    BY DEF Moved
  <2> QED
    BY <2>2, <2>3, <2>4
<1>3. CASE D!WriteSector
  <2>1. io.pc = "drq" /\ drive.cmd = "write" /\ drive.got = None
    BY <1>3, <1>b DEF D!WriteSector, D!Drq
  <2>2. /\ drive.lba = io.lba + io.done /\ drive.left = io.count - io.done
        /\ Moved(io.done)
    BY <1>b, <2>1
  <2>3. /\ drive'.got = io.buffer[io.done + 1] /\ drive'.lba = drive.lba
        /\ drive'.left = drive.left /\ drive'.cmd = "write"
    BY <1>3, <1>b, <2>1 DEF D!WriteSector, D!SectorOut, DiskTypeOK, Commands
  <2>4. /\ io'.done = io.done + 1 /\ io'.pc \in {"drq", "flush"} /\ io'.lba = io.lba
        /\ io'.count = io.count /\ io'.buffer = io.buffer /\ io'.op = "write" /\ disk' = disk
    BY <1>3, <1>b DEF D!WriteSector, D!AfterSector, DiskTypeOK, Calls
  <2>5. io.buffer[io.done + 1] # None
    BY <1>3, <1>b DEF D!WriteSector, CallInv
  <2>6. \A n : Moved(n) => Moved(n)'
    BY <2>4 DEF Moved
  <2>7. io'.done - 1 = io.done
    BY <2>4
  <2>8. Moved(io.done - 1)'
    BY <2>2, <2>6, <2>7
  <2> QED
    BY <2>2, <2>3, <2>4, <2>5, <2>8
<1>4. CASE D!ReadSector
  <2>1. io.pc = "drq" /\ io.op = "read" /\ io.done < io.count
    BY <1>4, <1>b DEF D!ReadSector, CallInv
  <2>2. drive.cmd = "read" /\ drive.got = None
    BY <1>4, <1>b, <2>1 DEF D!ReadSector, D!Drq
  <2>3. /\ drive.lba = io.lba + io.done /\ drive.left = io.count - io.done
        /\ Moved(io.done)
    BY <1>b, <2>1, <2>2
  <2>4. /\ io'.buffer = [io.buffer EXCEPT ![io.done + 1] = disk[io.lba + io.done]]
        /\ io'.lba = io.lba /\ io'.count = io.count /\ io'.op = "read" /\ disk' = disk
    BY <1>4, <1>b, <2>1, <2>2, <2>3
       DEF D!ReadSector, D!AfterSector, D!Return, DiskTypeOK, Calls
  <2>5. \A n : n = io.done + 1 => Moved(n)'
    <3>1. io.done + 1 \in DOMAIN io.buffer
      BY <1>b, <2>1, SectorsWhole DEF DiskTypeOK, Calls, CallInv
    <3>2. io'.buffer[io.done + 1] = disk[io.lba + (io.done + 1) - 1]
      <4>1. io.lba + (io.done + 1) - 1 = io.lba + io.done
        OBVIOUS
      <4> QED
        BY <2>4, <3>1, <4>1
    <3>3. \A i \in 1 .. io.done : io'.buffer[i] = disk[io.lba + i - 1]
      <4> SUFFICES ASSUME NEW i \in 1 .. io.done
                   PROVE  io'.buffer[i] = disk[io.lba + i - 1]
        OBVIOUS
      <4>1. i # io.done + 1
        OBVIOUS
      <4>2. i \in DOMAIN io.buffer
        <5>1. io.len \div SectorWords \in Nat
          BY <1>b, SectorsWhole DEF DiskTypeOK, Calls
        <5> QED
          BY <1>b, <3>1, <5>1 DEF DiskTypeOK
      <4> QED
        BY <2>3, <2>4, <4>1, <4>2 DEF Moved
    <3>4. \A i \in 1 .. io.done + 1 : i \in 1 .. io.done \/ i = io.done + 1
      OBVIOUS
    <3> QED
      BY <2>4, <3>2, <3>3, <3>4 DEF Moved
  <2>6. CASE io.done + 1 < io.count
    <3>1. io'.pc = "drq" /\ io'.done = io.done + 1
      BY <1>4, <1>b, <2>1, <2>6 DEF D!ReadSector, D!AfterSector, DiskTypeOK, Calls
    <3>2. /\ drive'.lba = drive.lba + 1 /\ drive'.left = drive.left - 1
          /\ drive'.got = None /\ drive'.cmd = "read"
      BY <1>4, <1>b, <2>2, <2>3, <2>6 DEF D!ReadSector, D!SectorIn, DiskTypeOK, Commands
    <3>3. Moved(io.done)'
      BY <2>5, <3>1
    <3> QED
      BY <2>3, <2>4, <3>1, <3>2, <3>3
  <2>7. CASE io.done + 1 = io.count
    <3>1. io'.pc = "returned"
      BY <1>4, <1>b, <2>1, <2>7 DEF D!ReadSector, D!AfterSector, D!Return, DiskTypeOK, Calls
    <3>2. drive'.cmd = None /\ drive'.got = None
      BY <1>4, <2>2, <2>3, <2>7 DEF D!ReadSector, D!SectorIn, D!Idle
    <3>3. Moved(io.count)'
      BY <2>4, <2>5, <2>7
    <3> QED
      BY <3>1, <3>2, <3>3
  <2> QED
    BY <2>1, <2>6, <2>7
<1>5. CASE D!PollDrq
  <2>1. UNCHANGED <<disk, drive>> /\ io.pc = "drq"
    BY <1>5 DEF D!PollDrq
  <2>2. CASE io.polls > 1
    <3>1. /\ io'.pc = "drq" /\ io'.done = io.done /\ io'.lba = io.lba
          /\ io'.count = io.count /\ io'.buffer = io.buffer /\ io'.op = io.op
      BY <1>5, <1>b, <2>1, <2>2 DEF D!PollDrq, DiskTypeOK, Calls
    <3>2. \A n \in Nat : Moved(n) => Moved(n)'
      BY <2>1, <3>1 DEF Moved
    <3> QED
      BY <1>b, <2>1, <3>1, <3>2
  <2>3. CASE io.polls = 1
    <3>1. io'.pc = "returned" /\ io'.ret = -1
      BY <1>5, <1>b, <2>3 DEF D!PollDrq, D!Return, DiskTypeOK, Calls
    <3>2. drive.cmd = None
      BY <1>5, <2>3 DEF D!PollDrq
    <3> QED
      BY <2>1, <3>1, <3>2
  <2> QED
    BY <1>b, <2>1, <2>2, <2>3 DEF CallInv
<1>6. CASE D!Flush
  <2>1. /\ io'.pc = "bsy" /\ io'.done = io.done /\ io'.lba = io.lba /\ io'.count = io.count
        /\ io'.buffer = io.buffer /\ io'.failed = io.failed /\ io.pc = "flush" /\ disk' = disk
    BY <1>6, <1>b DEF D!Flush, DiskTypeOK, Calls
  <2>2. \A n : Moved(n) => Moved(n)'
    BY <2>1 DEF Moved
  <2>3. CASE drive.cmd # None
    <3>1. drive' = drive
      BY <1>6, <2>3 DEF D!Flush, D!Take
    <3> QED
      BY <1>b, <2>1, <2>2, <3>1
  <2>4. CASE drive.cmd = None
    <3>1. drive'.cmd = "flush" /\ drive'.got = None
      BY <1>6, <2>4 DEF D!Flush, D!Take
    <3> QED
      BY <1>b, <2>1, <2>2, <2>4, <3>1
  <2> QED
    BY <2>3, <2>4
<1>7. CASE D!PollBsy
  <2>1. /\ io.pc = "bsy" /\ UNCHANGED <<disk, drive>> /\ io'.done = io.done
        /\ io'.lba = io.lba /\ io'.count = io.count /\ io'.buffer = io.buffer
        /\ io'.failed = io.failed /\ io'.op = io.op
    BY <1>7, <1>b DEF D!PollBsy, D!Return, DiskTypeOK, Calls
  <2>2. \A n : Moved(n) => Moved(n)'
    BY <2>1 DEF Moved
  <2>3. CASE drive.bsy /\ io.polls > 1
    <3>1. io'.pc = "bsy"
      BY <1>7, <1>b, <2>3 DEF D!PollBsy, DiskTypeOK, Calls
    <3> QED
      BY <1>b, <2>1, <2>2, <3>1
  <2>4. CASE ~(drive.bsy /\ io.polls > 1)
    <3>1. ~drive.bsy
      BY <1>7, <1>b, <2>1, <2>4 DEF D!PollBsy, CallInv
    <3>2. drive.got = None /\ drive.cmd = None /\ io.op = "write"
      BY <1>b, <2>1, <3>1 DEF LimitInv, CallInv
    <3>3. io'.pc = "returned"
      BY <1>7, <1>b, <2>4 DEF D!PollBsy, D!Return, DiskTypeOK, Calls
    <3> QED
      BY <1>b, <2>1, <2>2, <3>2, <3>3
  <2> QED
    BY <2>3, <2>4
<1>8. CASE D!DriveReady
  <2>1. /\ drive'.cmd = drive.cmd /\ drive'.lba = drive.lba /\ drive'.left = drive.left
        /\ drive'.got = drive.got /\ UNCHANGED <<disk, io>>
    BY <1>8, <1>b DEF D!DriveReady, DiskTypeOK, Commands
  <2>2. \A n : Moved(n) => Moved(n)'
    BY <2>1 DEF Moved
  <2> QED
    BY <1>b, <2>1, <2>2
<1>9. CASE D!DriveStores
  <2>1. drive.got # None /\ io' = io /\ disk' = [disk EXCEPT ![drive.lba] = drive.got]
    BY <1>9 DEF D!DriveStores
  <2>2. /\ drive.got = io.buffer[io.done] /\ io.done > 0
        /\ drive.lba = io.lba + io.done - 1 /\ drive.left = io.count - io.done + 1
        /\ Moved(io.done - 1)
    BY <1>b, <2>1
  <2>3. drive.lba \in DOMAIN disk
    BY <1>b, <2>1, DriveAssumption DEF LimitInv, DiskTypeOK, D!DiskAssumption
  <2>4. Moved(io.done)'
    <3>1. disk'[io.lba + io.done - 1] = io.buffer[io.done]
      BY <2>1, <2>2, <2>3
    <3>2. \A i \in 1 .. io.done - 1 : disk'[io.lba + i - 1] = disk[io.lba + i - 1]
      BY <2>1, <2>2
    <3>3. \A i \in 1 .. io.done - 1 : disk'[io.lba + i - 1] = io.buffer[i]
      BY <2>2, <3>2 DEF Moved
    <3>4. \A i \in 1 .. io.done : i \in 1 .. io.done - 1 \/ i = io.done
      OBVIOUS
    <3> QED
      BY <2>1, <3>1, <3>3, <3>4 DEF Moved
  <2>5. CASE io.pc = "drq"
    <3>1. drive.left # 1
      BY <1>b, <2>2, <2>5 DEF CallInv
    <3>2. /\ drive'.cmd = drive.cmd /\ drive'.got = None /\ drive'.lba = drive.lba + 1
          /\ drive'.left = drive.left - 1
      BY <1>9, <1>b, <3>1 DEF D!DriveStores, DiskTypeOK, Commands
    <3> QED
      BY <1>b, <2>1, <2>2, <2>4, <2>5, <3>2
  <2>6. CASE io.pc \in {"flush", "bsy"}
    <3>1. drive.left = 1 /\ io.done = io.count
      BY <1>b, <2>2, <2>6 DEF CallInv
    <3>2. drive'.cmd = None /\ drive'.got = None
      BY <1>9, <3>1 DEF D!DriveStores, D!Idle
    <3> QED
      BY <2>1, <2>4, <2>6, <3>1, <3>2
  <2> QED
    BY <2>1, <2>5, <2>6
<1>10. CASE D!DriveFlushed
  <2>1. /\ drive'.cmd = None /\ drive'.got = None /\ UNCHANGED <<disk, io>>
        /\ drive.cmd = "flush" /\ drive.got = None
    BY <1>10 DEF D!DriveFlushed, D!Idle
  <2>2. \A n : Moved(n) => Moved(n)'
    BY <2>1 DEF Moved
  <2>3. io.pc # "returned"
    BY <1>b, <2>1
  <2> QED
    BY <1>b, <2>1, <2>2, <2>3
<1>11. CASE D!DriveFails
  <2>1. drive.cmd # None /\ io.pc \notin {"returned", "command"}
    BY <1>11, <1>b DEF D!DriveFails
  <2>2. drive'.cmd = None /\ drive'.got = None /\ disk' = disk
    BY <1>11 DEF D!DriveFails, D!Idle
  <2>3. /\ io'.failed /\ io'.pc = io.pc /\ io'.lba = io.lba /\ io'.count = io.count
        /\ io'.buffer = io.buffer
    BY <1>11, <1>b, <2>1 DEF D!DriveFails, DiskTypeOK, Calls
  <2>4. \A n : Moved(n) => Moved(n)'
    BY <2>2, <2>3 DEF Moved
  <2>5. io.pc \in {"flush", "bsy"} => Moved(io.count - 1)
    <3>1. CASE drive.got = None
      BY <1>b, <3>1 DEF Moved
    <3>2. CASE drive.got # None
      BY <1>b, <3>2 DEF CallInv
    <3> QED
      BY <3>1, <3>2
  <2> QED
    BY <2>1, <2>2, <2>3, <2>4, <2>5
<1>12. CASE UNCHANGED D!diskVars
  BY <1>12, <1>b DEF D!diskVars, Moved
<1> QED
  BY <1>1, <1>2, <1>3, <1>4, <1>5, <1>6, <1>7, <1>8, <1>9, <1>10, <1>11, <1>12
     DEF D!Next, D!secure_write, D!secure_read

(* DiskInv holds in every state, however the calls and the drive interleave. *)
THEOREM DiskInvariant == D!Spec => []DiskInv
<1>1. DiskInv /\ [D!Next]_(D!diskVars) => DiskInv'
  BY DiskTypeStep, LimitStep, CallStep, TransferStep DEF DiskInv
<1> QED
  BY <1>1, DiskInvInit, PTL DEF D!Spec

(* Of the composition, SafeDisk and its drive take exactly their own steps.  *)
THEOREM DiskPart == DriversSpec => D!Spec
<1>1. DriversInit => D!Init
  BY DEF DriversInit
<1>2. [DriversNext]_driversVars => [D!Next]_(D!diskVars)
  BY DEF DriversNext, driversVars, AhciStep, DiskStep, RtlStep, ScanStep, diskVars,
         D!diskVars
<1> QED
  BY <1>1, <1>2, PTL DEF DriversSpec, D!Spec

(* No write passes the limit, and until a call lapses one that returns 0 has *)
(* moved every sector.                                                       *)
THEOREM TransferCorrect == DriversSpec => []OkIsTransfer
<1>1. DiskInv => OkIsTransfer
  <2> SUFFICES ASSUME DiskInv PROVE OkIsTransfer
    OBVIOUS
  <2>1. ASSUME Moved(io.count - 1)
        PROVE  \A i \in 1 .. io.count : disk[io.lba + i - 1] = io.buffer[i] \/ i = io.count
    BY <2>1, DiskFacts DEF Moved
  <2> QED
    BY <2>1 DEF DiskInv, LimitInv, CallInv, TransferInv, Moved, OkIsTransfer, D!OkIsTransfer
<1> QED
  BY <1>1, DiskInvariant, DiskPart, PTL

-----------------------------------------------------------------------------
(* The PCI scan.  Places in the order of the loops; the scan ends at one     *)
(* that is on no bus.                                                        *)
Spot == Nat \X Nat \X Nat

LEMMA SpotParts ==
  ASSUME NEW p \in Spot
  PROVE  p[1] \in Nat /\ p[2] \in Nat /\ p[3] \in Nat /\ p = <<p[1], p[2], p[3]>>
  BY DEF Spot

LEMMA SpotOrder ==
  ASSUME NEW p \in Spot, NEW q \in Spot
  PROVE  /\ ~P!Before(p, p)
         /\ P!Before(p, q) => ~P!Before(q, p)
         /\ P!Before(p, q) \/ p = q \/ P!Before(q, p)
  BY SpotParts DEF P!Before

LEMMA SpotTransitive ==
  ASSUME NEW p \in Spot, NEW q \in Spot, NEW r \in Spot, P!Before(p, q), P!Before(q, r)
  PROVE  P!Before(p, r)
  BY SpotParts DEF P!Before

LEMMA ScanFacts ==
  /\ NBus \in Nat \ {0} /\ NSlot \in Nat \ {0} /\ NFunc \in Nat \ {0}
  /\ MaxDevices \in Nat \ {0} /\ "stale" \notin RtlIds
  BY ScanAssumption DEF P!MachineAssumption

LEMMA PlaceParts ==
  ASSUME NEW p \in P!Place
  PROVE  p \in Spot /\ p[1] < NBus /\ p[2] < NSlot /\ p[3] < NFunc
<1>1. p[1] \in 0 .. NBus - 1 /\ p[2] \in 0 .. NSlot - 1 /\ p[3] \in 0 .. NFunc - 1
      /\ p = <<p[1], p[2], p[3]>>
  BY DEF P!Place
<1>2. p[1] \in Nat /\ p[2] \in Nat /\ p[3] \in Nat /\ p[1] < NBus /\ p[2] < NSlot /\ p[3] < NFunc
  BY <1>1, ScanFacts
<1> QED BY <1>1, <1>2 DEF Spot

LEMMA PlaceIs ==
  ASSUME NEW p \in Spot, p[1] < NBus, p[2] < NSlot, p[3] < NFunc PROVE p \in P!Place
<1>1. p[1] \in 0 .. NBus - 1 /\ p[2] \in 0 .. NSlot - 1 /\ p[3] \in 0 .. NFunc - 1
  BY SpotParts, ScanFacts
<1> QED BY <1>1, SpotParts DEF P!Place

LEMMA NotAPlace ==
  ASSUME NEW p \in P!Place
  PROVE  p # P!NotYet /\ p # P!Nothing /\ P!NotYet # P!Nothing
<1>1. p = <<p[1], p[2], p[3]>>
  BY PlaceParts, SpotParts
<1>2. \A a, b, c, d : <<a, b, c>> # <<d>>
  OBVIOUS
<1> QED BY <1>1, <1>2 DEF P!NotYet, P!Nothing

LEMMA AppendIs ==
  ASSUME NEW T, NEW s \in Seq(T), NEW e, NEW t, t = Append(s, e)
  PROVE  /\ t \in Seq(T \cup {e}) /\ Len(t) = Len(s) + 1 /\ Len(s) \in Nat
         /\ DOMAIN s = 1 .. Len(s) /\ DOMAIN t = 1 .. Len(s) + 1
         /\ t[Len(s) + 1] = e /\ \A i \in 1 .. Len(s) : t[i] = s[i]
  OBVIOUS

(* Where the scan is, and what machine it is on.  The rest of the invariant  *)
(* is about the table: what is listed at each place, and what was passed by. *)
PlaceInv ==
    /\ at \in Spot /\ at[1] <= NBus /\ at[2] < NSlot /\ at[3] < NFunc
    /\ found # P!NotYet => at[1] = NBus

FunctionOK(f) == f = [id |-> f.id, multi |-> f.multi, bar |-> f.bar, cmd |-> f.cmd]
SpaceInv ==
    /\ bridge \in [bytes : BOOLEAN, there : BOOLEAN, multi : BOOLEAN]
    /\ DOMAIN space \subseteq P!Place
    /\ \A p \in DOMAIN space : FunctionOK(space[p])
    /\ \E T : pci_devices \in Seq(T)

(* A scan that works has listed the visible functions it is past, in order,  *)
(* until the table was full.                                                 *)
AtSeveral == at[3] > 0 => \E q \in DOMAIN space : q = <<at[1], at[2], 0>> /\ space[q].multi
EntryOK(i) ==
    /\ pci_devices[i].place \in P!Visible /\ P!Before(pci_devices[i].place, at)
    /\ pci_devices[i].id = space[pci_devices[i].place].id
    /\ \A j \in 1 .. i - 1 : P!Before(pci_devices[j].place, pci_devices[i].place)
MissedOK(p) == Len(pci_devices) = MaxDevices /\ \A q \in P!Listed : P!Before(q, p)
CommandIs(p) == space[p].cmd = IF p \in P!Listed THEN {"memory", "master"} ELSE {}
ListInv ==
    bridge.bytes =>
        /\ AtSeveral /\ Len(pci_devices) <= MaxDevices
        /\ \A i \in DOMAIN pci_devices : EntryOK(i)
        /\ \A p \in P!Visible \ P!Listed : P!Before(p, at) => MissedOK(p)
        /\ found = P!NotYet => \A p \in DOMAIN space : CommandIs(p)

(* A scan of a bridge that takes no single bytes lists one answer.           *)
StaleInv ==
    ~bridge.bytes =>
        /\ bridge.there => at = <<0, 0, 0>> \/ pci_devices # <<>>
        /\ ~bridge.there => pci_devices = <<>>
        /\ \A i \in DOMAIN pci_devices : pci_devices[i].id = "stale"
        /\ found = P!NotYet => \A p \in DOMAIN space : space[p].cmd = {}

CardInv == found \notin {P!NotYet, P!Nothing} => P!CardRight

PciInv == PlaceInv /\ SpaceInv /\ ListInv /\ StaleInv /\ CardInv

LEMMA PciInvInit == P!PciInit => PciInv
<1> SUFFICES ASSUME P!PciInit PROVE PciInv
  OBVIOUS
<1>1. /\ bridge \in [bytes : BOOLEAN, there : BOOLEAN, multi : BOOLEAN]
      /\ space \in Machines /\ at = <<0, 0, 0>> /\ pci_devices = <<>> /\ found = P!NotYet
  BY DEF P!PciInit
<1>2. PlaceInv
  BY <1>1, ScanFacts DEF PlaceInv, Spot
<1>3. /\ DOMAIN space \subseteq P!Place
      /\ \A p \in DOMAIN space :
            space[p] = [id |-> space[p].id, multi |-> space[p].multi, bar |-> space[p].bar, cmd |-> {}]
  BY <1>1, ScanAssumption, Zenon DEF P!MachineAssumption
<1>4. \A p \in DOMAIN space : FunctionOK(space[p]) /\ space[p].cmd = {}
  BY <1>3 DEF FunctionOK
<1>5. DOMAIN pci_devices = {} /\ Len(pci_devices) = 0 /\ P!Listed = {} /\ at[3] = 0
  BY <1>1 DEF P!Listed
<1>6. SpaceInv
  <2>1. pci_devices \in Seq({})
    BY <1>1
  <2> QED BY <1>1, <1>3, <1>4, <2>1 DEF SpaceInv
<1>7. \A p \in DOMAIN space : ~P!Before(p, at)
  BY <1>1, <1>3, PlaceParts, SpotParts DEF P!Before
<1>8. ListInv
  <2>1. P!Visible \subseteq DOMAIN space
    BY DEF P!Visible
  <2>2. 0 <= MaxDevices
    BY ScanFacts
  <2> QED BY <1>4, <1>5, <1>7, <2>1, <2>2 DEF ListInv, AtSeveral, CommandIs
<1>9. StaleInv
  BY <1>1, <1>4, <1>5 DEF StaleInv
<1>10. CardInv
  BY <1>1 DEF CardInv
<1> QED BY <1>2, <1>6, <1>8, <1>9, <1>10 DEF PciInv

(* The place after the one the scan is at.                                   *)
LEMMA AfterIs ==
  ASSUME PlaceInv, at[1] < NBus, NEW n, n = P!After(at)
  PROVE  /\ n \in Spot /\ n[1] <= NBus /\ n[2] < NSlot /\ n[3] < NFunc
         /\ P!Before(at, n)
         /\ n[3] > 0 => P!Several(at) /\ n[1] = at[1] /\ n[2] = at[2]
         /\ \A p \in P!Place : P!Before(p, n) =>
               \/ P!Before(p, at) \/ p = at
               \/ ~P!Several(at) /\ p[1] = at[1] /\ p[2] = at[2] /\ p[3] > 0
<1>1. PICK a \in Nat, b \in Nat, c \in Nat : at = <<a, b, c>>
  BY DEF PlaceInv, Spot
<1>2. at[1] = a /\ at[2] = b /\ at[3] = c /\ a < NBus /\ b < NSlot /\ c < NFunc
  BY <1>1 DEF PlaceInv
<1>3. ASSUME NEW p \in P!Place
      PROVE  \E x \in Nat, y \in Nat, z \in Nat :
                p = <<x, y, z>> /\ x < NBus /\ y < NSlot /\ z < NFunc
  BY PlaceParts, SpotParts
<1>4. NSlot \in Nat \ {0} /\ NFunc \in Nat \ {0} /\ NBus \in Nat \ {0}
  BY ScanFacts
<1>5. CASE P!Several(at) /\ c + 1 < NFunc
  <2>1. n = <<a, b, c + 1>>
    BY <1>2, <1>5 DEF P!After
  <2>2. n[1] = a /\ n[2] = b /\ n[3] = c + 1 /\ n \in Spot
    BY <2>1 DEF Spot
  <2>3. ASSUME NEW p \in P!Place, P!Before(p, n) PROVE P!Before(p, at) \/ p = at
    <3>1. PICK x \in Nat, y \in Nat, z \in Nat : p = <<x, y, z>>
      BY <1>3
    <3>2. p[1] = x /\ p[2] = y /\ p[3] = z
      BY <3>1
    <3>3. x < a \/ (x = a /\ (y < b \/ (y = b /\ z < c + 1)))
      BY <2>2, <2>3, <3>2 DEF P!Before
    <3>4. x < a \/ (x = a /\ (y < b \/ (y = b /\ z < c))) \/ (x = a /\ y = b /\ z = c)
      BY <3>3
    <3> QED BY <1>1, <1>2, <3>1, <3>2, <3>4, Zenon DEF P!Before
  <2>4. P!Before(at, n)
    <3>1. c < c + 1
      OBVIOUS
    <3> QED BY <1>2, <2>2, <3>1 DEF P!Before
  <2>5. n[1] <= NBus /\ n[2] < NSlot /\ n[3] < NFunc
    BY <1>2, <1>4, <1>5, <2>2
  <2> QED BY <1>2, <1>5, <2>2, <2>3, <2>4, <2>5, Zenon
<1>6. ASSUME ~(P!Several(at) /\ c + 1 < NFunc),
             NEW m \in Nat, NEW l \in Nat, n = <<m, l, 0>>, m <= NBus, l < NSlot,
             (m = a /\ l = b + 1) \/ (m = a + 1 /\ l = 0 /\ ~(b + 1 < NSlot))
      PROVE  /\ n \in Spot /\ n[1] <= NBus /\ n[2] < NSlot /\ n[3] < NFunc
             /\ P!Before(at, n) /\ ~(n[3] > 0)
             /\ \A p \in P!Place : P!Before(p, n) =>
                   \/ P!Before(p, at) \/ p = at
                   \/ ~P!Several(at) /\ p[1] = at[1] /\ p[2] = at[2] /\ p[3] > 0
  <2>1. n[1] = m /\ n[2] = l /\ n[3] = 0 /\ n \in Spot
    BY <1>6 DEF Spot
  <2>2. n[1] <= NBus /\ n[2] < NSlot /\ n[3] < NFunc /\ ~(n[3] > 0)
    BY <1>4, <1>6, <2>1
  <2>3. P!Before(at, n)
    <3>1. a < m \/ (a = m /\ b < l)
      BY <1>6
    <3> QED BY <1>2, <2>1, <3>1 DEF P!Before
  <2>4. ASSUME NEW p \in P!Place, P!Before(p, n)
        PROVE  \/ P!Before(p, at) \/ p = at
               \/ ~P!Several(at) /\ p[1] = at[1] /\ p[2] = at[2] /\ p[3] > 0
    <3>1. PICK x \in Nat, y \in Nat, z \in Nat : p = <<x, y, z>> /\ y < NSlot /\ z < NFunc
      BY <1>3
    <3>2. p[1] = x /\ p[2] = y /\ p[3] = z
      BY <3>1
    <3>3. x < m \/ (x = m /\ y < l) \/ (x = m /\ y = l /\ z < 0)
      BY <2>1, <2>4, <3>2 DEF P!Before
    <3>4. x < a \/ (x = a /\ y <= b)
      BY <1>2, <1>4, <1>6, <3>1, <3>3
    <3>5. \/ x < a \/ (x = a /\ (y < b \/ (y = b /\ z < c)))
          \/ x = a /\ y = b /\ z = c
          \/ x = a /\ y = b /\ z > 0 /\ c + 1 < NFunc
      BY <1>2, <1>4, <3>1, <3>4
    <3>6. c + 1 < NFunc => ~P!Several(at)
      BY <1>6, Zenon
    <3> QED BY <1>1, <1>2, <3>1, <3>2, <3>5, <3>6, Zenon DEF P!Before
  <2> QED BY <2>1, <2>2, <2>3, <2>4, Zenon
<1>7. CASE ~(P!Several(at) /\ c + 1 < NFunc) /\ b + 1 < NSlot
  <2>1. n = <<a, b + 1, 0>>
    BY <1>2, <1>7 DEF P!After
  <2>2. a \in Nat /\ b + 1 \in Nat /\ a <= NBus
    BY <1>2, <1>4
  <2> QED BY <1>6, <1>7, <2>1, <2>2, Zenon
<1>8. CASE ~(P!Several(at) /\ c + 1 < NFunc) /\ ~(b + 1 < NSlot)
  <2>1. n = <<a + 1, 0, 0>>
    BY <1>2, <1>8 DEF P!After
  <2>2. a + 1 \in Nat /\ 0 \in Nat /\ a + 1 <= NBus /\ 0 < NSlot
    BY <1>2, <1>4
  <2> QED BY <1>6, <1>8, <2>1, <2>2, Zenon
<1> QED BY <1>5, <1>7, <1>8, Zenon

(* The functions are what they were but for their command registers.         *)
SameFunctions ==
    /\ DOMAIN space' = DOMAIN space
    /\ \A p \in DOMAIN space : /\ FunctionOK(space'[p]) /\ space'[p].id = space[p].id
                               /\ space'[p].multi = space[p].multi

LEMMA SameVisible ==
  ASSUME SameFunctions
  PROVE  P!Visible' = P!Visible /\ P!Cards' = P!Cards
  BY DEF SameFunctions, P!Visible, P!Cards

LEMMA CommandWritten ==
  ASSUME SpaceInv, NEW p \in DOMAIN space, NEW set,
         space' = [space EXCEPT ![p].cmd = @ \cup set]
  PROVE  /\ SameFunctions /\ space'[p].cmd = space[p].cmd \cup set
         /\ \A q \in DOMAIN space : q # p => space'[q] = space[q]
<1>1. DOMAIN space' = DOMAIN space /\ \A q \in DOMAIN space : q # p => space'[q] = space[q]
  OBVIOUS
<1>2. \A q \in DOMAIN space : FunctionOK(space[q])
  BY DEF SpaceInv
<1>3. space'[p] = [space[p] EXCEPT !.cmd = @ \cup set]
  OBVIOUS
<1>4. PICK f : f = space[p] /\ FunctionOK(f)
  BY <1>2
<1>5. space'[p] = [id |-> f.id, multi |-> f.multi, bar |-> f.bar, cmd |-> f.cmd \cup set]
  BY <1>3, <1>4 DEF FunctionOK
<1>6. /\ FunctionOK(space'[p]) /\ space'[p].id = f.id /\ space'[p].multi = f.multi
      /\ space'[p].cmd = f.cmd \cup set
  BY <1>5 DEF FunctionOK
<1> QED BY <1>1, <1>2, <1>4, <1>6 DEF SameFunctions

(* What a place the scan has something to list of adds to the table.         *)
Appended(e) ==
    /\ pci_devices' = Append(pci_devices, e)
    /\ DOMAIN pci_devices = 1 .. Len(pci_devices) /\ Len(pci_devices) \in Nat
    /\ DOMAIN pci_devices' = 1 .. Len(pci_devices) + 1
    /\ Len(pci_devices') = Len(pci_devices) + 1
    /\ pci_devices'[Len(pci_devices) + 1] = e
    /\ \A i \in 1 .. Len(pci_devices) : pci_devices'[i] = pci_devices[i]
    /\ P!Listed' = P!Listed \cup {e.place}

LEMMA TableGrows ==
  ASSUME SpaceInv, NEW e, pci_devices' = Append(pci_devices, e)
  PROVE  Appended(e) /\ (\E T : pci_devices' \in Seq(T))
<1>1. PICK T : pci_devices \in Seq(T)
  BY DEF SpaceInv
<1>2. /\ pci_devices' \in Seq(T \cup {e})
      /\ Len(pci_devices') = Len(pci_devices) + 1
      /\ \A i \in 1 .. Len(pci_devices) : pci_devices'[i] = pci_devices[i]
      /\ pci_devices'[Len(pci_devices) + 1] = e
      /\ DOMAIN pci_devices' = 1 .. Len(pci_devices) + 1
      /\ DOMAIN pci_devices = 1 .. Len(pci_devices) /\ Len(pci_devices) \in Nat
  BY <1>1, AppendIs
<1>3. \A n \in Nat : 1 .. n + 1 = (1 .. n) \cup {n + 1}
  OBVIOUS
<1>4. DOMAIN pci_devices' = DOMAIN pci_devices \cup {Len(pci_devices) + 1}
  BY <1>2, <1>3, Zenon
<1>5. P!Listed' = P!Listed \cup {e.place}
  <2>1. /\ \A i \in DOMAIN pci_devices : pci_devices'[i].place = pci_devices[i].place
        /\ pci_devices'[Len(pci_devices) + 1].place = e.place
    BY <1>2
  <2>2. ASSUME NEW q PROVE q \in P!Listed' <=> q \in P!Listed \/ q = e.place
    BY <1>4, <2>1, Zenon DEF P!Listed
  <2> QED BY <2>2
<1> QED BY <1>2, <1>5, Zenon DEF Appended

LEMMA VisibleFacts ==
  /\ P!Visible \subseteq DOMAIN space
  /\ SpaceInv => P!Visible \subseteq Spot /\ P!Visible \subseteq P!Place
<1>1. P!Visible \subseteq DOMAIN space
  BY DEF P!Visible
<1>2. SpaceInv => DOMAIN space \subseteq P!Place
  BY DEF SpaceInv
<1>3. P!Place \subseteq Spot
  BY PlaceParts
<1> QED BY <1>1, <1>2, <1>3

LEMMA ListedIs ==
  ASSUME NEW q \in P!Listed
  PROVE  \E i \in DOMAIN pci_devices : q = pci_devices[i].place
  BY DEF P!Listed

(* On a bridge that works, what has been listed is behind the scan.          *)
LEMMA ListedBefore ==
  ASSUME ListInv, bridge.bytes, NEW q \in P!Listed
  PROVE  q \in P!Visible /\ P!Before(q, at)
<1>1. PICK i \in DOMAIN pci_devices : q = pci_devices[i].place
  BY ListedIs
<1>2. EntryOK(i)
  BY DEF ListInv
<1> QED BY <1>1, <1>2 DEF EntryOK

LEMMA AtVisible ==
  ASSUME PlaceInv, AtSeveral, at \in DOMAIN space
  PROVE  at \in P!Visible
<1>1. at[3] > 0 \/ at[3] = 0
  BY SpotParts DEF PlaceInv
<1> QED BY <1>1 DEF AtSeveral, P!Visible

LEMMA SeveralThere ==
  ASSUME PlaceInv, AtSeveral, bridge.bytes, P!Several(at)
  PROVE  \E q \in DOMAIN space : q = <<at[1], at[2], 0>> /\ space[q].multi
<1>1. CASE at[3] > 0
  BY <1>1 DEF AtSeveral
<1>2. CASE ~(at[3] > 0)
  <2>1. at[3] = 0
    BY <1>2, SpotParts DEF PlaceInv
  <2>2. at = <<at[1], at[2], 0>>
    BY <2>1, SpotParts DEF PlaceInv
  <2>3. at \in DOMAIN space /\ space[at].multi
    BY <1>2 DEF P!Several, P!There, P!Multi
  <2> QED BY <2>2, <2>3
<1> QED BY <1>1, <1>2

LEMMA NotSeveral ==
  ASSUME PlaceInv, bridge.bytes, ~P!Several(at),
         NEW p \in P!Visible, p[1] = at[1], p[2] = at[2], p[3] > 0, p[3] \in Nat
  PROVE  FALSE
<1>1. PICK q \in DOMAIN space : q = <<p[1], p[2], 0>> /\ space[q].multi
  BY DEF P!Visible
<1>2. at[3] = 0
  BY SpotParts DEF P!Several, PlaceInv
<1>3. at = q
  BY <1>1, <1>2, SpotParts DEF PlaceInv
<1> QED BY <1>1, <1>3 DEF P!Several, P!There, P!Multi

(* What the place after has been passed by.                                  *)
LEMMA PastIs ==
  ASSUME PlaceInv, SpaceInv, bridge.bytes, at[1] < NBus, NEW n, n = P!After(at),
         NEW p \in P!Visible, P!Before(p, n)
  PROVE  P!Before(p, at) \/ p = at
<1>1. p \in P!Place /\ p[3] \in Nat
  BY VisibleFacts, PlaceParts, SpotParts
<1>2. \/ P!Before(p, at) \/ p = at
      \/ ~P!Several(at) /\ p[1] = at[1] /\ p[2] = at[2] /\ p[3] > 0
  BY AfterIs, <1>1, Zenon
<1> QED BY <1>1, <1>2, NotSeveral, Zenon

LEMMA ScanMoves ==
  ASSUME PciInv, P!pci_init
  PROVE  /\ at[1] < NBus /\ PlaceInv' /\ P!Before(at, at') /\ at' = P!After(at)
         /\ bridge' = bridge /\ found' = found /\ found = P!NotYet
         /\ bridge.bytes /\ SameFunctions => AtSeveral'
<1>1. /\ at[1] < NBus /\ at' = P!After(at) /\ bridge' = bridge /\ found' = found
      /\ PlaceInv /\ SpaceInv
  BY DEF P!pci_init, PciInv
<1>2. at[1] # NBus /\ found = P!NotYet
  BY <1>1, SpotParts, ScanFacts DEF PlaceInv
<1>3. /\ at' \in Spot /\ at'[1] <= NBus /\ at'[2] < NSlot /\ at'[3] < NFunc
      /\ P!Before(at, at')
      /\ at'[3] > 0 => P!Several(at) /\ at'[1] = at[1] /\ at'[2] = at[2]
  BY <1>1, AfterIs, Zenon
<1>4. PlaceInv'
  BY <1>1, <1>2, <1>3 DEF PlaceInv, P!NotYet
<1>5. ASSUME bridge.bytes, SameFunctions PROVE AtSeveral'
  <2>1. SUFFICES ASSUME at'[3] > 0
                 PROVE  \E q \in DOMAIN space' : q = <<at'[1], at'[2], 0>> /\ space'[q].multi
    BY DEF AtSeveral
  <2>2. PICK q \in DOMAIN space : q = <<at[1], at[2], 0>> /\ space[q].multi
    BY <1>1, <1>3, <1>5, <2>1, SeveralThere DEF PciInv, ListInv
  <2>3. q \in DOMAIN space' /\ space'[q].multi
    BY <1>5, <2>2 DEF SameFunctions
  <2> QED BY <1>3, <2>1, <2>2, <2>3
<1> QED BY <1>1, <1>2, <1>3, <1>4, <1>5, Zenon

LEMMA NothingListed ==
  ASSUME PciInv, P!pci_init, ~P!There(at) \/ Len(pci_devices) >= MaxDevices
  PROVE  PciInv'
<1>1. /\ at[1] < NBus /\ PlaceInv' /\ P!Before(at, at') /\ at' = P!After(at)
      /\ bridge' = bridge /\ found' = found /\ found = P!NotYet
      /\ bridge.bytes /\ SameFunctions => AtSeveral'
  BY ScanMoves
<1>2. pci_devices' = pci_devices /\ space' = space
  BY DEF P!pci_init, P!pci_scan_device
<1>3. PlaceInv /\ SpaceInv /\ ListInv /\ StaleInv
  BY DEF PciInv
<1>4. SpaceInv' /\ SameFunctions
  BY <1>1, <1>2, <1>3 DEF SpaceInv, SameFunctions, P!Place
<1>5. P!Visible' = P!Visible /\ P!Listed' = P!Listed
  BY <1>2, <1>4, SameVisible DEF P!Listed
<1>6. at \in Spot /\ at' \in Spot
  BY <1>1, <1>3 DEF PlaceInv
<1>7. Len(pci_devices) \in Nat /\ DOMAIN pci_devices = 1 .. Len(pci_devices)
  BY <1>3 DEF SpaceInv
<1>8. CardInv'
  BY <1>1 DEF CardInv, P!NotYet
<1>9. CASE bridge.bytes
  <2>1. /\ AtSeveral /\ Len(pci_devices) <= MaxDevices
        /\ \A i \in DOMAIN pci_devices : EntryOK(i)
        /\ \A p \in P!Visible \ P!Listed : P!Before(p, at) => MissedOK(p)
        /\ \A p \in DOMAIN space : CommandIs(p)
    BY <1>1, <1>3, <1>9 DEF ListInv
  <2>2. ASSUME NEW i \in DOMAIN pci_devices PROVE EntryOK(i)'
    <3>1. EntryOK(i)
      BY <2>1
    <3>2. pci_devices[i].place \in Spot
      BY <1>3, <3>1, VisibleFacts DEF EntryOK
    <3>3. P!Before(pci_devices[i].place, at')
      BY <1>1, <1>6, <3>1, <3>2, SpotTransitive DEF EntryOK
    <3> QED BY <1>2, <1>5, <3>1, <3>3 DEF EntryOK, P!Before
  <2>3. ASSUME NEW p \in P!Visible \ P!Listed, P!Before(p, at') PROVE MissedOK(p)
    <3>1. P!Before(p, at) \/ p = at
      BY <1>1, <1>3, <1>9, <2>3, PastIs
    <3>2. CASE p = at
      <4>1. P!There(at)
        BY <1>9, <3>2, VisibleFacts DEF P!There
      <4>2. Len(pci_devices) >= MaxDevices /\ Len(pci_devices) <= MaxDevices
        BY <2>1, <4>1, Zenon
      <4>3. Len(pci_devices) = MaxDevices
        <5>1. Len(pci_devices) \in Nat
          BY <1>7
        <5> QED BY <4>2, <5>1, ScanFacts
      <4>4. \A q \in P!Listed : P!Before(q, p)
        BY <1>3, <1>9, <3>2, ListedBefore
      <4> QED BY <4>3, <4>4 DEF MissedOK
    <3> QED BY <2>1, <3>1, <3>2
  <2>4. \A p \in P!Visible' \ P!Listed' : (P!Before(p, at) => MissedOK(p))'
    BY <1>2, <1>5, <2>3 DEF MissedOK, P!Before
  <2>5. \A p \in DOMAIN space : CommandIs(p)'
    BY <1>2, <1>5, <2>1 DEF CommandIs
  <2>6. ListInv'
    BY <1>1, <1>2, <1>4, <1>9, <2>1, <2>2, <2>4, <2>5 DEF ListInv
  <2>7. StaleInv'
    BY <1>1, <1>9 DEF StaleInv
  <2> QED BY <1>1, <1>4, <1>8, <2>6, <2>7 DEF PciInv
<1>10. CASE ~bridge.bytes
  <2>1. bridge.there => pci_devices # <<>>
    <3>1. bridge.there => Len(pci_devices) >= MaxDevices
      BY <1>10 DEF P!There
    <3>2. Len(<<>>) = 0 /\ ~(0 >= MaxDevices)
      BY ScanFacts
    <3> QED BY <3>1, <3>2
  <2>2. StaleInv'
    BY <1>1, <1>2, <1>3, <1>10, <2>1 DEF StaleInv, P!NotYet
  <2>3. ListInv'
    BY <1>1, <1>10 DEF ListInv
  <2> QED BY <1>1, <1>4, <1>8, <2>2, <2>3 DEF PciInv
<1> QED BY <1>9, <1>10

LEMMA OneListed ==
  ASSUME PciInv, P!pci_init, P!There(at), ~(Len(pci_devices) >= MaxDevices)
  PROVE  PciInv'
<1>1. /\ at[1] < NBus /\ PlaceInv' /\ P!Before(at, at') /\ at' = P!After(at)
      /\ bridge' = bridge /\ found' = found /\ found = P!NotYet
      /\ bridge.bytes /\ SameFunctions => AtSeveral'
  BY ScanMoves
<1>2. pci_devices' = Append(pci_devices, P!Entry(at)) /\ space' = P!Enabled(at)
  BY DEF P!pci_init, P!pci_scan_device
<1>3. PlaceInv /\ SpaceInv /\ ListInv /\ StaleInv
  BY DEF PciInv
<1>4. Appended(P!Entry(at)) /\ \E T : pci_devices' \in Seq(T)
  BY <1>2, <1>3, TableGrows
<1>5. PICK e : e = P!Entry(at)
  OBVIOUS
<1>6. e.place = at /\ e.id = P!Identity(at)
  BY <1>5 DEF P!Entry
<1>7. PICK n : n = Len(pci_devices)
  OBVIOUS
<1>8. /\ DOMAIN pci_devices = 1 .. n /\ n \in Nat /\ DOMAIN pci_devices' = 1 .. n + 1
      /\ Len(pci_devices') = n + 1 /\ pci_devices'[n + 1] = e
      /\ \A i \in 1 .. n : pci_devices'[i] = pci_devices[i]
      /\ P!Listed' = P!Listed \cup {at}
  BY <1>4, <1>5, <1>6, <1>7 DEF Appended
<1>9. at \in Spot /\ at' \in Spot /\ ~(n >= MaxDevices)
  BY <1>1, <1>3, <1>7 DEF PlaceInv
<1>10. CardInv'
  BY <1>1 DEF CardInv, P!NotYet
<1>11. \A i \in 1 .. n + 1 : i \in 1 .. n \/ i = n + 1
  BY <1>8
<1>12. CASE bridge.bytes
  <2>1. /\ AtSeveral /\ \A i \in DOMAIN pci_devices : EntryOK(i)
        /\ \A p \in P!Visible \ P!Listed : P!Before(p, at) => MissedOK(p)
        /\ \A p \in DOMAIN space : CommandIs(p)
    BY <1>1, <1>3, <1>12 DEF ListInv
  <2>2. at \in DOMAIN space /\ at \in P!Visible
    BY <1>3, <1>12, <2>1, AtVisible DEF P!There
  <2>3. space' = [space EXCEPT ![at].cmd = @ \cup {"memory", "master"}]
    BY <1>2, <1>12 DEF P!Enabled
  <2>4. /\ SameFunctions /\ space'[at].cmd = space[at].cmd \cup {"memory", "master"}
        /\ \A q \in DOMAIN space : q # at => space'[q] = space[q]
    BY <1>3, <2>2, <2>3, CommandWritten
  <2>5. P!Visible' = P!Visible
    BY <2>4, SameVisible
  <2>6. SpaceInv'
    BY <1>1, <1>3, <1>4, <2>4 DEF SpaceInv, SameFunctions, P!Place
  <2>7. at \notin P!Listed
    BY <1>3, <1>9, <1>12, ListedBefore, SpotOrder
  <2>8. ASSUME NEW i \in 1 .. n PROVE EntryOK(i)'
    <3>1. EntryOK(i) /\ pci_devices'[i] = pci_devices[i]
      BY <1>8, <2>1
    <3>2. pci_devices[i].place \in Spot /\ pci_devices[i].place \in DOMAIN space
      BY <1>3, <3>1, VisibleFacts DEF EntryOK
    <3>3. P!Before(pci_devices[i].place, at')
      BY <1>1, <1>9, <3>1, <3>2, SpotTransitive DEF EntryOK
    <3>4. pci_devices[i].id = space'[pci_devices[i].place].id
      BY <2>4, <3>1, <3>2 DEF EntryOK, SameFunctions
    <3>5. ASSUME NEW j \in 1 .. i - 1
          PROVE  P!Before(pci_devices'[j].place, pci_devices'[i].place)
      <4>1. j \in 1 .. n
        BY <1>8
      <4> QED BY <1>8, <3>1, <4>1 DEF EntryOK
    <3> QED BY <2>5, <3>1, <3>3, <3>4, <3>5 DEF EntryOK, P!Before
  <2>9. EntryOK(n + 1)'
    <3>1. e.id = space'[at].id
      BY <1>6, <1>12, <2>2, <2>4 DEF P!Identity, SameFunctions
    <3>2. ASSUME NEW j \in 1 .. (n + 1) - 1 PROVE P!Before(pci_devices'[j].place, at)
      <4>1. j \in 1 .. n
        BY <1>8
      <4> QED BY <1>8, <2>1, <4>1 DEF EntryOK
    <3>3. pci_devices'[n + 1] = e /\ e.place = at /\ P!Before(at, at')
      BY <1>1, <1>6, <1>8
    <3> QED BY <2>2, <2>5, <3>1, <3>2, <3>3 DEF EntryOK, P!Before
  <2>10. \A i \in DOMAIN pci_devices' : EntryOK(i)'
    BY <1>8, <1>11, <2>8, <2>9
  <2>11. ASSUME NEW p \in P!Visible \ P!Listed, p # at, P!Before(p, at') PROVE FALSE
    <3>1. P!Before(p, at)
      BY <1>1, <1>3, <1>12, <2>11, PastIs
    <3>2. n = MaxDevices
      BY <1>7, <2>1, <3>1 DEF MissedOK
    <3> QED BY <1>8, <1>9, <3>2
  <2>12. \A p \in P!Visible' \ P!Listed' : (P!Before(p, at) => MissedOK(p))'
    BY <1>8, <2>5, <2>11 DEF P!Before
  <2>13. ASSUME NEW p \in DOMAIN space PROVE CommandIs(p)'
    <3>1. CASE p = at
      BY <1>8, <2>1, <2>4, <2>7, <3>1 DEF CommandIs
    <3>2. CASE p # at
      BY <1>8, <2>1, <2>4, <3>2 DEF CommandIs
    <3> QED BY <3>1, <3>2
  <2>14. Len(pci_devices') <= MaxDevices
    BY <1>8, <1>9, ScanFacts
  <2>15. ListInv'
    <3>1. \A p \in DOMAIN space' : CommandIs(p)'
      BY <2>4, <2>13 DEF SameFunctions
    <3> QED BY <1>1, <1>12, <2>4, <2>10, <2>12, <2>14, <3>1 DEF ListInv
  <2>16. StaleInv'
    BY <1>1, <1>12 DEF StaleInv
  <2> QED BY <1>1, <1>10, <2>6, <2>15, <2>16 DEF PciInv
<1>13. CASE ~bridge.bytes
  <2>1. space' = space /\ bridge.there /\ e.id = "stale"
    BY <1>2, <1>6, <1>13 DEF P!Enabled, P!There, P!Identity
  <2>2. SpaceInv'
    BY <1>1, <1>3, <1>4, <2>1 DEF SpaceInv, P!Place
  <2>3. pci_devices' # <<>>
    BY <1>8
  <2>4. \A i \in DOMAIN pci_devices : pci_devices[i].id = "stale"
    BY <1>3, <1>13 DEF StaleInv
  <2>5. \A i \in DOMAIN pci_devices' : pci_devices'[i].id = "stale"
    BY <1>8, <1>11, <2>1, <2>4
  <2>6. StaleInv'
    BY <1>1, <1>3, <1>13, <2>1, <2>3, <2>5 DEF StaleInv, P!NotYet
  <2>7. ListInv'
    BY <1>1, <1>13 DEF ListInv
  <2> QED BY <1>1, <1>10, <2>2, <2>6, <2>7 DEF PciInv
<1> QED BY <1>12, <1>13

(* The scan of rtl_find_device: it ends at the least of the cards.           *)
LEMMA LeastExists ==
  ASSUME NEW M, M \subseteq Nat, M # {} PROVE \E x \in M : \A y \in M : x <= y
<1>1. PICK x \in M : \A y \in M : ~(<<y, x>> \in OpToRel(<, Nat))
  BY WFMin, NatLessThanWellFounded
<1>2. ASSUME NEW y \in M PROVE x <= y
  <2>1. x \in Nat /\ y \in Nat
    OBVIOUS
  <2>2. ~(y < x)
    BY <1>1, <2>1 DEF OpToRel
  <2> QED BY <2>1, <2>2
<1> QED BY <1>2

LEMMA FirstPlace ==
  ASSUME NEW S, S \subseteq Spot, S # {} PROVE \E p \in S : \A q \in S : ~P!Before(q, p)
<1> DEFINE Buses == {p[1] : p \in S}
<1>1. PICK a \in Buses : \A x \in Buses : a <= x
  <2>1. Buses \subseteq Nat /\ Buses # {}
    BY SpotParts
  <2> QED BY <2>1, LeastExists
<1> DEFINE OnBus == {p \in S : p[1] = a}
           Slot == {p[2] : p \in OnBus}
<1>2. PICK b \in Slot : \A x \in Slot : b <= x
  <2>1. Slot \subseteq Nat /\ Slot # {}
    BY SpotParts
  <2> QED BY <2>1, LeastExists
<1> DEFINE InSlot == {p \in OnBus : p[2] = b}
           Functions == {p[3] : p \in InSlot}
<1>3. PICK c \in Functions : \A x \in Functions : c <= x
  <2>1. Functions \subseteq Nat /\ Functions # {}
    BY SpotParts
  <2> QED BY <2>1, LeastExists
<1>4. PICK p \in S : p[1] = a /\ p[2] = b /\ p[3] = c
  OBVIOUS
<1>5. a \in Nat /\ b \in Nat /\ c \in Nat
  BY <1>4, SpotParts
<1>6. ASSUME NEW q \in S PROVE ~P!Before(q, p)
  <2>1. q[1] \in Nat /\ q[2] \in Nat /\ q[3] \in Nat
    BY SpotParts
  <2>2. a <= q[1]
    BY <1>1
  <2>3. q[1] = a => b <= q[2]
    BY <1>2
  <2>4. q[1] = a /\ q[2] = b => c <= q[3]
    BY <1>3
  <2> QED BY <1>4, <1>5, <2>1, <2>2, <2>3, <2>4 DEF P!Before
<1> QED BY <1>6

LEMMA CardStep ==
  ASSUME PciInv, P!rtl_find_device
  PROVE  PciInv'
<1>1. /\ at[1] = NBus /\ found = P!NotYet /\ bridge' = bridge /\ at' = at
      /\ pci_devices' = pci_devices
  BY DEF P!rtl_find_device
<1>2. PlaceInv /\ SpaceInv /\ ListInv /\ StaleInv
  BY DEF PciInv
<1>3. P!Listed' = P!Listed
  BY <1>1 DEF P!Listed
<1>4. PlaceInv'
  BY <1>1, <1>2 DEF PlaceInv
<1>5. P!Nothing # P!NotYet
  BY DEF P!Nothing, P!NotYet
<1>6. ASSUME SameFunctions, found' # P!NotYet PROVE SpaceInv' /\ ListInv' /\ StaleInv'
  <2>1. P!Visible' = P!Visible
    BY <1>6, SameVisible
  <2>2. SpaceInv'
    BY <1>1, <1>2, <1>6 DEF SpaceInv, SameFunctions, P!Place
  <2>3. ASSUME bridge.bytes PROVE ListInv'
    <3>1. /\ AtSeveral /\ Len(pci_devices) <= MaxDevices
          /\ \A i \in DOMAIN pci_devices : EntryOK(i)
          /\ \A p \in P!Visible \ P!Listed : P!Before(p, at) => MissedOK(p)
      BY <1>2, <2>3 DEF ListInv
    <3>2. AtSeveral'
      BY <1>1, <1>6, <3>1 DEF AtSeveral, SameFunctions
    <3>3. ASSUME NEW i \in DOMAIN pci_devices PROVE EntryOK(i)'
      <4>1. EntryOK(i)
        BY <3>1
      <4>2. pci_devices[i].place \in DOMAIN space
        BY <4>1, VisibleFacts DEF EntryOK
      <4>3. pci_devices[i].id = space'[pci_devices[i].place].id
        BY <1>6, <4>1, <4>2 DEF EntryOK, SameFunctions
      <4> QED BY <1>1, <2>1, <4>1, <4>3 DEF EntryOK, P!Before
    <3>4. \A p \in P!Visible' \ P!Listed' : (P!Before(p, at) => MissedOK(p))'
      BY <1>1, <1>3, <2>1, <3>1 DEF MissedOK, P!Before
    <3> QED BY <1>1, <1>6, <2>3, <3>1, <3>2, <3>3, <3>4 DEF ListInv, P!NotYet
  <2>4. StaleInv'
    BY <1>1, <1>2, <1>6 DEF StaleInv, P!NotYet
  <2> QED BY <1>1, <2>2, <2>3, <2>4 DEF ListInv
<1>7. CASE P!Cards = {}
  <2>1. found' = P!Nothing /\ space' = space
    BY <1>7 DEF P!rtl_find_device
  <2>2. SameFunctions
    BY <1>2, <2>1 DEF SameFunctions, SpaceInv
  <2>3. CardInv'
    BY <2>1 DEF CardInv, P!Nothing
  <2> QED BY <1>4, <1>5, <1>6, <2>1, <2>2, <2>3 DEF PciInv
<1>8. CASE P!Cards # {}
  <2>1. P!Cards \subseteq DOMAIN space /\ P!Cards \subseteq Spot
    BY <1>2, PlaceParts DEF P!Cards, SpaceInv
  <2>2. PICK card : card = CHOOSE p \in P!Cards : \A q \in P!Cards : ~P!Before(q, p)
    OBVIOUS
  <2>3. card \in P!Cards /\ \A q \in P!Cards : ~P!Before(q, card)
    <3>1. \E p \in P!Cards : \A q \in P!Cards : ~P!Before(q, p)
      BY <1>8, <2>1, FirstPlace
    <3> QED BY <2>2, <3>1
  <2>4. /\ space' = [space EXCEPT ![card].cmd = @ \cup {"io", "memory", "master"}]
        /\ found' = IF space[card].bar THEN card ELSE P!Nothing
    BY <1>8, <2>2 DEF P!rtl_find_device
  <2>5. card \in DOMAIN space /\ card \in P!Place
    BY <1>2, <2>1, <2>3 DEF SpaceInv
  <2>6. SameFunctions /\ space'[card].cmd = space[card].cmd \cup {"io", "memory", "master"}
    BY <1>2, <2>4, <2>5, CommandWritten
  <2>7. found' # P!NotYet /\ (found' = card \/ found' = P!Nothing)
    BY <1>5, <2>4, <2>5, NotAPlace
  <2>8. space[card].cmd = {} \/ space[card].cmd = {"memory", "master"}
    <3>1. bridge.bytes => CommandIs(card)
      BY <1>1, <1>2, <2>5 DEF ListInv
    <3>2. ~bridge.bytes => space[card].cmd = {}
      BY <1>1, <1>2, <2>5 DEF StaleInv
    <3> QED BY <3>1, <3>2 DEF CommandIs
  <2>9. space'[card].cmd = {"io", "memory", "master"}
    BY <2>6, <2>8
  <2>10. ASSUME NEW id \in RtlIds, NEW i \in DOMAIN pci_devices,
                pci_devices[i].id = id, pci_devices[i].place[3] = 0
         PROVE  ~P!Before(pci_devices[i].place, card)
    <3>1. CASE bridge.bytes
      <4>1. EntryOK(i)
        BY <1>2, <3>1 DEF ListInv
      <4>2. pci_devices[i].place \in P!Cards
        BY <2>10, <4>1, VisibleFacts DEF EntryOK, P!Cards
      <4> QED BY <2>3, <4>2
    <3>2. CASE ~bridge.bytes
      BY <1>2, <2>10, <3>2, ScanFacts DEF StaleInv
    <3> QED BY <3>1, <3>2
  <2>11. CardInv'
    <3>1. SUFFICES ASSUME found' \notin {P!NotYet, P!Nothing} PROVE P!CardRight'
      BY DEF CardInv, P!NotYet, P!Nothing
    <3>2. found' = card
      BY <2>7, <3>1
    <3>3. ASSUME NEW id \in RtlIds, NEW i \in P!Found(id)', pci_devices'[i].place[3] = 0
          PROVE  ~P!Before(pci_devices'[i].place, card)
      <4>1. i \in DOMAIN pci_devices /\ pci_devices[i].id = id
        BY <1>1 DEF P!Found
      <4> QED BY <1>1, <2>10, <3>3, <4>1
    <3> QED BY <2>9, <3>2, <3>3 DEF P!CardRight, P!Before
  <2> QED BY <1>4, <1>6, <2>6, <2>7, <2>11 DEF PciInv
<1> QED BY <1>7, <1>8

LEMMA PciInvStep == PciInv /\ [P!PciNext]_(P!pciVars) => PciInv'
<1> SUFFICES ASSUME PciInv, [P!PciNext]_(P!pciVars) PROVE PciInv'
  OBVIOUS
<1>1. CASE P!pci_init
  BY <1>1, NothingListed, OneListed
<1>2. CASE P!rtl_find_device
  BY <1>2, CardStep
<1>3. CASE UNCHANGED P!pciVars
  <2>1. /\ bridge' = bridge /\ space' = space /\ at' = at /\ pci_devices' = pci_devices
        /\ found' = found
    BY <1>3 DEF P!pciVars
  <2> QED
    BY <2>1 DEF PciInv, PlaceInv, SpaceInv, ListInv, StaleInv, CardInv, AtSeveral, EntryOK,
         MissedOK, CommandIs, P!Visible, P!Listed, P!CardRight, P!Found, P!Before, P!NotYet,
         P!Nothing, P!Place
<1> QED BY <1>1, <1>2, <1>3 DEF P!PciNext

LEMMA PciInvAnswers ==
  ASSUME PciInv
  PROVE  TableIsScan
<1>1. PlaceInv /\ SpaceInv /\ ListInv /\ StaleInv /\ CardInv
  BY DEF PciInv
<1>2. ASSUME at[1] = NBus, NEW p \in DOMAIN space PROVE P!Before(p, at)
  <2>1. p \in Spot /\ p[1] < NBus
    BY <1>1, PlaceParts DEF SpaceInv
  <2> QED BY <1>2, <2>1, SpotParts, ScanFacts DEF P!Before
<1>3. ASSUME at[1] = NBus, bridge.bytes PROVE P!TableRight
  <2>1. /\ Len(pci_devices) <= MaxDevices
        /\ \A i \in DOMAIN pci_devices : EntryOK(i)
        /\ \A p \in P!Visible \ P!Listed : P!Before(p, at) => MissedOK(p)
        /\ found = P!NotYet => \A p \in DOMAIN space : CommandIs(p)
    BY <1>1, <1>3 DEF ListInv
  <2>2. \A p \in P!Visible \ P!Listed : MissedOK(p)
    BY <1>2, <1>3, <2>1, VisibleFacts
  <2>3. found = P!NotYet =>
           \A p \in DOMAIN space : "memory" \in space[p].cmd <=> p \in P!Listed
    BY <2>1 DEF CommandIs
  <2> QED BY <2>1, <2>2, <2>3 DEF P!TableRight, EntryOK, MissedOK
<1>4. ASSUME at[1] = NBus, ~bridge.bytes PROVE P!TableWrong
  <2>1. at # <<0, 0, 0>>
    BY <1>4, ScanFacts
  <2> QED BY <1>1, <1>4, <2>1 DEF StaleInv, P!TableWrong
<1> QED BY <1>1, <1>3, <1>4 DEF CardInv, TableIsScan, P!TableIsScan

(* PciInv holds in every state, on either bridge and for every machine.      *)
THEOREM PciInvariant == P!PciSpec => []PciInv
  BY PciInvInit, PciInvStep, PTL DEF P!PciSpec

(* Of the composition, the scans take exactly their own steps.               *)
THEOREM ScanPart == DriversSpec => P!PciSpec
<1>1. DriversInit => P!PciInit
  BY DEF DriversInit
<1>2. [DriversNext]_driversVars => [P!PciNext]_(P!pciVars)
  BY DEF DriversNext, driversVars, AhciStep, DiskStep, RtlStep, ScanStep, scanVars, P!pciVars
<1> QED BY <1>1, <1>2, PTL DEF DriversSpec, P!PciSpec

(* A finished scan has listed and enabled exactly the functions it can see,  *)
(* in order and while the table had room; on a bridge that takes no single   *)
(* bytes it has learnt nothing; and the card is the first that either finds. *)
THEOREM ScanCorrect == DriversSpec => []TableIsScan
<1>1. PciInv => TableIsScan
  BY PciInvAnswers
<1> QED BY <1>1, PciInvariant, ScanPart, PTL
=============================================================================
