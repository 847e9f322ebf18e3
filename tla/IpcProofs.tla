----------------------------- MODULE IpcProofs -----------------------------
(* Proofs, for every table size, queue size and payload, about Ipc: the      *)
(* queue's calls are wake-ups to the task table, its slots implement the     *)
(* abstract mailbox, and a blocked task without mail is not forgotten.       *)
EXTENDS Ipc, SchedulerProofs

USE QueueSizeAssumption

-----------------------------------------------------------------------------
(* A wake-up is a task_unblock, or nothing.                                  *)
LEMMA WakeIsUnblock ==
  ASSUME TypeOK, NEW t \in Task, Wake(t)
  PROVE  task_unblock(t) \/ UNCHANGED vars
<1>1. CASE state[t] = BLOCKED
  BY <1>1 DEF Wake, task_unblock, TypeOK
<1>2. CASE state[t] # BLOCKED
  <2>1. state' = state
    BY <1>2 DEF Wake, TypeOK
  <2> QED BY <2>1 DEF Wake, vars
<1> QED BY <1>1, <1>2

(* Seen from the table alone, every step of the composition is a step of the *)
(* table's own interface.                                                    *)
LEMMA TableStep == TypeOK /\ [IpcNext]_allVars => [Next]_vars
<1> SUFFICES ASSUME TypeOK, [IpcNext]_allVars PROVE [Next]_vars
  OBVIOUS
<1>1. ASSUME NEW m \in Message, ipc_send(m) PROVE [Next]_vars
  <2>1. m.to \in Task
    BY DEF Message
  <2> QED
    BY <1>1, <2>1, WakeIsUnblock
       DEF ipc_send, Deliver, Refuse, Next, CommonCall
<1>2. ASSUME NEW t \in Task, ipc_receive(t) PROVE [Next]_vars
  BY <1>2 DEF ipc_receive
<1>3. CASE UNCHANGED allVars
  BY <1>3 DEF allVars
<1> QED BY <1>1, <1>2, <1>3 DEF IpcNext, IpcCall

(* The composition implements the task table: Scheduler's theorems for any   *)
(* client hold of it, whatever is sent and received meanwhile.               *)
THEOREM TableRefinement == IpcSpec => TableSpec
<1>1. IpcInit => Init /\ TypeOK
  BY TypeCorrectInit DEF IpcInit
<1>2. TypeOK /\ [Next]_vars => TypeOK'
  BY TypeCorrectStep
<1> QED BY <1>1, <1>2, TableStep, PTL DEF IpcSpec, TableSpec, Spec

(* Whatever is sent and received, no tick and no wake-up revives a dead task *)
(* other than the current one.                                               *)
THEOREM IpcDeadCorrect == IpcSpec => NoResurrection
  BY TableRefinement, DeadCorrect, PTL DEF TableSpec

-----------------------------------------------------------------------------
Reply == {[call |-> "none"]}
            \cup [call : {"send"}, msg : Message, code : {0, -1}]
            \cup [call : {"receive"}, by : Task, code : {-1}]
            \cup [call : {"receive"}, by : Task, code : {0}, data : Payload]

Cell == {Unused} \cup {Full(m) : m \in Message}

(* A slot that is not unused holds a message.                                *)
LEMMA UsedHoldsMessage ==
  ASSUME NEW c \in Cell, c # Unused
  PROVE  c.msg \in Message /\ c = Full(c.msg)
  BY DEF Cell, Full

LEMMA FullIsUsed == ASSUME NEW m PROVE Full(m) # Unused /\ Full(m).msg = m
<1>1. Full(m).used # Unused.used
  BY DEF Full, Unused
<1> QED BY <1>1 DEF Full

(* Type correctness of the composition.                                      *)
THEOREM IpcTypeCorrect == IpcSpec => []IpcTypeOK
<1> DEFINE QueueOK == ipc_queue \in [Slot -> Cell]
           ReplyOK == reply \in Reply
<1>1. IpcInit => QueueOK /\ ReplyOK
  BY DEF IpcInit, Cell, Reply
<1>2. QueueOK /\ ReplyOK /\ [IpcNext]_allVars => QueueOK' /\ ReplyOK'
  <2> SUFFICES ASSUME QueueOK, ReplyOK, [IpcNext]_allVars
               PROVE  QueueOK' /\ ReplyOK'
    OBVIOUS
  <2>1. ASSUME NEW m \in Message, ipc_send(m) PROVE QueueOK' /\ ReplyOK'
    <3>1. Full(m) \in Cell
      BY DEF Cell
    <3>2. QueueOK'
      BY <2>1, <3>1 DEF ipc_send, Deliver, Refuse
    <3>3. reply' \in [call : {"send"}, msg : Message, code : {0, -1}]
      BY <2>1 DEF ipc_send, Deliver, Refuse
    <3> QED BY <3>2, <3>3 DEF Reply
  <2>2. ASSUME NEW t \in Task, ipc_receive(t) PROVE QueueOK' /\ ReplyOK'
    <3>1. ASSUME NEW i \in Slot, Take(i, t) PROVE QueueOK' /\ ReplyOK'
      <4>1. ipc_queue[i].msg \in Message
        BY <3>1, UsedHoldsMessage DEF Take, IsFor
      <4>2. QueueOK'
        BY <3>1 DEF Take, Cell
      <4>3. reply' \in [call : {"receive"}, by : Task, code : {0}, data : Payload]
        BY <3>1, <4>1 DEF Take, Message
      <4> QED BY <4>2, <4>3 DEF Reply
    <3>2. ASSUME reply' = [call |-> "receive", by |-> t, code |-> -1],
                 UNCHANGED ipc_queue
          PROVE  QueueOK' /\ ReplyOK'
      BY <3>2 DEF Reply
    <3> QED BY <2>2, <3>1, <3>2 DEF ipc_receive
  <2>3. ASSUME UNCHANGED ipcVars PROVE QueueOK' /\ ReplyOK'
    BY <2>3 DEF ipcVars
  <2> QED BY <2>1, <2>2, <2>3 DEF IpcNext, IpcCall, allVars
<1>3. TypeOK /\ QueueOK /\ ReplyOK => IpcTypeOK
  BY DEF IpcTypeOK, Cell, Reply
<1>4. IpcSpec => []TypeOK
  BY TableRefinement, TypeCorrect DEF TableSpec
<1> QED BY <1>1, <1>2, <1>3, <1>4, PTL DEF IpcSpec

-----------------------------------------------------------------------------
(* As many envelopes as slots in use: room for one more exactly when a slot  *)
(* is free.                                                                  *)
LEMMA BoxSize ==
  /\ IsFiniteSet(Box)
  /\ (\E i \in Slot : ipc_queue[i] = Unused) => Cardinality(Box) < QueueSize
  /\ (\A i \in Slot : ipc_queue[i] # Unused) => Cardinality(Box) = QueueSize
<1>1. IsFiniteSet(Slot) /\ Cardinality(Slot) = QueueSize
  BY FS_Interval DEF Slot
<1>2. UsedSlot \in SUBSET Slot
  BY DEF UsedSlot
<1>3. /\ IsFiniteSet(UsedSlot)
      /\ Cardinality(UsedSlot) <= QueueSize
      /\ QueueSize = Cardinality(UsedSlot) => Slot = UsedSlot
  BY <1>1, <1>2, FS_Subset
<1>4. Cardinality(UsedSlot) \in Nat
  BY <1>3, FS_CardinalityType
<1>5. ExistsBijection(UsedSlot, Box)
  <2> DEFINE f == [i \in UsedSlot |-> [tag |-> i, msg |-> ipc_queue[i].msg]]
  <2>1. f \in [UsedSlot -> Box]
    BY DEF Box
  <2>2. \A i, j \in UsedSlot : f[i] = f[j] => i = j
    <3> SUFFICES ASSUME NEW i \in UsedSlot, NEW j \in UsedSlot, f[i] = f[j]
                 PROVE  i = j
      OBVIOUS
    <3>1. f[i].tag = i /\ f[j].tag = j
      OBVIOUS
    <3> QED BY <3>1
  <2>3. \A e \in Box : \E i \in UsedSlot : f[i] = e
    BY DEF Box
  <2>4. f \in Bijection(UsedSlot, Box)
    BY <2>1, <2>2, <2>3 DEF Bijection, Injection, Surjection, IsInjective
  <2> QED BY <2>4 DEF ExistsBijection
<1>6. IsFiniteSet(Box) /\ Cardinality(Box) = Cardinality(UsedSlot)
  BY <1>3, <1>5, FS_Bijection
<1>7. (\E i \in Slot : ipc_queue[i] = Unused) => UsedSlot # Slot
  BY DEF UsedSlot
<1>8. (\A i \in Slot : ipc_queue[i] # Unused) => UsedSlot = Slot
  BY DEF UsedSlot
<1> QED BY <1>1, <1>3, <1>4, <1>6, <1>7, <1>8

(* Filling a free slot adds its envelope and no other.                       *)
LEMMA BoxAfterFill ==
  ASSUME ipc_queue \in [Slot -> Cell], NEW i \in Slot, NEW m \in Message,
         ipc_queue[i] = Unused, ipc_queue' = [ipc_queue EXCEPT ![i] = Full(m)]
  PROVE  /\ Box' = Box \cup {[tag |-> i, msg |-> m]}
         /\ \A f \in Box : f.tag # i
<1>1. ipc_queue'[i] = Full(m) /\ \A j \in Slot \ {i} : ipc_queue'[j] = ipc_queue[j]
  OBVIOUS
<1>2. UsedSlot' = UsedSlot \cup {i} /\ i \notin UsedSlot
  BY <1>1, FullIsUsed DEF UsedSlot
<1>3. \A j \in UsedSlot : ipc_queue'[j].msg = ipc_queue[j].msg
  BY <1>1, <1>2 DEF UsedSlot
<1>4. ipc_queue'[i].msg = m
  BY <1>1, FullIsUsed
<1>5. Box' = Box \cup {[tag |-> i, msg |-> m]}
  BY <1>2, <1>3, <1>4 DEF Box
<1>6. \A f \in Box : f.tag \in UsedSlot
  BY DEF Box
<1> QED BY <1>2, <1>5, <1>6

(* Freeing a slot in use removes its envelope and no other.                  *)
LEMMA BoxAfterFree ==
  ASSUME ipc_queue \in [Slot -> Cell], NEW i \in Slot, ipc_queue[i] # Unused,
         ipc_queue' = [ipc_queue EXCEPT ![i] = Unused]
  PROVE  /\ [tag |-> i, msg |-> ipc_queue[i].msg] \in Box
         /\ Box' = Box \ {[tag |-> i, msg |-> ipc_queue[i].msg]}
<1> DEFINE e == [tag |-> i, msg |-> ipc_queue[i].msg]
<1>1. UsedSlot' = UsedSlot \ {i} /\ i \in UsedSlot
  BY DEF UsedSlot
<1>2. \A j \in UsedSlot' : ipc_queue'[j].msg = ipc_queue[j].msg
  BY <1>1 DEF UsedSlot
<1>3. \A j \in UsedSlot : [tag |-> j, msg |-> ipc_queue[j].msg] = e => j = i
  <2> SUFFICES ASSUME NEW j \in UsedSlot, [tag |-> j, msg |-> ipc_queue[j].msg] = e
               PROVE  j = i
    OBVIOUS
  <2>1. [tag |-> j, msg |-> ipc_queue[j].msg].tag = e.tag
    OBVIOUS
  <2> QED BY <2>1
<1>4. e \in Box
  BY <1>1 DEF Box
<1>5. Box' = Box \ {e}
  BY <1>1, <1>2, <1>3 DEF Box
<1> QED BY <1>4, <1>5

(* The mailbox counts its envelopes as this module does.                     *)
LEMMA SameCardinality == ASSUME NEW S PROVE Mailbox!Cardinality(S) = Cardinality(S)
  BY Zenon DEF Mailbox!Cardinality, Cardinality

(* Steps of the task table leave the mailbox alone.                          *)
LEMMA TableStepOfMailbox ==
  ASSUME TypeOK', UNCHANGED ipcVars
  PROVE  Mailbox!ChangeLive
<1>1. Box' = Box /\ reply' = reply
  BY DEF ipcVars, Box, UsedSlot
<1>2. Live' \in SUBSET Task
  BY DEF Live
<1> QED BY <1>1, <1>2 DEF Mailbox!ChangeLive

(* Every send and receive, with its scan, its wake-up and its error returns, *)
(* is one operation of the mailbox.                                          *)
LEMMA SendOfMailbox ==
  ASSUME TypeOK, ipc_queue \in [Slot -> Cell], NEW m \in Message, ipc_send(m)
  PROVE  Mailbox!Next
<1>1. m.to \in Task
  BY DEF Message
<1>2. CASE Refuse(m) /\ state[m.to] = DEAD
  <2>1. m.to \notin Live
    BY <1>2 DEF Live
  <2>2. Box' = Box /\ Live' = Live
    BY <1>2 DEF Refuse, Box, UsedSlot, Live, vars
  <2>3. Mailbox!RefuseSend(m)
    BY <1>2, <2>1, <2>2 DEF Refuse, Mailbox!RefuseSend
  <2> QED BY <2>3 DEF Mailbox!Next, Mailbox!Message, Message
<1>3. CASE Refuse(m) /\ \A i \in Slot : ipc_queue[i] # Unused
  <2>1. Cardinality(Box) >= QueueSize
    BY <1>3, BoxSize
  <2>2. Box' = Box /\ Live' = Live
    BY <1>3 DEF Refuse, Box, UsedSlot, Live, vars
  <2>3. Mailbox!RefuseSend(m)
    <3>1. reply' = [call |-> "send", msg |-> m, code |-> -1]
      BY <1>3 DEF Refuse
    <3>2. UNCHANGED <<Box, Live>>
      BY <2>2
    <3> QED BY <3>1, <3>2, <2>1, SameCardinality, Zenon DEF Mailbox!RefuseSend
  <2> QED BY <2>3 DEF Mailbox!Next, Mailbox!Message, Message
<1>4. CASE Deliver(m) /\ state[m.to] # DEAD
  <2>1. PICK i \in Slot : /\ ipc_queue[i] = Unused
                          /\ ipc_queue' = [ipc_queue EXCEPT ![i] = Full(m)]
    BY <1>4 DEF Deliver, FirstUnused
  <2> DEFINE e == [tag |-> i, msg |-> m]
  <2>2. /\ Box' = Box \cup {e}
        /\ \A f \in Box : f.tag # i
    BY <2>1, BoxAfterFill
  <2>3. Cardinality(Box) < QueueSize
    BY <2>1, BoxSize
  <2>4. m.to \in Live
    BY <1>1, <1>4 DEF Live
  <2>5. Live' = Live
    BY <1>4 DEF Deliver, Wake, Live, TypeOK, READY, BLOCKED, DEAD
  <2>6. e.msg = m /\ e.tag = i
    OBVIOUS
  <2>7. Mailbox!Send(e)
    <3>1. reply' = [call |-> "send", msg |-> e.msg, code |-> 0]
      BY <1>4, <2>6 DEF Deliver
    <3>2. e.msg.to \in Live /\ \A f \in Box : f.tag # e.tag
      BY <2>2, <2>4, <2>6
    <3>3. Box' = Box \cup {e}
      BY <2>2
    <3>4. UNCHANGED Live
      BY <2>5
    <3> HIDE DEF e
    <3> QED BY <2>3, <3>1, <3>2, <3>3, <3>4, SameCardinality, Zenon DEF Mailbox!Send
  <2>8. e \in Mailbox!Envelope
    BY DEF Mailbox!Envelope, Mailbox!Message, Message
  <2> QED BY <2>7, <2>8 DEF Mailbox!Next
<1> QED BY <1>2, <1>3, <1>4 DEF ipc_send

LEMMA ReceiveOfMailbox ==
  ASSUME ipc_queue \in [Slot -> Cell], NEW t \in Task, ipc_receive(t)
  PROVE  Mailbox!Next
<1>1. Live' = Live
  BY DEF ipc_receive, vars, Live
<1>2. ASSUME NEW i \in Slot, Take(i, t) PROVE Mailbox!Next
  <2> DEFINE e == [tag |-> i, msg |-> ipc_queue[i].msg]
  <2>1. ipc_queue[i] # Unused /\ ipc_queue[i].msg.to = t
    BY <1>2 DEF Take, IsFor
  <2>2. e \in Box /\ Box' = Box \ {e}
    BY <1>2, <2>1, BoxAfterFree DEF Take
  <2>3. e.msg = ipc_queue[i].msg
    OBVIOUS
  <2>4. Mailbox!Receive(e)
    BY <1>1, <1>2, <2>1, <2>2, <2>3 DEF Take, Mailbox!Receive
  <2>5. e \in Mailbox!Envelope
    BY <2>1, UsedHoldsMessage DEF Mailbox!Envelope, Mailbox!Message, Message
  <2> QED BY <2>4, <2>5 DEF Mailbox!Next
<1>3. ASSUME \A i \in Slot : ~IsFor(i, t), UNCHANGED ipc_queue,
             reply' = [call |-> "receive", by |-> t, code |-> -1]
      PROVE  Mailbox!Next
  <2>1. \A f \in Box : f.msg.to # t
    BY <1>3 DEF Box, UsedSlot, IsFor
  <2>2. Box' = Box
    BY <1>3 DEF Box, UsedSlot
  <2>3. Mailbox!ReceiveNothing(t)
    BY <1>1, <1>3, <2>1, <2>2 DEF Mailbox!ReceiveNothing
  <2> QED BY <2>3 DEF Mailbox!Next
<1> QED BY <1>2, <1>3 DEF ipc_receive

(* The queue implements the mailbox: no message is lost, doubled, made up or *)
(* given to another task, and no call fails without its reason.              *)
THEOREM MailboxRefinement == IpcSpec => MailboxSpec
<1>1. IpcInit => Mailbox!Init
  <2> SUFFICES ASSUME IpcInit PROVE Mailbox!Init
    OBVIOUS
  <2>1. Box = {}
    BY DEF IpcInit, Box, UsedSlot
  <2>2. Live \in SUBSET Task
    BY DEF Live
  <2> QED BY <2>1, <2>2 DEF IpcInit, Mailbox!Init
<1>2. IpcTypeOK /\ IpcTypeOK' /\ [IpcNext]_allVars => [Mailbox!Next]_Mailbox!mailVars
  <2> SUFFICES ASSUME IpcTypeOK, IpcTypeOK', [IpcNext]_allVars
               PROVE  [Mailbox!Next]_Mailbox!mailVars
    OBVIOUS
  <2>1. ipc_queue \in [Slot -> Cell] /\ TypeOK /\ TypeOK'
    BY DEF IpcTypeOK, Cell
  <2>2. ASSUME UNCHANGED ipcVars PROVE Mailbox!Next
    BY <2>1, <2>2, TableStepOfMailbox DEF Mailbox!Next
  <2>3. ASSUME NEW m \in Message, ipc_send(m) PROVE Mailbox!Next
    BY <2>1, <2>3, SendOfMailbox
  <2>4. ASSUME NEW t \in Task, ipc_receive(t) PROVE Mailbox!Next
    BY <2>1, <2>4, ReceiveOfMailbox
  <2> QED BY <2>2, <2>3, <2>4 DEF IpcNext, IpcCall, allVars
<1> QED BY <1>1, <1>2, IpcTypeCorrect, PTL DEF IpcSpec, MailboxSpec, Mailbox!Spec

-----------------------------------------------------------------------------
(* No step, whatever the client does, leaves a task blocked on a message it  *)
(* did not have: every delivery wakes its receiver.                          *)
THEOREM WakeCorrect == IpcSpec => NeverStranded
<1>1. IpcTypeOK /\ [IpcNext]_allVars
        => [\A t \in Task : state'[t] = BLOCKED /\ NoMail(t) => NoMail(t)']_allVars
  <2> SUFFICES ASSUME IpcTypeOK, IpcNext, NEW t \in Task, state'[t] = BLOCKED,
                      NoMail(t), NEW i \in Slot
               PROVE  ~IsFor(i, t)'
    BY DEF NoMail
  <2> USE DEF IpcTypeOK, IsFor
  <2>1. ~IsFor(i, t)
    BY DEF NoMail
  <2>2. ASSUME NEW m \in Message, ipc_send(m) PROVE ~IsFor(i, t)'
    <3>1. CASE Refuse(m)
      BY <2>1, <3>1 DEF Refuse, vars
    <3>2. CASE Deliver(m)
      <4>1. t # m.to
        BY <3>2 DEF Deliver, Wake, TypeOK, READY, BLOCKED
      <4>2. PICK j \in Slot : ipc_queue' = [ipc_queue EXCEPT ![j] = Full(m)]
        BY <3>2 DEF Deliver
      <4>3. CASE i = j
        BY <4>1, <4>2, <4>3, FullIsUsed
      <4>4. CASE i # j
        BY <2>1, <4>2, <4>4
      <4> QED BY <4>3, <4>4
    <3> QED BY <2>2, <3>1, <3>2 DEF ipc_send
  <2>3. ASSUME NEW u \in Task, ipc_receive(u) PROVE ~IsFor(i, t)'
    BY <2>1, <2>3 DEF ipc_receive, Take, vars
  <2>4. CASE UNCHANGED ipcVars
    BY <2>1, <2>4 DEF ipcVars
  <2> QED BY <2>2, <2>3, <2>4 DEF IpcNext, IpcCall
<1> QED BY <1>1, IpcTypeCorrect, PTL DEF IpcSpec, NeverStranded
=============================================================================
