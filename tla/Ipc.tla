-------------------------------- MODULE Ipc --------------------------------
(***************************************************************************)
(* The message queue of the kernel (ipc_send and ipc_receive of            *)
(* src/kernel/scheduler.c) on top of the task table of Scheduler.  The     *)
(* queue is one array of slots shared by all tasks; a send takes the first *)
(* free slot and wakes a blocked receiver, a receive empties the first     *)
(* slot addressed to the caller.  The len that travels with data is        *)
(* left out.                                                               *)
(***************************************************************************)
EXTENDS Scheduler

CONSTANTS
    QueueSize,  \* IPC_QUEUE_SIZE, 16
    Payload     \* the data words callers send

ASSUME QueueSizeAssumption == QueueSize \in Nat \ {0}

Slot == 0..(QueueSize - 1)

(* An unused slot keeps its last contents in the code; nobody reads them, so *)
(* the model drops them.                                                     *)
Message == [from : Task, to : Task, data : Payload]
Unused  == [used |-> 0]
Full(m) == [used |-> 1, msg |-> m]

VARIABLES
    ipc_queue,  \* ipc_queue[i]: Unused, or Full(the message)
    reply       \* what the last IPC call returned to its caller

ipcVars == <<ipc_queue, reply>>
allVars == <<vars, ipcVars>>

IpcInit ==
    /\ Init
    /\ ipc_queue = [i \in Slot |-> Unused]
    /\ reply = [call |-> "none"]

FirstUnused(i) ==
    /\ ipc_queue[i] = Unused
    /\ \A j \in 0..(i - 1) : ipc_queue[j] # Unused

(* Mutant of Wake: any receiver, sleeping ones too, is made ready.           *)
WakeAny(t) ==
    /\ state' = [state EXCEPT ![t] = READY]
    /\ UNCHANGED <<priority, time_slice, ticks_used, sleep_ticks, task_count,
                   current_task>>

(* Mutant of Wake: nobody is woken.                                          *)
WakeNobody(t) == t \in Task /\ UNCHANGED vars

(* The last thing a successful send does to the receiver.                    *)
Wake(t) ==
    /\ state' = [state EXCEPT ![t] = IF @ = BLOCKED THEN READY ELSE @]
    /\ UNCHANGED <<priority, time_slice, ticks_used, sleep_ticks, task_count,
                   current_task>>

Deliver(m) ==
    /\ \E i \in Slot :
          /\ FirstUnused(i)
          /\ ipc_queue' = [ipc_queue EXCEPT ![i] = Full(m)]
    /\ Wake(m.to)
    /\ reply' = [call |-> "send", msg |-> m, code |-> 0]

Refuse(m) ==
    /\ reply' = [call |-> "send", msg |-> m, code |-> -1]
    /\ UNCHANGED <<vars, ipc_queue>>

ipc_send(m) ==
    \/ state[m.to] = DEAD /\ Refuse(m)
    \/ state[m.to] # DEAD /\ Deliver(m)
    \/ state[m.to] # DEAD /\ (\A i \in Slot : ipc_queue[i] # Unused) /\ Refuse(m)

IsFor(i, t) == ipc_queue[i] # Unused /\ ipc_queue[i].msg.to = t

(* Mutant of Take: the slot is not marked unused, so the message stays.      *)
TakeAndKeep(i, t) ==
    /\ IsFor(i, t)
    /\ \A j \in 0..(i - 1) : ~IsFor(j, t)
    /\ reply' = [call |-> "receive", by |-> t, code |-> 0,
                 data |-> ipc_queue[i].msg.data]
    /\ UNCHANGED ipc_queue

Take(i, t) ==
    /\ IsFor(i, t)
    /\ \A j \in 0..(i - 1) : ~IsFor(j, t)
    /\ reply' = [call |-> "receive", by |-> t, code |-> 0,
                 data |-> ipc_queue[i].msg.data]
    /\ ipc_queue' = [ipc_queue EXCEPT ![i] = Unused]

ipc_receive(t) ==
    /\ \/ \E i \in Slot : Take(i, t)
       \/ /\ \A i \in Slot : ~IsFor(i, t)
          /\ reply' = [call |-> "receive", by |-> t, code |-> -1]
          /\ UNCHANGED ipc_queue
    /\ UNCHANGED vars

IpcCall ==
    \/ \E m \in Message : ipc_send(m)
    \/ \E t \in Task : ipc_receive(t)

(* Any client of both interfaces.  task_kill leaves the queue alone.         *)
IpcNext ==
    \/ IpcCall
    \/ Next /\ UNCHANGED ipcVars

IpcSpec == IpcInit /\ [][IpcNext]_allVars

-----------------------------------------------------------------------------
(* The queue holds messages and free slots, the reply is one of the calls'.  *)
IpcTypeOK ==
    /\ TypeOK
    /\ ipc_queue \in [Slot -> {Unused} \cup {Full(m) : m \in Message}]
    /\ reply \in {[call |-> "none"]}
            \cup [call : {"send"}, msg : Message, code : {0, -1}]
            \cup [call : {"receive"}, by : Task, code : {-1}]
            \cup [call : {"receive"}, by : Task, code : {0}, data : Payload]

NoMail(t) == \A i \in Slot : ~IsFor(i, t)

(* No step leaves a task blocked on a message it did not have before: a send *)
(* to a blocked task always wakes it, in whatever slot the message lands.    *)
NeverStranded ==
    [][\A t \in Task : state'[t] = BLOCKED /\ NoMail(t) => NoMail(t)']_allVars

(* The slots in use, seen as envelopes tagged with the slot's number.        *)
UsedSlot == {i \in Slot : ipc_queue[i] # Unused}
Box      == {[tag |-> i, msg |-> ipc_queue[i].msg] : i \in UsedSlot}

Mailbox == INSTANCE IpcMailbox WITH
    box <- Box, live <- Live, Tag <- Slot, Capacity <- QueueSize

(* The slots implement the mailbox: nothing sent is lost, received twice,    *)
(* received by another task or made up; a send fails only on a dead receiver *)
(* or a full queue, a receive only when no message is there, whatever kills, *)
(* re-creations and wake-ups happen in between.                              *)
MailboxSpec == Mailbox!Spec

(* The calls of the queue do to the task table only what its own interface   *)
(* can do: a wake-up by a message is a task_unblock.                         *)
TableSpec == Spec
=============================================================================
