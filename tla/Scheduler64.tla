---------------------------- MODULE Scheduler64 -----------------------------
(***************************************************************************)
(* The aarch64 kernel has a scheduler file of its own,                     *)
(* src/kernel/scheduler64.c, written next to src/kernel/scheduler.c.       *)
(* Translated here by itself, with the table as the code has it, one array *)
(* of structures, and shown to implement the module of the other: whatever *)
(* holds of Ipc and Scheduler for any client holds of the port.            *)
(*                                                                         *)
(* Left out are the fields nothing reads (id, name, stack_base), the       *)
(* stack pointer and tick_count.  This task_create has no test of entry.   *)
(***************************************************************************)
EXTENDS Integers

CONSTANTS MaxTasks, BaseSlice, NoPriority, U32, Priority, Nap  \* as in Scheduler
CONSTANTS QueueSize, Payload                                   \* as in Ipc

ASSUME PortAssumption ==
    /\ QueueSize \in Nat /\ MaxTasks \in Nat \ {0} /\ BaseSlice \in Nat \ {0}
    /\ U32 \in Nat /\ MaxTasks < U32 /\ BaseSlice < U32
    /\ NoPriority \in Nat /\ BaseSlice <= NoPriority
    /\ Priority \subseteq 0..NoPriority /\ Nap \subseteq 0..(U32 - 1)

VARIABLES tasks, task_count, current_task, ipc_queue, reply

table  == <<tasks, task_count, current_task>>
queue  == <<ipc_queue, reply>>
vars64 == <<tasks, task_count, current_task, ipc_queue, reply>>

Id   == 0..(MaxTasks - 1)
Cell == 0..(QueueSize - 1)

task_t == [state : {"RUNNING", "READY", "BLOCKED", "DEAD", "SLEEPING"},
           priority : 0..NoPriority, time_slice : 0..(U32 - 1),
           ticks_used : 0..(U32 - 1), sleep_ticks : 0..(U32 - 1)]

-----------------------------------------------------------------------------
init_scheduler ==
    /\ tasks = [i \in Id |->
          [state |-> IF i = 0 THEN "RUNNING" ELSE "DEAD", priority |-> 0,
           time_slice |-> IF i = 0 THEN BaseSlice ELSE 0,
           ticks_used |-> 0, sleep_ticks |-> 0]]
    /\ task_count = 1
    /\ current_task = 0
    /\ ipc_queue = [i \in Cell |-> [used |-> 0]]
    /\ reply = [call |-> "none"]

(* A new task in the first dead cell of the table.                          *)
Fresh(p) == [state |-> "READY", priority |-> p, time_slice |-> (BaseSlice - p) % U32,
             ticks_used |-> 0, sleep_ticks |-> 0]

task_create64(p) ==
    /\ task_count < MaxTasks
    /\ \E i \in Id : /\ tasks[i].state = "DEAD"
                     /\ \A j \in 0..(i - 1) : tasks[j].state # "DEAD"
                     /\ tasks' = [tasks EXCEPT ![i] = Fresh(p)]
    /\ task_count' = (task_count + 1) % U32
    /\ UNCHANGED current_task

task_kill64(i) ==
    /\ i # 0
    /\ tasks' = [tasks EXCEPT ![i].state = "DEAD"]
    /\ task_count' = (task_count - 1) % U32
    /\ UNCHANGED current_task

(* The calls that change one cell and no counter.                           *)
Put(i, cell) ==
    tasks' = [tasks EXCEPT ![i] = cell] /\ UNCHANGED <<task_count, current_task>>

task_sleep64(i, n) ==
    /\ tasks[i].state # "DEAD"
    /\ Put(i, [tasks[i] EXCEPT !.state = "SLEEPING", !.sleep_ticks = n])

task_set_priority64(i, p) ==
    LET q == IF p > BaseSlice - 1 THEN BaseSlice - 1 ELSE p
    IN  Put(i, [tasks[i] EXCEPT !.priority = q, !.time_slice = (BaseSlice - q) % U32])

task_block64(i) == Put(i, [tasks[i] EXCEPT !.state = "BLOCKED"])

task_unblock64(i) ==
    /\ tasks[i].state = "BLOCKED"
    /\ Put(i, [tasks[i] EXCEPT !.state = "READY"])

-----------------------------------------------------------------------------
(* The first loop of schedule_next, for one cell.                           *)
Aged(cell) ==
    LET left == IF cell.sleep_ticks > 0 THEN cell.sleep_ticks - 1 ELSE 0
    IN  IF cell.state # "SLEEPING" THEN cell
        ELSE [cell EXCEPT !.sleep_ticks = left,
                          !.state = IF left = 0 THEN "READY" ELSE "SLEEPING"]

(* The second loop: idx runs from the cell behind the current one round to  *)
(* it, and a cell replaces the best so far only if its priority is lower.   *)
Runnable(i) == Aged(tasks[i]).state = "READY" /\ tasks[i].priority < NoPriority
Distance(i) == (i - current_task - 1) % MaxTasks

(* Mutant of Wins: the best so far is replaced on equality too.             *)
WinsLast(i) ==
    /\ Runnable(i)
    /\ \A j \in Id : Runnable(j) =>
          \/ tasks[i].priority < tasks[j].priority
          \/ tasks[i].priority = tasks[j].priority /\ Distance(i) >= Distance(j)

Wins(i) ==
    /\ Runnable(i)
    /\ \A j \in Id : Runnable(j) =>
          \/ tasks[i].priority < tasks[j].priority
          \/ tasks[i].priority = tasks[j].priority /\ Distance(i) <= Distance(j)

Used == (tasks[current_task].ticks_used + 1) % U32

(* The table after the tick, with what the current task has used.           *)
AfterTick(used) ==
    [i \in Id |-> IF i = current_task
                  THEN [Aged(tasks[i]) EXCEPT !.ticks_used = used] ELSE Aged(tasks[i])]

SliceGoesOn ==
    /\ Used < tasks[current_task].time_slice
    /\ tasks' = AfterTick(Used)
    /\ UNCHANGED current_task

NobodyElse ==
    /\ Used >= tasks[current_task].time_slice
    /\ (\A i \in Id : ~Runnable(i)) \/ Wins(current_task)
    /\ tasks' = AfterTick(0)
    /\ UNCHANGED current_task

context_switch(next) ==
    /\ Used >= tasks[current_task].time_slice
    /\ next # current_task /\ Wins(next)
    /\ tasks' = [i \in Id |->
          CASE i = next         -> [Aged(tasks[i]) EXCEPT !.state = "RUNNING"]
            [] i = current_task -> [Aged(tasks[i]) EXCEPT !.state = "READY",
                                                          !.ticks_used = 0]
            [] OTHER            -> Aged(tasks[i])]
    /\ current_task' = next

schedule_next64 ==
    /\ SliceGoesOn \/ NobodyElse \/ \E next \in Id : context_switch(next)
    /\ UNCHANGED task_count

-----------------------------------------------------------------------------
Envelope == [from : Id, to : Id, data : Payload]

Answer(m, code) == reply' = [call |-> "send", msg |-> m, code |-> code]

(* The first free cell of the queue, and a blocked receiver made ready.     *)
ipc_send64(m) ==
    \/ /\ tasks[m.to].state = "DEAD" \/ \A i \in Cell : ipc_queue[i].used = 1
       /\ Answer(m, -1)
       /\ UNCHANGED <<tasks, task_count, current_task, ipc_queue>>
    \/ /\ tasks[m.to].state # "DEAD"
       /\ \E i \in Cell : /\ ipc_queue[i].used = 0
                          /\ \A j \in 0..(i - 1) : ipc_queue[j].used = 1
                          /\ ipc_queue' = [ipc_queue EXCEPT ![i] = [used |-> 1, msg |-> m]]
       /\ Put(m.to, [tasks[m.to] EXCEPT !.state = IF @ = "BLOCKED" THEN "READY" ELSE @])
       /\ Answer(m, 0)

MailFor(i, t) == ipc_queue[i].used = 1 /\ ipc_queue[i].msg.to = t

ipc_receive64(t) ==
    /\ \/ /\ \A i \in Cell : ~MailFor(i, t)
          /\ reply' = [call |-> "receive", by |-> t, code |-> -1]
          /\ UNCHANGED ipc_queue
       \/ \E i \in Cell :
             /\ MailFor(i, t) /\ \A j \in 0..(i - 1) : ~MailFor(j, t)
             /\ reply' = [call |-> "receive", by |-> t, code |-> 0,
                          data |-> ipc_queue[i].msg.data]
             /\ ipc_queue' = [ipc_queue EXCEPT ![i] = [used |-> 0]]
    /\ UNCHANGED table

-----------------------------------------------------------------------------
TableCall ==
    \/ schedule_next64
    \/ \E p \in Priority : task_create64(p)
    \/ \E i \in Id, p \in Priority : task_set_priority64(i, p)
    \/ \E i \in Id, n \in Nap : task_sleep64(i, n)
    \/ \E i \in Id : task_kill64(i)
    \/ \E i \in Id : task_block64(i)
    \/ \E i \in Id : task_unblock64(i)

Next64 ==
    \/ TableCall /\ UNCHANGED queue
    \/ \E m \in Envelope : ipc_send64(m)
    \/ \E t \in Id : ipc_receive64(t)

Spec64 == init_scheduler /\ [][Next64]_vars64

(* The cells of the table are task_t structures and the current task has one.*)
Table64OK ==
    /\ tasks \in [Id -> task_t]
    /\ current_task \in Id
    /\ ipc_queue \in [Cell -> [used : {0}] \cup [used : {1}, msg : Envelope]]

-----------------------------------------------------------------------------
(* The table taken apart, one array a field.                                *)
States     == [i \in Id |-> tasks[i].state]
Priorities == [i \in Id |-> tasks[i].priority]
Slices     == [i \in Id |-> tasks[i].time_slice]
Useds      == [i \in Id |-> tasks[i].ticks_used]
Sleeps     == [i \in Id |-> tasks[i].sleep_ticks]

X86 == INSTANCE Ipc WITH state <- States, priority <- Priorities,
    time_slice <- Slices, ticks_used <- Useds, sleep_ticks <- Sleeps

(* scheduler64.c is a port of scheduler.c: every call on it, in any order,   *)
(* is a call the x86 file would have answered in the same way with the same  *)
(* table left behind.                                                        *)
PortSpec == X86!IpcSpec
=============================================================================
