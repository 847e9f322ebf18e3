---------------------------- MODULE Arm64Proofs -----------------------------
(***************************************************************************)
(* Proofs about the aarch64 kernel.  First, for every size of table and    *)
(* queue, Scheduler64 implements Ipc, the x86 scheduler with its message   *)
(* queue: the mapping takes the array of structures apart, field by field, *)
(* so every step needs that the cells are task_t structures (Table64OK, an *)
(* invariant by itself).  Then, for every depth of the UART's queue, every *)
(* set of interrupts the firmware may leave enabled and every size of the  *)
(* vector entries, the safety properties of the run time.  Last, both for  *)
(* the composition MCArm64.                                                *)
(***************************************************************************)
EXTENDS MCArm64, SequenceTheorems, TLAPS

LEMMA AgedIsCell ==
    ASSUME NEW cell \in task_t
    PROVE  /\ Aged(cell) \in task_t
           /\ Aged(cell).priority = cell.priority
           /\ Aged(cell).time_slice = cell.time_slice
           /\ Aged(cell).ticks_used = cell.ticks_used
           /\ Aged(cell).state = IF cell.state = "SLEEPING"
                                    /\ Aged(cell).sleep_ticks = 0
                                 THEN "READY" ELSE cell.state
           /\ Aged(cell).sleep_ticks =
                 IF cell.state = "SLEEPING" /\ cell.sleep_ticks > 0
                 THEN cell.sleep_ticks - 1 ELSE cell.sleep_ticks
<1> DEFINE left == IF cell.sleep_ticks > 0 THEN cell.sleep_ticks - 1 ELSE 0
<1>1. cell.sleep_ticks \in 0..(U32 - 1) /\ left \in 0..(U32 - 1)
  BY PortAssumption DEF task_t
<1>2. CASE cell.state # "SLEEPING"
  BY <1>2 DEF Aged
<1>3. CASE cell.state = "SLEEPING"
  <2>1. Aged(cell) = [cell EXCEPT !.sleep_ticks = left,
                                  !.state = IF left = 0 THEN "READY" ELSE "SLEEPING"]
    BY <1>3 DEF Aged
  <2> HIDE DEF left
  <2>2. /\ Aged(cell) \in task_t
        /\ Aged(cell).priority = cell.priority
        /\ Aged(cell).time_slice = cell.time_slice
        /\ Aged(cell).ticks_used = cell.ticks_used
        /\ Aged(cell).sleep_ticks = left
        /\ Aged(cell).state = IF left = 0 THEN "READY" ELSE "SLEEPING"
    BY <2>1, <1>1 DEF task_t
  <2> QED BY <2>2, <1>3, <1>1 DEF left
<1> QED BY <1>2, <1>3

LEMMA WrapIsWord == ASSUME NEW n \in Int PROVE n % U32 \in 0..(U32 - 1)
BY PortAssumption

LEMMA FreshIsCell == ASSUME NEW p \in Priority PROVE Fresh(p) \in task_t
<1>1. BaseSlice - p \in Int
  BY PortAssumption
<1>2. (BaseSlice - p) % U32 \in 0..(U32 - 1)
  BY <1>1, WrapIsWord
<1> QED BY <1>2, PortAssumption DEF Fresh, task_t

LEMMA InitKeepsCells == init_scheduler => Table64OK
BY PortAssumption DEF init_scheduler, Table64OK, task_t, Id, Cell, Envelope

LEMMA PutKeepsCells ==
    ASSUME Table64OK, NEW i \in Id, NEW cell \in task_t, Put(i, cell), UNCHANGED queue
    PROVE  Table64OK'
BY DEF Table64OK, Put, queue, Id, Cell, Envelope

(* What schedule_next leaves in the cells, whichever way it returns.        *)
LEMMA TickKeepsCells ==
    ASSUME Table64OK, schedule_next64, UNCHANGED queue
    PROVE  Table64OK'
<1> USE DEF Table64OK
<1>1. Used \in 0..(U32 - 1)
  BY WrapIsWord DEF Used, task_t
<1>2. \A i \in Id : Aged(tasks[i]) \in task_t
  BY AgedIsCell
<1>3. \A used \in 0..(U32 - 1) : AfterTick(used) \in [Id -> task_t]
  BY <1>2 DEF AfterTick, task_t
<1>4. 0 \in 0..(U32 - 1)
  BY PortAssumption
<1>5. tasks' \in [Id -> task_t] /\ current_task' \in Id
  <2>1. CASE SliceGoesOn
    BY <2>1, <1>1, <1>3 DEF SliceGoesOn
  <2>2. CASE NobodyElse
    BY <2>2, <1>4, <1>3 DEF NobodyElse
  <2>3. ASSUME NEW next \in Id, context_switch(next)
        PROVE  tasks' \in [Id -> task_t] /\ current_task' \in Id
    <3>1. ASSUME NEW i \in Id
          PROVE  /\ [Aged(tasks[i]) EXCEPT !.state = "RUNNING"] \in task_t
                 /\ [Aged(tasks[i]) EXCEPT !.state = "READY", !.ticks_used = 0] \in task_t
      <4> DEFINE aged == Aged(tasks[i])
      <4>1. aged \in task_t
        BY <1>2
      <4> HIDE DEF aged
      <4>2. /\ [aged EXCEPT !.state = "RUNNING"] \in task_t
            /\ [aged EXCEPT !.state = "READY", !.ticks_used = 0] \in task_t
        BY <4>1, <1>4 DEF task_t
      <4> QED BY <4>2 DEF aged
    <3> HIDE DEF task_t
    <3> QED BY <2>3, <1>2, <3>1 DEF context_switch
  <2> QED BY <2>1, <2>2, <2>3 DEF schedule_next64
<1> QED BY <1>5 DEF queue, Id, Cell, Envelope

LEMMA CallKeepsCells == ASSUME Table64OK, TableCall, UNCHANGED queue PROVE Table64OK'
<1> USE DEF Table64OK
<1>1. CASE schedule_next64
  BY <1>1, TickKeepsCells
<1>2. ASSUME NEW p \in Priority, task_create64(p) PROVE Table64OK'
  <2>1. tasks' \in [Id -> task_t]
    BY <1>2, FreshIsCell DEF task_create64
  <2>2. current_task' \in Id /\ ipc_queue' = ipc_queue /\ reply' = reply
    BY <1>2 DEF task_create64, queue
  <2> QED BY <2>1, <2>2
<1>3. ASSUME NEW i \in Id, NEW p \in Priority, task_set_priority64(i, p) PROVE Table64OK'
  <2> DEFINE q == IF p > BaseSlice - 1 THEN BaseSlice - 1 ELSE p
  <2>1. q \in 0..NoPriority /\ (BaseSlice - q) % U32 \in 0..(U32 - 1)
    <3>1. q \in 0..NoPriority /\ BaseSlice - q \in Int
      BY PortAssumption
    <3> HIDE DEF q
    <3> QED BY <3>1, WrapIsWord
  <2>2. [tasks[i] EXCEPT !.priority = q, !.time_slice = (BaseSlice - q) % U32] \in task_t
    <3> HIDE DEF q
    <3> QED BY <2>1 DEF task_t
  <2> HIDE DEF q
  <2>3. Put(i, [tasks[i] EXCEPT !.priority = q, !.time_slice = (BaseSlice - q) % U32])
    BY <1>3 DEF q, task_set_priority64
  <2> QED BY <2>2, <2>3, PutKeepsCells
<1>4. ASSUME NEW i \in Id, NEW n \in Nap, task_sleep64(i, n) PROVE Table64OK'
  <2>1. [tasks[i] EXCEPT !.state = "SLEEPING", !.sleep_ticks = n] \in task_t
    BY PortAssumption DEF task_t
  <2> QED BY <1>4, <2>1, PutKeepsCells DEF task_sleep64
<1>5. ASSUME NEW i \in Id, task_kill64(i) PROVE Table64OK'
  <2>1. [tasks[i] EXCEPT !.state = "DEAD"] \in task_t
    BY DEF task_t
  <2>2. tasks' \in [Id -> task_t]
    BY <1>5, <2>1 DEF task_kill64
  <2> QED BY <1>5, <2>2 DEF task_kill64, queue
<1>6. ASSUME NEW i \in Id, task_block64(i) PROVE Table64OK'
  <2>1. [tasks[i] EXCEPT !.state = "BLOCKED"] \in task_t
    BY DEF task_t
  <2> QED BY <1>6, <2>1, PutKeepsCells DEF task_block64
<1>7. ASSUME NEW i \in Id, task_unblock64(i) PROVE Table64OK'
  <2>1. [tasks[i] EXCEPT !.state = "READY"] \in task_t
    BY DEF task_t
  <2> QED BY <1>7, <2>1, PutKeepsCells DEF task_unblock64
<1> QED BY <1>1, <1>2, <1>3, <1>4, <1>5, <1>6, <1>7 DEF TableCall

LEMMA MailKeepsCells ==
    ASSUME Table64OK,
           \/ \E m \in Envelope : ipc_send64(m)
           \/ \E t \in Id : ipc_receive64(t)
    PROVE  Table64OK'
<1> USE DEF Table64OK
<1>1. ASSUME NEW m \in Envelope, ipc_send64(m) PROVE Table64OK'
  <2>1. CASE UNCHANGED <<tasks, task_count, current_task, ipc_queue>>
    BY <2>1 DEF Id, Cell, Envelope
  <2>2. ASSUME NEW i \in Cell, ipc_queue' = [ipc_queue EXCEPT ![i] = [used |-> 1, msg |-> m]],
               Put(m.to, [tasks[m.to] EXCEPT !.state = IF @ = "BLOCKED" THEN "READY" ELSE @])
        PROVE  Table64OK'
    <3>1. m.to \in Id
      BY DEF Envelope
    <3>2. [tasks[m.to] EXCEPT !.state = IF @ = "BLOCKED" THEN "READY" ELSE @] \in task_t
      BY <3>1 DEF task_t
    <3>3. tasks' \in [Id -> task_t] /\ current_task' \in Id
      BY <2>2, <3>1, <3>2 DEF Put
    <3>4. [used |-> 1, msg |-> m] \in [used : {1}, msg : Envelope]
      OBVIOUS
    <3> QED BY <2>2, <3>3, <3>4
  <2> QED BY <1>1, <2>1, <2>2 DEF ipc_send64
<1>2. ASSUME NEW t \in Id, ipc_receive64(t) PROVE Table64OK'
  BY <1>2 DEF ipc_receive64, table
<1> QED BY <1>1, <1>2

(* Table64OK: the structures keep their types under every call.             *)
THEOREM CellsCorrect == Spec64 => []Table64OK
<1>1. init_scheduler => Table64OK
  BY InitKeepsCells
<1>2. Table64OK /\ [Next64]_vars64 => Table64OK'
  <2> SUFFICES ASSUME Table64OK, [Next64]_vars64 PROVE Table64OK'
    OBVIOUS
  <2>1. CASE UNCHANGED vars64
    BY <2>1 DEF vars64, Table64OK, Id, Cell, Envelope
  <2> QED BY <2>1, CallKeepsCells, MailKeepsCells DEF Next64
<1> QED BY <1>1, <1>2, PTL DEF Spec64

-----------------------------------------------------------------------------
(* The same sets under the two modules' names.                              *)
LEMMA SameNames ==
    X86!Task = Id /\ X86!Slot = Cell /\ X86!Message = Envelope /\ X86!Kernel = 0
BY DEF X86!Task, X86!Slot, X86!Message, X86!Kernel, Id, Cell, Envelope

LEMMA InitMaps == init_scheduler => X86!IpcInit
BY PortAssumption, SameNames DEF init_scheduler, X86!IpcInit, X86!Init, X86!RUNNING,
   X86!DEAD, X86!Unused, Id, States, Priorities, Slices, Useds, Sleeps

(* A cell of the table replaced is a value in each of the five arrays.      *)
Replaced(i, cell) == tasks' = [tasks EXCEPT ![i] = cell]

LEMMA PutMaps ==
    ASSUME Table64OK, NEW i \in Id, NEW cell \in task_t, Replaced(i, cell)
    PROVE  /\ States'     = [States EXCEPT ![i] = cell.state]
           /\ Priorities' = [Priorities EXCEPT ![i] = cell.priority]
           /\ Slices'     = [Slices EXCEPT ![i] = cell.time_slice]
           /\ Useds'      = [Useds EXCEPT ![i] = cell.ticks_used]
           /\ Sleeps'     = [Sleeps EXCEPT ![i] = cell.sleep_ticks]
           /\ cell.state = tasks[i].state => States' = States
           /\ cell.priority = tasks[i].priority => Priorities' = Priorities
           /\ cell.time_slice = tasks[i].time_slice => Slices' = Slices
           /\ cell.ticks_used = tasks[i].ticks_used => Useds' = Useds
           /\ cell.sleep_ticks = tasks[i].sleep_ticks => Sleeps' = Sleeps
BY DEF Replaced, Table64OK, States, Priorities, Slices, Useds, Sleeps

LEMMA StateAt == ASSUME NEW i \in Id PROVE States[i] = tasks[i].state
BY DEF States

LEMMA CreateMaps ==
    ASSUME Table64OK, NEW p \in Priority, task_create64(p)
    PROVE  X86!task_create(p)
<1>1. PICK i \in Id : /\ tasks[i].state = "DEAD"
                      /\ \A j \in 0..(i - 1) : tasks[j].state # "DEAD"
                      /\ Replaced(i, Fresh(p))
  BY DEF task_create64, Replaced
<1>2. X86!FirstDead(i)
  <2>1. \A j \in 0..(i - 1) : j \in Id
    BY PortAssumption DEF Id
  <2> QED BY <1>1, <2>1, StateAt DEF X86!FirstDead, X86!DEAD
<1>3. /\ States'     = [States EXCEPT ![i] = X86!READY]
      /\ Priorities' = [Priorities EXCEPT ![i] = p]
      /\ Slices'     = [Slices EXCEPT ![i] = X86!Slice(p)]
      /\ Useds'      = [Useds EXCEPT ![i] = 0]
      /\ Sleeps'     = [Sleeps EXCEPT ![i] = 0]
  <2>1. /\ Fresh(p).state = X86!READY /\ Fresh(p).priority = p
        /\ Fresh(p).time_slice = X86!Slice(p)
        /\ Fresh(p).ticks_used = 0 /\ Fresh(p).sleep_ticks = 0
    BY DEF Fresh, X86!READY, X86!Slice
  <2> QED BY <1>1, <2>1, PutMaps, FreshIsCell
<1> QED BY <1>2, <1>3, SameNames DEF task_create64, X86!task_create

LEMMA KillMaps ==
    ASSUME Table64OK, NEW i \in Id, task_kill64(i) PROVE X86!task_kill(i)
<1> DEFINE cell == [tasks[i] EXCEPT !.state = "DEAD"]
<1>1. /\ cell \in task_t /\ cell.state = "DEAD"
      /\ cell.priority = tasks[i].priority /\ cell.time_slice = tasks[i].time_slice
      /\ cell.ticks_used = tasks[i].ticks_used /\ cell.sleep_ticks = tasks[i].sleep_ticks
  BY DEF Table64OK, task_t
<1>2. Replaced(i, cell)
  BY DEF task_kill64, Table64OK, Replaced
<1> HIDE DEF cell
<1> QED BY <1>1, <1>2, PutMaps, SameNames DEF task_kill64, X86!task_kill, X86!DEAD

LEMMA SleepMaps ==
    ASSUME Table64OK, NEW i \in Id, NEW n \in Nap, task_sleep64(i, n)
    PROVE  X86!task_sleep(i, n)
<1> DEFINE cell == [tasks[i] EXCEPT !.state = "SLEEPING", !.sleep_ticks = n]
<1>1. /\ cell \in task_t /\ cell.state = "SLEEPING" /\ cell.sleep_ticks = n
      /\ cell.priority = tasks[i].priority /\ cell.time_slice = tasks[i].time_slice
      /\ cell.ticks_used = tasks[i].ticks_used
  BY PortAssumption DEF Table64OK, task_t
<1>2. Replaced(i, cell)
  BY DEF task_sleep64, Put, Replaced
<1> HIDE DEF cell
<1> QED BY <1>1, <1>2, PutMaps, StateAt
        DEF task_sleep64, Put, X86!task_sleep, X86!DEAD, X86!SLEEPING

LEMMA SetPriorityMaps ==
    ASSUME Table64OK, NEW i \in Id, NEW p \in Priority, task_set_priority64(i, p)
    PROVE  X86!task_set_priority(i, p)
<1> DEFINE q == X86!Clamp(p)
           cell == [tasks[i] EXCEPT !.priority = q, !.time_slice = X86!Slice(q)]
<1>1. Replaced(i, cell) /\ UNCHANGED <<task_count, current_task>>
  BY DEF Replaced, task_set_priority64, Put, X86!Clamp, X86!Slice
<1>2. q \in 0..NoPriority /\ X86!Slice(q) \in 0..(U32 - 1)
  <2>1. q \in 0..NoPriority
    BY PortAssumption DEF X86!Clamp
  <2>2. BaseSlice - q \in Int
    BY <2>1, PortAssumption
  <2> QED BY <2>1, <2>2, WrapIsWord DEF X86!Slice
<1> HIDE DEF q
<1>3. /\ cell \in task_t /\ cell.state = tasks[i].state
      /\ cell.priority = q /\ cell.time_slice = X86!Slice(q)
      /\ cell.ticks_used = tasks[i].ticks_used /\ cell.sleep_ticks = tasks[i].sleep_ticks
  BY <1>2 DEF Table64OK, task_t
<1> HIDE DEF cell
<1>4. States' = States
  BY <1>1, <1>3, PutMaps
<1> QED BY <1>1, <1>3, <1>4, PutMaps DEF q, X86!task_set_priority

(* A state written over a cell, as task_block, task_unblock and ipc_send do.*)
LEMMA MarkMaps ==
    ASSUME Table64OK, NEW i \in Id,
           NEW mark \in {"RUNNING", "READY", "BLOCKED", "DEAD", "SLEEPING"},
           Put(i, [tasks[i] EXCEPT !.state = mark])
    PROVE  /\ States' = [States EXCEPT ![i] = mark]
           /\ UNCHANGED <<Priorities, Slices, Useds, Sleeps, task_count, current_task>>
<1> DEFINE cell == [tasks[i] EXCEPT !.state = mark]
<1>1. /\ cell \in task_t /\ cell.state = mark
      /\ cell.priority = tasks[i].priority /\ cell.time_slice = tasks[i].time_slice
      /\ cell.ticks_used = tasks[i].ticks_used /\ cell.sleep_ticks = tasks[i].sleep_ticks
  BY DEF Table64OK, task_t
<1>2. Replaced(i, cell) /\ UNCHANGED <<task_count, current_task>>
  BY DEF Put, Replaced
<1> HIDE DEF cell
<1> QED BY <1>1, <1>2, PutMaps

LEMMA BlockMaps ==
    ASSUME Table64OK, NEW i \in Id, task_block64(i) PROVE X86!task_block(i)
BY MarkMaps DEF task_block64, X86!task_block, X86!BLOCKED

LEMMA UnblockMaps ==
    ASSUME Table64OK, NEW i \in Id, task_unblock64(i) PROVE X86!task_unblock(i)
BY MarkMaps, StateAt DEF task_unblock64, X86!task_unblock, X86!BLOCKED, X86!READY

-----------------------------------------------------------------------------
(* One tick: the two modules age the cells alike and rank them alike.       *)
LEMMA AgingMaps ==
    ASSUME Table64OK, NEW i \in Id
    PROVE  /\ X86!AgedTicks(i) = Aged(tasks[i]).sleep_ticks
           /\ X86!AgedState(i) = Aged(tasks[i]).state
           /\ X86!TicksNow = Used
<1>1. tasks[i] \in task_t /\ Sleeps[i] = tasks[i].sleep_ticks
  BY DEF Table64OK, Sleeps
<1>2. X86!AgedTicks(i) = Aged(tasks[i]).sleep_ticks
  BY <1>1, AgedIsCell, StateAt DEF X86!AgedTicks, X86!SLEEPING
<1>3. X86!AgedState(i) = Aged(tasks[i]).state
  BY <1>1, <1>2, AgedIsCell, StateAt DEF X86!AgedState, X86!SLEEPING, X86!READY
<1> QED BY <1>2, <1>3 DEF X86!TicksNow, Used, Useds, Table64OK

LEMMA RankMaps ==
    ASSUME Table64OK
    PROVE  /\ \A i \in Id : i \in X86!Candidate <=> Runnable(i)
           /\ \A i \in Id : X86!Best(i) <=> Wins(i)
<1>1. \A i \in Id : i \in X86!Candidate <=> Runnable(i)
  BY AgingMaps, SameNames DEF X86!Candidate, Runnable, X86!READY, Priorities
<1>2. \A j : j \in X86!Candidate => j \in Id
  BY SameNames DEF X86!Candidate
<1>3. \A i \in Id : Priorities[i] = tasks[i].priority /\ X86!ScanPosition(i) = Distance(i)
  BY DEF Priorities, X86!ScanPosition, Distance
<1>4. \A i \in Id : X86!Best(i) <=> Wins(i)
  BY <1>1, <1>2, <1>3 DEF X86!Best, Wins
<1> QED BY <1>1, <1>4

(* The arrays after a tick that leaves the current task running.            *)
LEMMA AfterTickMaps ==
    ASSUME Table64OK, NEW used \in 0..(U32 - 1), tasks' = AfterTick(used)
    PROVE  /\ States' = [t \in X86!Task |-> X86!AgedState(t)]
           /\ Sleeps' = [t \in X86!Task |-> X86!AgedTicks(t)]
           /\ Useds'  = [Useds EXCEPT ![current_task] = used]
           /\ UNCHANGED <<Priorities, Slices>>
<1>1. \A i \in Id : /\ tasks[i] \in task_t /\ Aged(tasks[i]) \in task_t
                    /\ Aged(tasks[i]).priority = tasks[i].priority
                    /\ Aged(tasks[i]).time_slice = tasks[i].time_slice
                    /\ Aged(tasks[i]).ticks_used = tasks[i].ticks_used
  BY AgedIsCell DEF Table64OK
<1>2. \A i \in Id : /\ tasks'[i].state = Aged(tasks[i]).state
                    /\ tasks'[i].sleep_ticks = Aged(tasks[i]).sleep_ticks
                    /\ tasks'[i].priority = tasks[i].priority
                    /\ tasks'[i].time_slice = tasks[i].time_slice
                    /\ tasks'[i].ticks_used = IF i = current_task THEN used
                                              ELSE tasks[i].ticks_used
  BY <1>1 DEF AfterTick, task_t
<1>3. States' = [t \in X86!Task |-> X86!AgedState(t)]
  BY <1>2, AgingMaps, SameNames DEF States
<1>4. Sleeps' = [t \in X86!Task |-> X86!AgedTicks(t)]
  BY <1>2, AgingMaps, SameNames DEF Sleeps
<1>5. Useds' = [Useds EXCEPT ![current_task] = used]
  BY <1>2 DEF Useds
<1>6. Priorities' = Priorities /\ Slices' = Slices
  <2>1. Priorities' = Priorities
    BY <1>2 DEF Priorities
  <2>2. Slices' = Slices
    BY <1>2 DEF Slices
  <2> QED BY <2>1, <2>2
<1> QED BY <1>3, <1>4, <1>5, <1>6

LEMMA SwitchMaps ==
    ASSUME Table64OK, NEW next \in Id, context_switch(next)
    PROVE  /\ X86!SwitchTo(next)
           /\ Sleeps' = [t \in X86!Task |-> X86!AgedTicks(t)]
           /\ UNCHANGED <<Priorities, Slices>>
<1> DEFINE mark(i) == IF i = next THEN "RUNNING"
                      ELSE IF i = current_task THEN "READY" ELSE Aged(tasks[i]).state
<1>1. \A i \in Id : /\ tasks[i] \in task_t /\ Aged(tasks[i]) \in task_t
                    /\ Aged(tasks[i]).priority = tasks[i].priority
                    /\ Aged(tasks[i]).time_slice = tasks[i].time_slice
                    /\ Aged(tasks[i]).ticks_used = tasks[i].ticks_used
  BY AgedIsCell DEF Table64OK
<1>2. /\ Used >= tasks[current_task].time_slice /\ next # current_task /\ Wins(next)
      /\ current_task' = next /\ current_task \in Id
  BY DEF context_switch, Table64OK
<1>3. \A i \in Id : /\ tasks'[i].state = mark(i)
                    /\ tasks'[i].sleep_ticks = Aged(tasks[i]).sleep_ticks
                    /\ tasks'[i].priority = tasks[i].priority
                    /\ tasks'[i].time_slice = tasks[i].time_slice
                    /\ tasks'[i].ticks_used = IF i = current_task THEN 0
                                              ELSE tasks[i].ticks_used
  <2> TAKE i \in Id
  <2>1. CASE i = next
    <3>1. tasks'[i] = [Aged(tasks[i]) EXCEPT !.state = "RUNNING"]
      BY <2>1 DEF context_switch
    <3> QED BY <1>1, <1>2, <2>1, <3>1 DEF task_t
  <2>2. CASE i = current_task
    <3>1. tasks'[i] = [Aged(tasks[i]) EXCEPT !.state = "READY", !.ticks_used = 0]
      BY <1>2, <2>2 DEF context_switch
    <3> QED BY <1>1, <1>2, <2>2, <3>1 DEF task_t
  <2>3. CASE i # next /\ i # current_task
    <3>1. tasks'[i] = Aged(tasks[i])
      BY <2>3 DEF context_switch
    <3> QED BY <1>1, <2>3, <3>1
  <2> QED BY <2>1, <2>2, <2>3
<1>4. States' = [t \in X86!Task |-> CASE t = next         -> X86!RUNNING
                                      [] t = current_task -> X86!READY
                                      [] OTHER            -> X86!AgedState(t)]
  <2>1. \A i \in Id : mark(i) = CASE i = next         -> X86!RUNNING
                                  [] i = current_task -> X86!READY
                                  [] OTHER            -> X86!AgedState(i)
    BY <1>2, AgingMaps DEF X86!RUNNING, X86!READY
  <2> HIDE DEF mark
  <2> QED BY <1>3, <2>1, SameNames DEF States
<1>5. Sleeps' = [t \in X86!Task |-> X86!AgedTicks(t)]
  BY <1>3, AgingMaps, SameNames DEF Sleeps
<1>6. Useds' = [Useds EXCEPT ![current_task] = 0]
  BY <1>3 DEF Useds
<1>7. Priorities' = Priorities /\ Slices' = Slices
  <2>1. Priorities' = Priorities
    BY <1>3 DEF Priorities
  <2>2. Slices' = Slices
    BY <1>3 DEF Slices
  <2> QED BY <2>1, <2>2
<1>8. X86!TicksNow >= Slices[current_task] /\ X86!Best(next)
  BY <1>2, AgingMaps, RankMaps DEF Slices
<1> QED BY <1>2, <1>4, <1>5, <1>6, <1>7, <1>8 DEF X86!SwitchTo

LEMMA TickMaps == ASSUME Table64OK, schedule_next64 PROVE X86!schedule_next
<1>1. /\ Used \in 0..(U32 - 1) /\ 0 \in 0..(U32 - 1) /\ current_task \in Id
      /\ Slices[current_task] = tasks[current_task].time_slice /\ X86!TicksNow = Used
  <2>1. current_task \in Id /\ tasks[current_task] \in task_t
    BY DEF Table64OK
  <2>2. tasks[current_task].ticks_used + 1 \in Int
    BY <2>1 DEF task_t
  <2>3. Used \in 0..(U32 - 1)
    BY <2>2, WrapIsWord DEF Used
  <2>4. 0 \in 0..(U32 - 1)
    BY PortAssumption
  <2>5. Slices[current_task] = tasks[current_task].time_slice
    BY <2>1 DEF Slices
  <2> QED BY <2>1, <2>3, <2>4, <2>5, AgingMaps
<1>2. CASE SliceGoesOn
  <2>1. X86!ContinueSlice /\ Sleeps' = [t \in X86!Task |-> X86!AgedTicks(t)]
        /\ UNCHANGED <<Priorities, Slices>>
    BY <1>1, <1>2, AfterTickMaps DEF SliceGoesOn, X86!ContinueSlice
  <2> QED BY <2>1 DEF schedule_next64, X86!schedule_next
<1>3. CASE NobodyElse
  <2>1. X86!Candidate = {} \/ X86!Best(current_task)
    <3>1. \A j : j \in X86!Candidate => j \in Id
      BY SameNames DEF X86!Candidate
    <3> QED BY <1>1, <1>3, <3>1, RankMaps DEF NobodyElse
  <2>2. X86!RestartSlice /\ Sleeps' = [t \in X86!Task |-> X86!AgedTicks(t)]
        /\ UNCHANGED <<Priorities, Slices>>
    BY <1>1, <1>3, <2>1, AfterTickMaps DEF NobodyElse, X86!RestartSlice
  <2> QED BY <2>2 DEF schedule_next64, X86!schedule_next
<1>4. ASSUME NEW next \in Id, context_switch(next) PROVE X86!schedule_next
  BY <1>4, SwitchMaps, SameNames DEF schedule_next64, X86!schedule_next
<1> QED BY <1>2, <1>3, <1>4 DEF schedule_next64

(* Every call on the table is the call of the same name.                    *)
LEMMA TableCallMaps == ASSUME Table64OK, TableCall PROVE X86!Next
<1>1. CASE schedule_next64
  BY <1>1, TickMaps DEF X86!Next
<1>2. ASSUME NEW p \in Priority, task_create64(p) PROVE X86!Next
  BY <1>2, CreateMaps DEF X86!Next, X86!CommonCall
<1>3. ASSUME NEW i \in Id, NEW p \in Priority, task_set_priority64(i, p) PROVE X86!Next
  BY <1>3, SetPriorityMaps, SameNames DEF X86!Next, X86!CommonCall
<1>4. ASSUME NEW i \in Id, NEW n \in Nap, task_sleep64(i, n) PROVE X86!Next
  BY <1>4, SleepMaps, SameNames DEF X86!Next, X86!CommonCall
<1>5. ASSUME NEW i \in Id, task_kill64(i) PROVE X86!Next
  BY <1>5, KillMaps, SameNames DEF X86!Next
<1>6. ASSUME NEW i \in Id, task_block64(i) PROVE X86!Next
  BY <1>6, BlockMaps, SameNames DEF X86!Next
<1>7. ASSUME NEW i \in Id, task_unblock64(i) PROVE X86!Next
  BY <1>7, UnblockMaps, SameNames DEF X86!Next, X86!CommonCall
<1> QED BY <1>1, <1>2, <1>3, <1>4, <1>5, <1>6, <1>7 DEF TableCall

(* A cell of the queue is free here exactly when it is Unused there.        *)
LEMMA CellMaps ==
    ASSUME Table64OK, NEW i \in Cell
    PROVE  /\ ipc_queue[i].used = 0 <=> ipc_queue[i] = X86!Unused
           /\ ipc_queue[i].used = 1 <=> ipc_queue[i] # X86!Unused
<1>1. CASE ipc_queue[i] \in [used : {0}]
  BY <1>1 DEF X86!Unused
<1>2. CASE ipc_queue[i] \in [used : {1}, msg : Envelope]
  <2>1. ipc_queue[i].used = 1
    BY <1>2
  <2>2. X86!Unused.used = 0
    BY DEF X86!Unused
  <2> QED BY <2>1, <2>2
<1> QED BY <1>1, <1>2 DEF Table64OK

LEMMA BeforeIsCell == ASSUME NEW i \in Cell, NEW j \in 0..(i - 1) PROVE j \in Cell
BY PortAssumption DEF Cell

LEMMA SendMaps ==
    ASSUME Table64OK, NEW m \in Envelope, ipc_send64(m) PROVE X86!ipc_send(m)
<1>1. m.to \in Id /\ States[m.to] = tasks[m.to].state
  BY StateAt DEF Envelope
<1>2. CASE /\ tasks[m.to].state = "DEAD" \/ \A i \in Cell : ipc_queue[i].used = 1
           /\ Answer(m, -1)
           /\ UNCHANGED <<tasks, task_count, current_task, ipc_queue>>
  <2>1. X86!Refuse(m)
    BY <1>2 DEF Answer, X86!Refuse, X86!vars, States, Priorities, Slices, Useds, Sleeps
  <2>2. States[m.to] # X86!DEAD => \A i \in X86!Slot : ipc_queue[i] # X86!Unused
    BY <1>1, <1>2, CellMaps, SameNames DEF X86!DEAD
  <2> QED BY <2>1, <2>2 DEF X86!ipc_send
<1>3. CASE /\ tasks[m.to].state # "DEAD"
           /\ \E i \in Cell :
                 /\ ipc_queue[i].used = 0
                 /\ \A j \in 0..(i - 1) : ipc_queue[j].used = 1
                 /\ ipc_queue' = [ipc_queue EXCEPT ![i] = [used |-> 1, msg |-> m]]
           /\ Put(m.to, [tasks[m.to] EXCEPT !.state = IF @ = "BLOCKED" THEN "READY" ELSE @])
           /\ Answer(m, 0)
  <2>1. PICK i \in Cell :
           /\ ipc_queue[i].used = 0
           /\ \A j \in 0..(i - 1) : ipc_queue[j].used = 1
           /\ ipc_queue' = [ipc_queue EXCEPT ![i] = [used |-> 1, msg |-> m]]
    BY <1>3
  <2>2. X86!FirstUnused(i)
    BY <2>1, CellMaps, BeforeIsCell DEF X86!FirstUnused
  <2> DEFINE mark == IF tasks[m.to].state = "BLOCKED" THEN "READY" ELSE tasks[m.to].state
  <2>3. /\ Put(m.to, [tasks[m.to] EXCEPT !.state = mark])
        /\ mark \in {"RUNNING", "READY", "BLOCKED", "DEAD", "SLEEPING"}
    BY <1>1, <1>3 DEF Table64OK, task_t
  <2>4. States' = [States EXCEPT ![m.to] =
                      IF @ = X86!BLOCKED THEN X86!READY ELSE @]
    <3>1. mark = IF States[m.to] = X86!BLOCKED THEN X86!READY ELSE States[m.to]
      BY <1>1 DEF X86!BLOCKED, X86!READY
    <3> HIDE DEF mark
    <3>2. States' = [States EXCEPT ![m.to] = mark]
      BY <1>1, <2>3, MarkMaps
    <3> QED BY <3>1, <3>2
  <2>5. X86!Wake(m.to)
    <3> HIDE DEF mark
    <3> QED BY <1>1, <2>3, <2>4, MarkMaps DEF X86!Wake
  <2>6. X86!Deliver(m)
    BY <1>3, <2>1, <2>2, <2>5, SameNames DEF Answer, X86!Deliver, X86!Full
  <2> QED BY <1>1, <1>3, <2>6 DEF X86!ipc_send, X86!DEAD
<1> QED BY <1>2, <1>3 DEF ipc_send64

LEMMA ReceiveMaps ==
    ASSUME Table64OK, NEW t \in Id, ipc_receive64(t) PROVE X86!ipc_receive(t)
<1>1. \A i \in Cell : MailFor(i, t) <=> X86!IsFor(i, t)
  BY CellMaps DEF MailFor, X86!IsFor
<1>2. UNCHANGED X86!vars
  BY DEF ipc_receive64, table, X86!vars, States, Priorities, Slices, Useds, Sleeps
<1>3. CASE /\ \A i \in Cell : ~MailFor(i, t)
           /\ reply' = [call |-> "receive", by |-> t, code |-> -1]
           /\ UNCHANGED ipc_queue
  BY <1>1, <1>2, <1>3, SameNames DEF X86!ipc_receive
<1>4. ASSUME NEW i \in Cell, MailFor(i, t), \A j \in 0..(i - 1) : ~MailFor(j, t),
             reply' = [call |-> "receive", by |-> t, code |-> 0,
                       data |-> ipc_queue[i].msg.data],
             ipc_queue' = [ipc_queue EXCEPT ![i] = [used |-> 0]]
      PROVE  X86!ipc_receive(t)
  <2>1. X86!Take(i, t)
    BY <1>1, <1>4, BeforeIsCell DEF X86!Take, X86!Unused
  <2> QED BY <1>2, <2>1, SameNames DEF X86!ipc_receive
<1> QED BY <1>3, <1>4 DEF ipc_receive64

(* PortSpec: the aarch64 file implements the x86 one.  Every theorem of Ipc  *)
(* and Scheduler about any client holds of it under the mapping.            *)
THEOREM PortCorrect == Spec64 => PortSpec
<1>1. init_scheduler => X86!IpcInit
  BY InitMaps
<1>2. Table64OK /\ [Next64]_vars64 => [X86!IpcNext]_X86!allVars
  <2> SUFFICES ASSUME Table64OK, [Next64]_vars64 PROVE [X86!IpcNext]_X86!allVars
    OBVIOUS
  <2>1. CASE UNCHANGED vars64
    BY <2>1 DEF vars64, X86!allVars, X86!vars, X86!ipcVars,
       States, Priorities, Slices, Useds, Sleeps
  <2>2. CASE TableCall /\ UNCHANGED queue
    BY <2>2, TableCallMaps DEF queue, X86!IpcNext, X86!ipcVars
  <2>3. ASSUME NEW m \in Envelope, ipc_send64(m) PROVE X86!IpcNext
    BY <2>3, SendMaps, SameNames DEF X86!IpcNext, X86!IpcCall
  <2>4. ASSUME NEW t \in Id, ipc_receive64(t) PROVE X86!IpcNext
    BY <2>4, ReceiveMaps, SameNames DEF X86!IpcNext, X86!IpcCall
  <2> QED BY <2>1, <2>2, <2>3, <2>4 DEF Next64
<1> QED BY <1>1, <1>2, CellsCorrect, PTL DEF Spec64, PortSpec, X86!IpcSpec

-----------------------------------------------------------------------------
USE EntryWordsAssumption, FifoSizeAssumption, LeftoverAssumption

(* What a frame has yet to do: accesses from ops and then last, every write  *)
(* of a character right behind a test.                                       *)
Plan(ops, last) ==
    {todo \in Seq(ops \cup {last}) :
        /\ todo # <<>>
        /\ \A k \in 1..Len(todo) : todo[k] = last <=> k = Len(todo)
        /\ \A k \in 2..Len(todo) : todo[k] = "write" => todo[k - 1] = "test"}

MainOps  == {"exceptions_init", "uart_init", "gic_init", "gic_enable_irq",
             "timer_init", "daifclr", "test", "write"}
IrqOps   == {"timer_handler", "gic_end_of_interrupt", "test", "write"}
PanicOps == {"daifset", "test", "write"}

MainFrame  == [who : {"main"}, irq : {SPURIOUS}, todo : Plan(MainOps, "wfe")]
IrqFrame   == [who : {"irq"}, irq : Irq \cup {SPURIOUS},
               todo : {<<"gic_acknowledge">>} \cup Plan(IrqOps, "eret")]
PanicFrame == [who : {"panic"}, irq : {SPURIOUS}, todo : Plan(PanicOps, "wfe")]
AnyFrame   == MainFrame \cup IrqFrame \cup PanicFrame

(* The stack: kernel_main alone, one handler on top of it (interrupts do not *)
(* nest), or a panic, which never returns, on top of anything.               *)
Below   == Tail(frames)
InMain  == Top \in MainFrame /\ Below = <<>>
InIrq   == Top \in IrqFrame /\ \E m \in MainFrame : Below = <<m>>
InPanic == Top \in PanicFrame
Shape   == /\ frames \in Seq(AnyFrame) /\ frames # <<>>
           /\ InMain \/ InIrq \/ InPanic

DevicesOK ==
    /\ core \in [masked : BOOLEAN, vbar : BOOLEAN, intact : BOOLEAN]
    /\ gic \in [on : BOOLEAN, enabled : SUBSET Irq, active : SUBSET Irq]
    /\ uart \in [on : BOOLEAN, queued : 0..FifoSize]
    /\ timer \in [on : BOOLEAN, ticks : 0..1]
    /\ lost \subseteq {"main"}

(* An active interrupt belongs to the handler that runs, masked, and that    *)
(* has its end of interrupt still before it; or to one a panic stopped.      *)
WillEnd(f) == /\ Len(f.todo) >= 2
              /\ f.todo[Len(f.todo) - 1] = "gic_end_of_interrupt"

ActiveInv ==
    /\ InMain => gic.active = {}
    /\ InIrq => /\ core.masked
                /\ gic.active = {} \/ (gic.active = {Top.irq} /\ WillEnd(Top))
    /\ InPanic => /\ core.masked
                  /\ \A i \in gic.active : \E k \in DOMAIN frames : frames[k].irq = i

(* After a successful test there is room, until somebody else writes: nobody *)
(* does to a handler or a panic, and only a handler that prints to           *)
(* kernel_main.                                                              *)
Room(f)   == Head(f.todo) = "write" => uart.queued < FifoSize
Silent(f) == \A k \in 1..Len(f.todo) : f.todo[k] \notin {"test", "write"}
TimerOnly == gic.enabled \subseteq {TIMER_IRQ}

LostInv ==
    /\ InIrq \/ InPanic => Room(Top)
    /\ TimerOnly => /\ lost = {}
                    /\ InMain => Room(Top)
                    /\ InIrq => Silent(Top) /\ Room(Below[1])

ArmInv == Shape /\ DevicesOK /\ ActiveInv /\ LostInv

-----------------------------------------------------------------------------
(* Lists of accesses.                                                        *)

(* A list without an end in which every write is behind a test.              *)
Clean(ops) ==
    {s \in Seq(ops) : \A k \in 1..Len(s) :
        s[k] = "write" => k > 1 /\ s[k - 1] = "test"}

LEMMA CleanConcat ==
  ASSUME NEW ops, NEW s \in Clean(ops), NEW t \in Clean(ops)
  PROVE  s \o t \in Clean(ops)
<1> DEFINE u == s \o t
<1>1. s \in Seq(ops) /\ t \in Seq(ops)
  BY DEF Clean
<1>2. /\ u \in Seq(ops) /\ Len(u) = Len(s) + Len(t)
      /\ \A k \in 1..Len(s) : u[k] = s[k]
      /\ \A k \in 1..Len(t) : u[Len(s) + k] = t[k]
  BY <1>1
<1>3. ASSUME NEW k \in 1..Len(u), u[k] = "write" PROVE k > 1 /\ u[k - 1] = "test"
  <2> HIDE DEF u
  <2>1. CASE k \in 1..Len(s)
    <3>1. s[k] = "write"
      BY <1>2, <1>3, <2>1
    <3>2. k > 1 /\ s[k - 1] = "test" /\ k - 1 \in 1..Len(s)
      BY <1>1, <2>1, <3>1 DEF Clean
    <3> QED BY <1>2, <3>2
  <2>2. CASE k \notin 1..Len(s)
    <3>1. PICK j \in 1..Len(t) : k = Len(s) + j
      <4>1. k - Len(s) \in 1..Len(t)
        BY <1>1, <1>2, <2>2
      <4>2. k = Len(s) + (k - Len(s))
        BY <1>1, <1>2
      <4> QED BY <4>1, <4>2
    <3>2. t[j] = "write"
      BY <1>2, <1>3, <3>1
    <3>3. j > 1 /\ t[j - 1] = "test" /\ j - 1 \in 1..Len(t)
      BY <1>1, <3>2 DEF Clean
    <3>4. u[Len(s) + (j - 1)] = "test"
      BY <1>2, <3>3
    <3> QED BY <1>1, <3>1, <3>3, <3>4
  <2> QED BY <2>1, <2>2
<1> HIDE DEF u
<1>4. u \in Clean(ops)
  BY <1>2, <1>3 DEF Clean
<1> QED BY <1>4 DEF u

LEMMA CleanPlan ==
  ASSUME NEW ops, NEW s \in Clean(ops), NEW last, last \notin ops, last # "write"
  PROVE  s \o <<last>> \in Plan(ops, last) /\ Head(s \o <<last>>) # "write"
<1> DEFINE u == s \o <<last>>
<1>1. s \in Seq(ops) /\ <<last>> \in Seq({last})
  BY DEF Clean
<1>2. /\ u \in Seq(ops \cup {last}) /\ Len(u) = Len(s) + 1
      /\ \A k \in 1..Len(s) : u[k] = s[k] /\ u[k] \in ops
      /\ u[Len(s) + 1] = last
  BY <1>1
<1> HIDE DEF u
<1>3. \A k \in 1..Len(u) : u[k] = last <=> k = Len(u)
  BY <1>1, <1>2
<1>4. ASSUME NEW k \in 2..Len(u), u[k] = "write" PROVE u[k - 1] = "test"
  <2>1. k \in 1..Len(s) /\ k - 1 \in 1..Len(s) /\ s[k] = "write"
    BY <1>1, <1>2, <1>4
  <2>2. s[k - 1] = "test"
    BY <2>1 DEF Clean
  <2> QED BY <1>2, <2>1, <2>2
<1>5. u # <<>>
  BY <1>1, <1>2
<1>6. u \in Plan(ops, last)
  BY <1>2, <1>3, <1>4, <1>5 DEF Plan
<1>7. u[1] # "write"
  <2>1. CASE Len(s) = 0
    BY <1>2, <2>1
  <2>2. CASE 1 \in 1..Len(s)
    <3>1. s[1] # "write"
      BY <2>2 DEF Clean
    <3> QED BY <1>2, <2>2, <3>1
  <2>3. Len(s) = 0 \/ 1 \in 1..Len(s)
    BY <1>1
  <2> QED BY <2>1, <2>2, <2>3
<1>8. Head(u) = u[1]
  BY <1>2, <1>5
<1> QED BY <1>6, <1>7, <1>8 DEF u

(* What is left of a plan after a step is a plan.                            *)
LEMMA PlanTail ==
  ASSUME NEW ops, NEW last, NEW todo \in Plan(ops, last), Head(todo) # last
  PROVE  /\ Len(todo) >= 2 /\ Head(todo) \in ops
         /\ Tail(todo) \in Plan(ops, last)
         /\ Head(Tail(todo)) = "write" => Head(todo) = "test"
<1> DEFINE u == Tail(todo)
<1>1. /\ todo \in Seq(ops \cup {last}) /\ todo # <<>>
      /\ \A k \in 1..Len(todo) : todo[k] = last <=> k = Len(todo)
      /\ \A k \in 2..Len(todo) : todo[k] = "write" => todo[k - 1] = "test"
  BY DEF Plan
<1>2. Len(todo) \in Nat /\ Len(todo) >= 1 /\ Head(todo) = todo[1]
  BY <1>1
<1>3. Len(todo) >= 2
  BY <1>1, <1>2
<1>4. todo[1] \in ops
  BY <1>1, <1>2
<1>5. /\ u \in Seq(ops \cup {last}) /\ Len(u) = Len(todo) - 1
      /\ \A k \in 1..Len(u) : u[k] = todo[k + 1]
  BY <1>1, <1>2
<1> HIDE DEF u
<1>6. \A k \in 1..Len(u) : u[k] = last <=> k = Len(u)
  BY <1>1, <1>2, <1>5
<1>7. ASSUME NEW k \in 2..Len(u), u[k] = "write" PROVE u[k - 1] = "test"
  <2>1. k + 1 \in 2..Len(todo) /\ todo[k + 1] = "write"
    BY <1>2, <1>5, <1>7
  <2>2. todo[k] = "test"
    BY <1>1, <2>1
  <2>3. k - 1 \in 1..Len(u) /\ (k - 1) + 1 = k
    BY <1>5
  <2> QED BY <1>5, <2>2, <2>3
<1>8. u # <<>>
  BY <1>2, <1>3, <1>5
<1>9. u \in Plan(ops, last)
  BY <1>5, <1>6, <1>7, <1>8 DEF Plan
<1>10. Head(u) = "write" => Head(todo) = "test"
  <2>1. Head(u) = todo[2]
    BY <1>2, <1>3, <1>5, <1>8
  <2> QED BY <1>1, <1>2, <1>3, <2>1
<1> QED BY <1>2, <1>3, <1>4, <1>9, <1>10 DEF u

(* The next access of a plan; the last ends it.                              *)
LEMMA PlanHead ==
  ASSUME NEW ops, NEW last, NEW todo \in Plan(ops, last)
  PROVE  Head(todo) \in ops \cup {last} /\ (Head(todo) = last => Len(todo) = 1)
<1>1. /\ todo \in Seq(ops \cup {last}) /\ todo # <<>>
      /\ \A k \in 1..Len(todo) : todo[k] = last <=> k = Len(todo)
  BY DEF Plan
<1>2. 1 \in 1..Len(todo) /\ Head(todo) = todo[1]
  BY <1>1
<1>3. todo[1] = last <=> 1 = Len(todo)
  BY <1>1, <1>2
<1> QED BY <1>1, <1>2, <1>3

(* A text is clean, and so is a single access that writes no character.      *)
LEMMA CleanText ==
  ASSUME NEW ops, {"test", "write"} \subseteq ops
  PROVE  uart_print \in Clean(ops)
<1> DEFINE s == uart_putc
<1>1. s \in Seq(ops) /\ Len(s) = 2 /\ s[1] = "test" /\ s[2] = "write"
  BY DEF uart_putc
<1> HIDE DEF s
<1>2. \A k \in 1..Len(s) : s[k] = "write" => k > 1 /\ s[k - 1] = "test"
  BY <1>1
<1>3. s \in Clean(ops)
  BY <1>1, <1>2 DEF Clean
<1> QED BY <1>3, CleanConcat DEF s, uart_print

LEMMA CleanOne ==
  ASSUME NEW ops, NEW op \in ops, op # "write"
  PROVE  <<op>> \in Clean(ops)
<1> DEFINE s == <<op>>
<1>1. s \in Seq(ops) /\ Len(s) = 1 /\ s[1] = op
  OBVIOUS
<1> HIDE DEF s
<1>2. \A k \in 1..Len(s) : s[k] # "write"
  BY <1>1
<1>3. s \in Clean(ops)
  BY <1>1, <1>2 DEF Clean
<1> QED BY <1>3 DEF s

LEMMA TextIs ==
  /\ uart_print \in Seq({"test", "write"}) /\ Len(uart_print) = 4
  /\ uart_print[1] = "test" /\ uart_print[2] = "write"
  /\ uart_print[3] = "test" /\ uart_print[4] = "write"
<1> DEFINE s == uart_putc
           u == s \o s
<1>1. s \in Seq({"test", "write"}) /\ Len(s) = 2 /\ s[1] = "test" /\ s[2] = "write"
  BY DEF uart_putc
<1> HIDE DEF s
<1>2. /\ u \in Seq({"test", "write"}) /\ Len(u) = Len(s) + Len(s)
      /\ \A k \in 1..Len(s) + Len(s) :
            u[k] = IF k <= Len(s) THEN s[k] ELSE s[k - Len(s)]
  <2>1. s \in Seq({"test", "write"})
    BY <1>1
  <2> QED BY <2>1, ConcatProperties
<1> HIDE DEF u
<1>3. u[1] = s[1] /\ u[2] = s[2] /\ u[3] = s[1] /\ u[4] = s[2]
  BY <1>1, <1>2
<1>4. /\ u \in Seq({"test", "write"}) /\ Len(u) = 4
      /\ u[1] = "test" /\ u[2] = "write" /\ u[3] = "test" /\ u[4] = "write"
  BY <1>1, <1>2, <1>3
<1> QED BY <1>4 DEF s, u, uart_print

(* The programs of the model are plans.                                      *)
LEMMA MainPlan ==
  kernel_main \in Plan(MainOps, "wfe") /\ Head(kernel_main) # "write"
<1> DEFINE a == <<"exceptions_init", "uart_init">>
           b == a \o uart_print
           c == b \o <<"gic_init">>
           d == c \o uart_print
           e == d \o <<"gic_enable_irq">>
           f == e \o uart_print
           g == f \o <<"timer_init">>
           h == g \o uart_print
           i == h \o <<"daifclr">>
           j == i \o uart_print
<1>1. a \in Clean(MainOps)
  <2>1. a \in Seq(MainOps) /\ Len(a) = 2 /\ a[1] # "write" /\ a[2] # "write"
    BY DEF MainOps
  <2> HIDE DEF a
  <2>2. \A k \in 1..Len(a) : a[k] # "write"
    BY <2>1
  <2> QED BY <2>1, <2>2 DEF Clean
<1>2. uart_print \in Clean(MainOps)
  BY CleanText DEF MainOps
<1>3. ASSUME NEW op \in {"gic_init", "gic_enable_irq", "timer_init", "daifclr"}
      PROVE  <<op>> \in Clean(MainOps)
  <2>1. op \in MainOps /\ op # "write"
    BY DEF MainOps
  <2> QED BY <2>1, CleanOne
<1> HIDE DEF a
<1>4. b \in Clean(MainOps)
  BY <1>1, <1>2, CleanConcat
<1> HIDE DEF b
<1>5. c \in Clean(MainOps)
  BY <1>3, <1>4, CleanConcat
<1> HIDE DEF c
<1>6. d \in Clean(MainOps)
  BY <1>2, <1>5, CleanConcat
<1> HIDE DEF d
<1>7. e \in Clean(MainOps)
  BY <1>3, <1>6, CleanConcat
<1> HIDE DEF e
<1>8. f \in Clean(MainOps)
  BY <1>2, <1>7, CleanConcat
<1> HIDE DEF f
<1>9. g \in Clean(MainOps)
  BY <1>3, <1>8, CleanConcat
<1> HIDE DEF g
<1>10. h \in Clean(MainOps)
  BY <1>2, <1>9, CleanConcat
<1> HIDE DEF h
<1>11. i \in Clean(MainOps)
  BY <1>3, <1>10, CleanConcat
<1> HIDE DEF i
<1>12. j \in Clean(MainOps)
  BY <1>2, <1>11, CleanConcat
<1> HIDE DEF j
<1>13. j \o <<"wfe">> \in Plan(MainOps, "wfe") /\ Head(j \o <<"wfe">>) # "write"
  BY <1>12, CleanPlan DEF MainOps
<1> QED BY <1>13 DEF kernel_main, j, i, h, g, f, e, d, c, b, a

LEMMA PanicPlan == /\ kernel_panic_aarch64 \in Plan(PanicOps, "wfe")
                   /\ Head(kernel_panic_aarch64) # "write"
<1>1. uart_print \in Clean(PanicOps) /\ <<"daifset">> \in Clean(PanicOps)
  BY CleanText, CleanOne DEF PanicOps
<1>2. <<"daifset">> \o uart_print \in Clean(PanicOps)
  BY <1>1, CleanConcat
<1> QED BY <1>2, CleanPlan DEF PanicOps, kernel_panic_aarch64

(* What a handler does for each id, the spurious one included: it begins     *)
(* with no write, ends what was active, and prints only for a leftover.      *)
LEMMA ServedPlan ==
  ASSUME NEW i \in Irq \cup {SPURIOUS}
  PROVE  /\ Served(i) \in Plan(IrqOps, "eret")
         /\ Head(Served(i)) # "write"
         /\ i # SPURIOUS => /\ Len(Served(i)) >= 2
                            /\ Served(i)[Len(Served(i)) - 1] = "gic_end_of_interrupt"
         /\ i \in {SPURIOUS, TIMER_IRQ} =>
               \A k \in 1..Len(Served(i)) : Served(i)[k] \notin {"test", "write"}
<1> DEFINE u == Served(i)
<1>1. CASE i = SPURIOUS
  <2>1. u = <<"eret">>
    BY <1>1 DEF Served, SPURIOUS, TIMER_IRQ
  <2> HIDE DEF u
  <2>2. u \in Seq(IrqOps \cup {"eret"}) /\ Len(u) = 1 /\ u[1] = "eret"
    BY <2>1
  <2>3. u # <<>> /\ \A k \in 1..Len(u) : k = 1
    BY <2>2
  <2>6. \A k \in 2..Len(u) : FALSE
    BY <2>2
  <2>4. u \in Plan(IrqOps, "eret")
    BY <2>2, <2>3, <2>6 DEF Plan
  <2>5. Head(u) # "write" /\ \A k \in 1..Len(u) : u[k] \notin {"test", "write"}
    BY <2>2, <2>3
  <2> QED BY <1>1, <2>4, <2>5 DEF u
<1>2. CASE i = TIMER_IRQ
  <2>1. u = <<"timer_handler", "gic_end_of_interrupt", "eret">>
    BY <1>2 DEF Served, SPURIOUS, TIMER_IRQ
  <2> HIDE DEF u
  <2>2. /\ u \in Seq(IrqOps \cup {"eret"}) /\ Len(u) = 3
        /\ u[1] = "timer_handler" /\ u[2] = "gic_end_of_interrupt" /\ u[3] = "eret"
    BY <2>1 DEF IrqOps
  <2>7. u # <<>>
    BY <2>2
  <2>3. \A k \in 1..Len(u) : k = 1 \/ k = 2 \/ k = 3
    BY <2>2
  <2>4. \A k \in 1..Len(u) : u[k] \notin {"test", "write"} /\ (u[k] = "eret" <=> k = Len(u))
    BY <2>2, <2>3
  <2>8. \A k \in 2..Len(u) : u[k] # "write"
    BY <2>2, <2>4
  <2>5. u \in Plan(IrqOps, "eret")
    BY <2>2, <2>4, <2>7, <2>8 DEF Plan
  <2>6. Head(u) # "write" /\ u[Len(u) - 1] = "gic_end_of_interrupt"
    BY <2>2, <2>3
  <2> QED BY <2>2, <2>4, <2>5, <2>6 DEF u
<1>3. CASE i # SPURIOUS /\ i # TIMER_IRQ
  <2> DEFINE v == <<"gic_end_of_interrupt", "eret">>
  <2>1. u = uart_print \o v
    BY <1>3 DEF Served
  <2>2. /\ v \in Seq(IrqOps \cup {"eret"}) /\ Len(v) = 2
        /\ v[1] = "gic_end_of_interrupt" /\ v[2] = "eret"
    BY DEF IrqOps
  <2>3. uart_print \in Seq(IrqOps \cup {"eret"})
    BY TextIs DEF IrqOps
  <2> HIDE DEF u, v
  <2>4. /\ u \in Seq(IrqOps \cup {"eret"}) /\ Len(u) = 4 + 2
        /\ \A k \in 1..4 + 2 : u[k] = IF k <= 4 THEN uart_print[k] ELSE v[k - 4]
    <3>1. Len(uart_print) = 4
      BY TextIs
    <3>2. v \in Seq(IrqOps \cup {"eret"}) /\ Len(v) = 2
      BY <2>2
    <3>3. /\ u \in Seq(IrqOps \cup {"eret"}) /\ Len(u) = Len(uart_print) + Len(v)
          /\ \A k \in 1..Len(uart_print) + Len(v) :
                u[k] = IF k <= Len(uart_print) THEN uart_print[k]
                                               ELSE v[k - Len(uart_print)]
      <4>1. v \in Seq(IrqOps \cup {"eret"})
        BY <2>2
      <4> QED BY <2>1, <2>3, <4>1, ConcatProperties
    <3> QED BY <3>1, <3>2, <3>3
  <2>5. u[5] = v[1] /\ u[6] = v[2]
    BY <2>4
  <2>6. /\ u \in Seq(IrqOps \cup {"eret"}) /\ Len(u) = 6
        /\ u[1] = "test" /\ u[2] = "write" /\ u[3] = "test" /\ u[4] = "write"
        /\ u[5] = "gic_end_of_interrupt" /\ u[6] = "eret"
    BY <2>2, <2>4, <2>5, TextIs
  <2>7. u # <<>>
    <3>1. Len(u) = 6
      BY <2>6
    <3>2. Len(<<>>) = 0
      OBVIOUS
    <3> QED BY <3>1, <3>2
  <2>12. \A k \in 1..6 : k = 1 \/ k = 2 \/ k = 3 \/ k = 4 \/ k = 5 \/ k = 6
    OBVIOUS
  <2>13. \A k \in 1..Len(u) : k = 1 \/ k = 2 \/ k = 3 \/ k = 4 \/ k = 5 \/ k = 6
    BY <2>6, <2>12
  <2>8. \A k \in 1..Len(u) : u[k] = "eret" <=> k = Len(u)
    BY <2>6, <2>7
  <2>9. \A k \in 2..Len(u) : u[k] = "write" => u[k - 1] = "test"
    BY <2>6, <2>7
  <2>10. u \in Plan(IrqOps, "eret")
    BY <2>6, <2>7, <2>8, <2>9 DEF Plan
  <2>11. Head(u) # "write" /\ Len(u) >= 2 /\ u[Len(u) - 1] = "gic_end_of_interrupt"
    BY <2>6, <2>7
  <2> QED BY <1>3, <2>10, <2>11 DEF u
<1> QED BY <1>1, <1>2, <1>3

-----------------------------------------------------------------------------
(* The stack of frames.                                                      *)

(* A frame goes on top.                                                      *)
LEMMA Push ==
  ASSUME NEW S, NEW s \in Seq(S), NEW e \in S
  PROVE  /\ <<e>> \o s \in Seq(S) /\ <<e>> \o s # <<>>
         /\ Head(<<e>> \o s) = e /\ Tail(<<e>> \o s) = s
         /\ Len(<<e>> \o s) = Len(s) + 1
         /\ \A k \in 1..Len(s) : (<<e>> \o s)[k + 1] = s[k]
<1> DEFINE u == <<e>> \o s
<1>1. <<e>> \in Seq(S) /\ Len(<<e>>) = 1 /\ <<e>>[1] = e
  OBVIOUS
<1>2. u \in Seq(S) /\ Len(u) = 1 + Len(s)
  BY <1>1
<1>3. u[1] = e /\ \A k \in 1..Len(s) : u[k + 1] = s[k]
  BY <1>1
<1> HIDE DEF u
<1>4. u # <<>> /\ Head(u) = e
  BY <1>2, <1>3
<1>5. Tail(u) = s
  BY <1>2, <1>3, <1>4
<1> QED BY <1>2, <1>3, <1>4, <1>5 DEF u

(* The three kinds of frames are told apart by who runs.                     *)
LEMMA Kinds ==
  /\ \A f \in MainFrame : f.who = "main" /\ f.todo \in Plan(MainOps, "wfe")
  /\ \A f \in IrqFrame : f.who = "irq" /\ f.irq \in Irq \cup {SPURIOUS}
  /\ \A f \in PanicFrame : f.who = "panic" /\ f.todo \in Plan(PanicOps, "wfe")
BY DEF MainFrame, IrqFrame, PanicFrame

LEMMA OnePlace ==
  /\ InMain => ~InIrq /\ ~InPanic
  /\ InIrq => ~InMain /\ ~InPanic
  /\ InPanic => ~InMain /\ ~InIrq
BY Kinds DEF InMain, InIrq, InPanic

(* What the running frame's next access can be, by who it is.                *)
LEMMA NextOp ==
  ASSUME Shape
  PROVE  /\ InMain => Op \in MainOps \cup {"wfe"}
         /\ InIrq => Op \in IrqOps \cup {"eret", "gic_acknowledge"}
         /\ InPanic => Op \in PanicOps \cup {"wfe"}
<1>1. ASSUME NEW ops, NEW last, Top.todo \in Plan(ops, last) PROVE Op \in ops \cup {last}
  BY <1>1 DEF Plan, Op
<1>2. CASE InMain
  BY <1>1, <1>2, OnePlace, Kinds DEF InMain
<1>3. CASE InIrq
  <2>1. Top.todo = <<"gic_acknowledge">> \/ Top.todo \in Plan(IrqOps, "eret")
    BY <1>3 DEF InIrq, IrqFrame
  <2>2. CASE Top.todo = <<"gic_acknowledge">>
    BY <1>3, <2>2, OnePlace DEF Op
  <2>3. CASE Top.todo \in Plan(IrqOps, "eret")
    BY <1>1, <1>3, <2>3, OnePlace
  <2> QED BY <2>1, <2>2, <2>3
<1>4. CASE InPanic
  BY <1>1, <1>4, OnePlace, Kinds DEF InPanic
<1> QED BY <1>2, <1>3, <1>4 DEF Shape

(* An access takes the running frame on, and leaves those below alone.       *)
LEMMA DoneStep ==
  ASSUME Shape, Done, Op \notin {"wfe", "eret", "gic_acknowledge"}
  PROVE  /\ Shape' /\ Below' = Below
         /\ Top'.irq = Top.irq /\ Top'.todo = Tail(Top.todo)
         /\ (\E S : Top.todo \in Seq(S)) /\ Len(Top.todo) >= 2
         /\ Head(Top'.todo) = "write" => Op = "test"
         /\ InMain' <=> InMain
         /\ InIrq' <=> InIrq
         /\ InPanic' <=> InPanic
         /\ \A k \in DOMAIN frames : k \in DOMAIN frames' /\ frames'[k].irq = frames[k].irq
<1> DEFINE f == [Top EXCEPT !.todo = Tail(@)]
<1>1. Top \in AnyFrame /\ Below \in Seq(AnyFrame) /\ frames # <<>>
  BY DEF Shape, Top, Below
<1>2. ASSUME NEW ops, NEW last, last \in {"wfe", "eret"},
             Top.todo \in Plan(ops, last)
      PROVE  /\ Tail(Top.todo) \in Plan(ops, last)
             /\ (\E S : Top.todo \in Seq(S)) /\ Len(Top.todo) >= 2
             /\ Head(Tail(Top.todo)) = "write" => Op = "test"
  <2>1. Head(Top.todo) # last
    BY <1>2 DEF Op
  <2>2. \E S : Top.todo \in Seq(S)
    BY <1>2 DEF Plan
  <2> QED BY <1>2, <2>1, <2>2, PlanTail DEF Op
<1>3. /\ Top \in MainFrame => f \in MainFrame
      /\ Top \in IrqFrame => f \in IrqFrame
      /\ Top \in PanicFrame => f \in PanicFrame
      /\ (\E S : Top.todo \in Seq(S)) /\ Len(Top.todo) >= 2
      /\ Head(f.todo) = "write" => Op = "test"
      /\ f.irq = Top.irq /\ f.todo = Tail(Top.todo)
  <2>1. CASE Top \in MainFrame
    <3>1. Top.todo \in Plan(MainOps, "wfe")
      BY <2>1 DEF MainFrame
    <3>2. f \in MainFrame /\ f.irq = Top.irq /\ f.todo = Tail(Top.todo)
      BY <1>2, <2>1, <3>1 DEF MainFrame
    <3> QED BY <1>2, <2>1, <3>1, <3>2, Kinds
  <2>2. CASE Top \in IrqFrame
    <3>1. Top.todo # <<"gic_acknowledge">>
      BY DEF Op
    <3>2. Top.todo \in Plan(IrqOps, "eret")
      BY <2>2, <3>1 DEF IrqFrame
    <3>3. f \in IrqFrame /\ f.irq = Top.irq /\ f.todo = Tail(Top.todo)
      BY <1>2, <2>2, <3>2 DEF IrqFrame
    <3> QED BY <1>2, <2>2, <3>2, <3>3, Kinds
  <2>3. CASE Top \in PanicFrame
    <3>1. Top.todo \in Plan(PanicOps, "wfe")
      BY <2>3 DEF PanicFrame
    <3>2. f \in PanicFrame /\ f.irq = Top.irq /\ f.todo = Tail(Top.todo)
      BY <1>2, <2>3, <3>1 DEF PanicFrame
    <3> QED BY <1>2, <2>3, <3>1, <3>2, Kinds
  <2> QED BY <1>1, <2>1, <2>2, <2>3 DEF AnyFrame
<1>4. f \in AnyFrame
  BY <1>1, <1>3 DEF AnyFrame
<1> HIDE DEF f
<1>5. frames' = <<f>> \o Below
  BY DEF Done, Below, f
<1>6. /\ frames' \in Seq(AnyFrame) /\ frames' # <<>> /\ Top' = f /\ Below' = Below
      /\ Len(frames') = Len(Below) + 1 /\ \A k \in 1..Len(Below) : frames'[k + 1] = Below[k]
  <2>1. Head(frames') = f /\ Tail(frames') = Below
    BY <1>1, <1>4, <1>5, Push
  <2> QED BY <1>1, <1>4, <1>5, <2>1, Push DEF Top, Below
<1>7. /\ InMain' <=> InMain
      /\ InIrq' <=> InIrq
      /\ InPanic' <=> InPanic
  <2>1. /\ InMain => InMain'
        /\ InIrq => InIrq'
        /\ InPanic => InPanic'
    BY <1>3, <1>6 DEF InMain, InIrq, InPanic
  <2>2. /\ InMain' => ~InIrq' /\ ~InPanic'
        /\ InIrq' => ~InMain' /\ ~InPanic'
        /\ InPanic' => ~InMain' /\ ~InIrq'
    BY Kinds DEF InMain, InIrq, InPanic
  <2> QED BY <2>1, <2>2 DEF Shape
<1>8. Shape'
  BY <1>6, <1>7 DEF Shape
<1>9. ASSUME NEW k \in DOMAIN frames
      PROVE  k \in DOMAIN frames' /\ frames'[k].irq = frames[k].irq
  <2>1. /\ frames \in Seq(AnyFrame) /\ frames # <<>> /\ Below = Tail(frames) /\ Top = frames[1]
    BY DEF Shape, Below, Top
  <2>2. Len(frames') = Len(frames) /\ frames'[1] = f
    BY <1>6, <2>1 DEF Top
  <2>3. CASE k = 1
    BY <1>3, <1>6, <2>1, <2>2, <2>3
  <2>4. CASE k # 1
    <3>1. k - 1 \in 1..Len(Below) /\ Below[k - 1] = frames[k]
      BY <2>1, <2>4
    <3>2. frames'[(k - 1) + 1] = Below[k - 1]
      BY <1>6, <3>1
    <3> QED BY <1>6, <2>1, <2>2, <3>1, <3>2
  <2> QED BY <2>3, <2>4
<1> QED BY <1>3, <1>6, <1>7, <1>8, <1>9

-----------------------------------------------------------------------------
(* Steps that take the running frame on.                                     *)

(* The last but one of a list stays it, while it is not the first.           *)
LEMMA LastButOne ==
  ASSUME NEW S, NEW t \in Seq(S), NEW e, Len(t) >= 2, t[Len(t) - 1] = e, Head(t) # e
  PROVE  Len(Tail(t)) >= 2 /\ Tail(t)[Len(Tail(t)) - 1] = e
<1> DEFINE n == Len(t)
           u == Tail(t)
<1>1. n \in Nat /\ n >= 2 /\ t # <<>> /\ Head(t) = t[1]
  OBVIOUS
<1>2. n # 2
  <2>1. SUFFICES ASSUME n = 2 PROVE FALSE
    OBVIOUS
  <2>2. n - 1 = 1
    BY <2>1
  <2>3. t[n - 1] = t[1]
    BY <2>2
  <2> HIDE DEF n
  <2>4. t[n - 1] = e
    BY DEF n
  <2> QED BY <1>1, <2>3, <2>4
<1>3. Len(u) = n - 1 /\ \A k \in 1..n - 1 : u[k] = t[k + 1]
  BY <1>1
<1> HIDE DEF u
<1>4. n - 2 \in 1..n - 1 /\ (n - 2) + 1 = n - 1
  BY <1>1, <1>2
<1>5. Len(u) >= 2 /\ Len(u) - 1 = n - 2
  BY <1>1, <1>2, <1>3
<1>6. u[n - 2] = e
  BY <1>3, <1>4
<1> QED BY <1>5, <1>6 DEF u

(* An interrupt that is active stays its handler's to end.                   *)
LEMMA DoneActive ==
  ASSUME Shape, ActiveInv, Done,
         Op \notin {"wfe", "eret", "gic_acknowledge", "gic_end_of_interrupt"},
         gic'.active = gic.active, InMain \/ (core.masked => core'.masked)
  PROVE  ActiveInv'
<1>1. InMain' => gic'.active = {}
  BY DoneStep DEF ActiveInv
<1>2. ASSUME InIrq'
      PROVE  core'.masked /\ (gic'.active = {} \/ (gic'.active = {Top'.irq} /\ WillEnd(Top)'))
  <2>1. InIrq /\ ~InMain
    BY <1>2, DoneStep, OnePlace
  <2>2. WillEnd(Top) => WillEnd(Top)'
    <3>1. SUFFICES ASSUME WillEnd(Top) PROVE WillEnd(Top)'
      OBVIOUS
    <3>2. PICK S : Top.todo \in Seq(S)
      BY DoneStep
    <3>3. Len(Top.todo) >= 2 /\ Top.todo[Len(Top.todo) - 1] = "gic_end_of_interrupt"
      BY <3>1 DEF WillEnd
    <3>4. Head(Top.todo) # "gic_end_of_interrupt"
      BY DEF Op
    <3>5. /\ Len(Tail(Top.todo)) >= 2
          /\ Tail(Top.todo)[Len(Tail(Top.todo)) - 1] = "gic_end_of_interrupt"
      BY <3>2, <3>3, <3>4, LastButOne
    <3>6. Top'.todo = Tail(Top.todo)
      BY DoneStep
    <3> QED BY <3>5, <3>6 DEF WillEnd
  <2> QED BY <2>1, <2>2, DoneStep DEF ActiveInv
<1>3. ASSUME InPanic'
      PROVE  core'.masked /\ \A i \in gic'.active : \E k \in DOMAIN frames' : frames'[k].irq = i
  <2>1. InPanic /\ ~InMain
    BY <1>3, DoneStep, OnePlace
  <2> QED BY <2>1, DoneStep DEF ActiveInv
<1> QED BY <1>1, <1>2, <1>3 DEF ActiveInv

(* The accesses of a silent frame stay silent.                               *)
LEMMA StaysSilent ==
  ASSUME Shape, Done, Op \notin {"wfe", "eret", "gic_acknowledge"}, Silent(Top)
  PROVE  Silent(Top)'
<1>1. PICK S : Top.todo \in Seq(S)
  BY DoneStep
<1>2. Len(Top.todo) >= 2 /\ Top'.todo = Tail(Top.todo)
  BY DoneStep
<1>3. \A k \in 1..Len(Tail(Top.todo)) :
         k + 1 \in 1..Len(Top.todo) /\ Tail(Top.todo)[k] = Top.todo[k + 1]
  BY <1>1, <1>2
<1> QED BY <1>2, <1>3 DEF Silent

(* A frame that runs silently is not about to test or write.                 *)
LEMMA SilentOp ==
  ASSUME Shape, Silent(Top), InIrq PROVE Op \notin {"test", "write"}
<1>1. Top.todo = <<"gic_acknowledge">> \/ Top.todo \in Plan(IrqOps, "eret")
  BY DEF InIrq, IrqFrame
<1>2. \E S : Top.todo \in Seq(S) /\ Top.todo # <<>>
  <2>1. CASE Top.todo = <<"gic_acknowledge">>
    <3>1. <<"gic_acknowledge">> \in Seq({"gic_acknowledge"}) /\ <<"gic_acknowledge">> # <<>>
      OBVIOUS
    <3> QED BY <2>1, <3>1
  <2>2. CASE Top.todo \in Plan(IrqOps, "eret")
    BY <2>2 DEF Plan
  <2> QED BY <1>1, <2>1, <2>2
<1>3. Op = Top.todo[1] /\ 1 \in 1..Len(Top.todo)
  BY <1>2 DEF Op
<1> QED BY <1>3 DEF Silent

(* Nothing that neither tests nor writes takes away the room of a write.     *)
LEMMA DoneLost ==
  ASSUME Shape, DevicesOK, LostInv, Done, Op \notin {"wfe", "eret", "gic_acknowledge"},
         TimerOnly' => TimerOnly, lost' = lost,
         \/ Op # "test" /\ uart'.queued = uart.queued
         \/ Op = "test" /\ uart'.queued = uart.queued /\ uart.queued < FifoSize
  PROVE  LostInv'
<1>1. Room(Top)'
  BY DoneStep DEF Room
<1>2. ASSUME TimerOnly', InIrq' PROVE Silent(Top)' /\ Room(Below[1])'
  <2>1. TimerOnly /\ InIrq
    BY <1>2, DoneStep
  <2>2. Silent(Top) /\ Room(Below[1])
    BY <2>1 DEF LostInv
  <2> QED BY <2>2, StaysSilent, DoneStep DEF Room
<1> QED BY <1>1, <1>2 DEF LostInv

(* A write finds room, unless it is kernel_main's and a handler may print.   *)
LEMMA WriteLost ==
  ASSUME ArmInv, PutcWrite
  PROVE  LostInv' /\ lost' \subseteq {"main"} /\ uart' \in [on : BOOLEAN, queued : 0..FifoSize]
<1> USE DEF ArmInv
<1>1. Op = "write" /\ Done
  BY DEF PutcWrite
<1>2. CASE uart.queued < FifoSize
  <2>1. uart' = [uart EXCEPT !.queued = @ + 1] /\ lost' = lost /\ gic' = gic
    BY <1>2 DEF PutcWrite
  <2>2. Room(Top)'
    BY <1>1, DoneStep DEF Room
  <2>3. TimerOnly => ~InIrq
    BY <1>1, SilentOp DEF LostInv
  <2>4. LostInv'
    BY <1>1, <2>1, <2>2, <2>3, DoneStep DEF LostInv, TimerOnly
  <2> QED BY <2>1, <2>4, <1>2 DEF DevicesOK
<1>3. CASE ~(uart.queued < FifoSize)
  <2>1. lost' = lost \cup {Top.who} /\ uart' = uart /\ gic' = gic
    BY <1>3 DEF PutcWrite
  <2>2. InMain /\ ~TimerOnly
    BY <1>1, <1>3 DEF LostInv, Room, Op, Shape
  <2>3. lost' \subseteq {"main"}
    BY <2>1, <2>2, Kinds DEF InMain, DevicesOK
  <2>4. InMain' /\ ~InIrq' /\ ~InPanic' /\ ~TimerOnly'
    BY <1>1, <2>1, <2>2, DoneStep, OnePlace DEF TimerOnly
  <2>5. LostInv'
    BY <2>4 DEF LostInv
  <2> QED BY <2>1, <2>3, <2>5 DEF DevicesOK
<1> QED BY <1>2, <1>3

-----------------------------------------------------------------------------
(* Steps that change the stack, and the acknowledge.                         *)

(* The frame on top of kernel_main is all there is besides it.               *)
LEMMA StackOfMain == ASSUME Shape, InMain PROVE frames = <<Top>> /\ Top \in MainFrame
<1>1. frames \in Seq(AnyFrame) /\ frames # <<>> /\ Tail(frames) = <<>>
  BY DEF Shape, InMain, Below
<1>2. Len(frames) \in Nat /\ Len(Tail(frames)) = Len(frames) - 1
  BY <1>1
<1>3. Len(<<>>) = 0
  OBVIOUS
<1>4. Len(frames) = 1
  BY <1>1, <1>2, <1>3
<1>5. frames = <<frames[1]>>
  BY <1>1, <1>4
<1> QED BY <1>1, <1>5 DEF InMain, Top

LEMMA PushFrame ==
  ASSUME Shape, NEW f \in AnyFrame, frames' = <<f>> \o frames
  PROVE  /\ frames' \in Seq(AnyFrame) /\ frames' # <<>> /\ Top' = f /\ Below' = frames
         /\ \A k \in DOMAIN frames : k + 1 \in DOMAIN frames' /\ frames'[k + 1] = frames[k]
<1>1. frames \in Seq(AnyFrame)
  BY DEF Shape
<1>2. /\ frames' \in Seq(AnyFrame) /\ frames' # <<>>
      /\ Head(frames') = f /\ Tail(frames') = frames
      /\ Len(frames') = Len(frames) + 1
      /\ \A k \in 1..Len(frames) : frames'[k + 1] = frames[k]
  BY <1>1, Push
<1>3. \A k \in DOMAIN frames : k \in 1..Len(frames) /\ k + 1 \in DOMAIN frames'
  BY <1>1, <1>2
<1> QED BY <1>2, <1>3 DEF Top, Below

LEMMA TakeIrqKeeps == ArmInv /\ TakeIrq => ArmInv'
<1> SUFFICES ASSUME ArmInv, TakeIrq PROVE ArmInv'
  OBVIOUS
<1> USE DEF ArmInv
<1>1. CASE TakenBy(IrqVector) # "irq"
  <2>1. /\ UNCHANGED <<frames, gic, line, timer, uart, lost>>
        /\ core' = [core EXCEPT !.intact = FALSE]
    BY <1>1 DEF TakeIrq
  <2>2. DevicesOK' /\ core'.masked = core.masked
    BY <2>1 DEF DevicesOK
  <2>3. Shape' /\ ActiveInv'
    BY <2>1, <2>2 DEF Shape, ActiveInv, InMain, InIrq, InPanic, Top, Below, WillEnd
  <2>4. LostInv'
    BY <2>1 DEF LostInv, InMain, InIrq, InPanic, Top, Below, Room, Silent, TimerOnly
  <2> QED BY <2>2, <2>3, <2>4
<1>2. CASE TakenBy(IrqVector) = "irq"
  <2> DEFINE f == Frame("irq", <<"gic_acknowledge">>)
  <2>1. /\ frames' = <<f>> \o frames
        /\ core' = [core EXCEPT !.masked = TRUE]
        /\ UNCHANGED <<gic, line, timer, uart, lost>>
    BY <1>2 DEF TakeIrq
  <2>2. f \in IrqFrame /\ f \in AnyFrame /\ f.todo = <<"gic_acknowledge">>
    BY DEF Frame, IrqFrame, AnyFrame
  <2> HIDE DEF f
  <2>3. InMain /\ gic.active = {}
    BY DEF TakeIrq, ActiveInv, Shape
  <2>4. /\ frames' \in Seq(AnyFrame) /\ frames' # <<>> /\ Top' = f /\ Below' = <<Top>>
        /\ Top \in MainFrame
    BY <2>1, <2>2, <2>3, PushFrame, StackOfMain
  <2>5. InIrq' /\ ~InMain' /\ ~InPanic'
    BY <2>2, <2>4, Kinds DEF InIrq, InMain, InPanic
  <2>6. Shape' /\ DevicesOK' /\ ActiveInv'
    BY <2>1, <2>3, <2>4, <2>5 DEF Shape, DevicesOK, ActiveInv
  <2>7. Head(f.todo) # "write" /\ \A k \in 1..Len(f.todo) : f.todo[k] \notin {"test", "write"}
    BY <2>2
  <2>8. Room(Top)' /\ Silent(Top)'
    BY <2>4, <2>7 DEF Room, Silent
  <2>9. TimerOnly' => lost' = {} /\ Room(Below[1])'
    <3>1. Below'[1] = Top
      BY <2>4
    <3> QED BY <2>1, <2>3, <3>1 DEF LostInv, Room, TimerOnly
  <2> QED BY <2>5, <2>6, <2>8, <2>9 DEF LostInv
<1> QED BY <1>1, <1>2

LEMMA TakeFaultKeeps == ArmInv /\ TakeFault => ArmInv'
<1> SUFFICES ASSUME ArmInv, TakeFault PROVE ArmInv'
  OBVIOUS
<1> USE DEF ArmInv
<1> DEFINE f == Frame("panic", kernel_panic_aarch64)
<1>1. /\ frames' = <<f>> \o frames
      /\ core' = [core EXCEPT !.masked = TRUE]
      /\ UNCHANGED <<gic, line, timer, uart, lost>>
  BY DEF TakeFault
<1>2. f \in PanicFrame /\ f \in AnyFrame /\ Head(f.todo) # "write"
  BY PanicPlan DEF Frame, PanicFrame, AnyFrame
<1> HIDE DEF f
<1>3. /\ frames' \in Seq(AnyFrame) /\ frames' # <<>> /\ Top' = f
      /\ \A k \in DOMAIN frames : k + 1 \in DOMAIN frames' /\ frames'[k + 1] = frames[k]
  BY <1>1, <1>2, PushFrame
<1>4. InPanic' /\ ~InMain' /\ ~InIrq'
  BY <1>2, <1>3, Kinds DEF InIrq, InMain, InPanic
<1>5. ASSUME NEW i \in gic.active PROVE \E k \in DOMAIN frames' : frames'[k].irq = i
  <2>1. ~InPanic
    BY Kinds DEF TakeFault, InPanic
  <2>2. gic.active = {Top.irq}
    BY <1>5, <2>1 DEF ActiveInv, Shape
  <2>3. 1 \in DOMAIN frames /\ frames[1] = Top
    BY DEF Shape, Top
  <2> QED BY <1>3, <1>5, <2>2, <2>3
<1>6. Shape' /\ DevicesOK' /\ ActiveInv'
  BY <1>1, <1>3, <1>4, <1>5 DEF Shape, DevicesOK, ActiveInv
<1>7. Room(Top)'
  BY <1>2, <1>3 DEF Room
<1>8. LostInv'
  BY <1>1, <1>4, <1>7 DEF LostInv, TimerOnly
<1> QED BY <1>6, <1>8

LEMMA AcknowledgeKeeps == ArmInv /\ gic_acknowledge => ArmInv'
<1> SUFFICES ASSUME ArmInv, gic_acknowledge PROVE ArmInv'
  OBVIOUS
<1> USE DEF ArmInv
<1> DEFINE i == Highest
           f == [Top EXCEPT !.irq = i, !.todo = Served(i)]
<1>1. /\ Op = "gic_acknowledge" /\ frames' = <<f>> \o Below
      /\ gic' = [gic EXCEPT !.active = @ \cup ({i} \ {SPURIOUS})]
      /\ UNCHANGED <<core, line, timer, uart, lost>>
  BY DEF gic_acknowledge, Below
<1>2. i \in gic.enabled \cup {SPURIOUS}
  BY DEF Highest, Signals, Pending
<1> HIDE DEF i
<1>3. i \in Irq \cup {SPURIOUS}
  BY <1>2 DEF DevicesOK
<1>4. InIrq
  BY <1>1, NextOp DEF Shape, MainOps, PanicOps
<1>5. Top.todo = <<"gic_acknowledge">>
  <2>1. ASSUME Top.todo \in Plan(IrqOps, "eret") PROVE FALSE
    <3>1. Head(Top.todo) \in IrqOps \cup {"eret"}
      BY <2>1, PlanHead
    <3> QED BY <1>1, <3>1 DEF Op, IrqOps
  <2> QED BY <1>4, <2>1 DEF InIrq, IrqFrame
<1>6. gic.active = {}
  <2>1. ~WillEnd(Top)
    BY <1>5 DEF WillEnd
  <2> QED BY <1>4, <2>1 DEF ActiveInv
<1>7. f \in IrqFrame /\ f \in AnyFrame /\ f.irq = i /\ f.todo = Served(i)
  BY <1>3, <1>4, ServedPlan DEF InIrq, IrqFrame, AnyFrame
<1>8. Below \in Seq(AnyFrame)
  BY DEF Shape, Below
<1> HIDE DEF f
<1>9. frames' \in Seq(AnyFrame) /\ frames' # <<>> /\ Top' = f /\ Below' = Below
  <2>1. /\ <<f>> \o Below \in Seq(AnyFrame) /\ <<f>> \o Below # <<>>
        /\ Head(<<f>> \o Below) = f /\ Tail(<<f>> \o Below) = Below
    BY <1>7, <1>8, Push
  <2> QED BY <1>1, <2>1 DEF Top, Below
<1>10. InIrq' /\ ~InMain' /\ ~InPanic'
  BY <1>4, <1>7, <1>9, Kinds DEF InIrq, InMain, InPanic
<1>11. gic'.active = {i} \ {SPURIOUS} /\ gic'.enabled = gic.enabled /\ DevicesOK'
  BY <1>1, <1>3, <1>6 DEF DevicesOK
<1>12. i # SPURIOUS => WillEnd(Top)'
  BY <1>3, <1>7, <1>9, ServedPlan DEF WillEnd
<1>13. ActiveInv'
  <2>1. core'.masked
    BY <1>1, <1>4 DEF ActiveInv
  <2>2. gic'.active = {} \/ (gic'.active = {Top'.irq} /\ WillEnd(Top)')
    BY <1>7, <1>9, <1>11, <1>12
  <2> QED BY <1>10, <2>1, <2>2 DEF ActiveInv
<1>14. Room(Top)'
  BY <1>3, <1>7, <1>9, ServedPlan DEF Room
<1>15. ASSUME TimerOnly' PROVE lost' = {} /\ Silent(Top)' /\ Room(Below[1])'
  <2>1. TimerOnly /\ i \in {SPURIOUS, TIMER_IRQ}
    BY <1>2, <1>11, <1>15 DEF TimerOnly
  <2>2. Silent(Top)'
    BY <1>3, <1>7, <1>9, <2>1, ServedPlan DEF Silent
  <2> QED BY <1>1, <1>4, <1>9, <2>1, <2>2 DEF LostInv, Room
<1>16. LostInv'
  BY <1>10, <1>14, <1>15 DEF LostInv
<1> QED BY <1>9, <1>10, <1>11, <1>13, <1>16 DEF Shape

LEMMA EretKeeps == ArmInv /\ eret => ArmInv'
<1> SUFFICES ASSUME ArmInv, eret PROVE ArmInv'
  OBVIOUS
<1> USE DEF ArmInv
<1>1. /\ Op = "eret" /\ frames' = Below
      /\ core' = [core EXCEPT !.masked = FALSE]
      /\ UNCHANGED <<gic, line, timer, uart, lost>>
  BY DEF eret, Below
<1>2. InIrq
  BY <1>1, NextOp DEF Shape, MainOps, PanicOps
<1>3. PICK m \in MainFrame : Below = <<m>>
  BY <1>2 DEF InIrq
<1>4. gic.active = {}
  <2>1. Top.todo # <<"gic_acknowledge">>
    BY <1>1 DEF Op
  <2>2. Top.todo \in Plan(IrqOps, "eret")
    BY <1>2, <2>1 DEF InIrq, IrqFrame
  <2>3. Len(Top.todo) = 1
    BY <1>1, <2>2, PlanHead DEF Op
  <2> QED BY <1>2, <2>3 DEF ActiveInv, WillEnd
<1>5. frames' = <<m>> /\ m \in AnyFrame
  BY <1>1, <1>3 DEF AnyFrame
<1>6. frames' \in Seq(AnyFrame) /\ frames' # <<>> /\ Top' = m /\ Below' = <<>>
  BY <1>5 DEF Top, Below
<1>7. InMain' /\ ~InIrq' /\ ~InPanic'
  BY <1>6, Kinds DEF InIrq, InMain, InPanic
<1>8. Shape' /\ DevicesOK' /\ ActiveInv'
  BY <1>1, <1>4, <1>6, <1>7 DEF Shape, DevicesOK, ActiveInv
<1>9. TimerOnly' => lost' = {} /\ Room(Top)'
  BY <1>1, <1>2, <1>3, <1>6 DEF LostInv, Room, TimerOnly
<1>10. LostInv'
  BY <1>7, <1>9 DEF LostInv
<1> QED BY <1>8, <1>10

-----------------------------------------------------------------------------
(* Every step keeps the invariant.                                           *)

(* Steps of the running frame that touch neither the active interrupts nor   *)
(* the queue; kernel_main's touch the masks and the enabled ids.             *)
LEMMA PlainKeeps ==
  ASSUME ArmInv, Done, Op \notin {"wfe", "eret", "gic_acknowledge", "gic_end_of_interrupt"},
         DevicesOK', gic'.active = gic.active, TimerOnly' => TimerOnly,
         InMain \/ (core.masked => core'.masked),
         lost' = lost, uart'.queued = uart.queued,
         Op = "test" => uart.queued < FifoSize
  PROVE  ArmInv'
BY DoneStep, DoneActive, DoneLost DEF ArmInv

LEMMA MainKeeps ==
  ArmInv /\ (exceptions_init \/ uart_init \/ gic_init \/ gic_enable_irq \/ timer_init)
     => ArmInv'
<1> SUFFICES ASSUME ArmInv,
                    exceptions_init \/ uart_init \/ gic_init \/ gic_enable_irq \/ timer_init
             PROVE  ArmInv'
  OBVIOUS
<1>1. DevicesOK
  BY DEF ArmInv
<1>2. TIMER_IRQ \in Irq
  BY DEF Irq
<1>3. CASE exceptions_init
  BY <1>1, <1>3, PlainKeeps DEF exceptions_init, DevicesOK, TimerOnly
<1>4. CASE uart_init
  BY <1>1, <1>4, PlainKeeps DEF uart_init, DevicesOK, TimerOnly
<1>5. CASE gic_init
  BY <1>1, <1>5, PlainKeeps DEF gic_init, DevicesOK, TimerOnly
<1>6. CASE gic_enable_irq
  <2>1. gic' = [gic EXCEPT !.enabled = @ \cup {TIMER_IRQ}]
    BY <1>6 DEF gic_enable_irq
  <2>2. /\ gic'.active = gic.active /\ (TimerOnly' => TimerOnly)
        /\ gic' \in [on : BOOLEAN, enabled : SUBSET Irq, active : SUBSET Irq]
    BY <1>1, <1>2, <2>1 DEF DevicesOK, TimerOnly
  <2> QED BY <1>1, <1>6, <2>2, PlainKeeps DEF gic_enable_irq, DevicesOK
<1>7. CASE timer_init
  BY <1>1, <1>7, PlainKeeps DEF timer_init, DevicesOK, TimerOnly
<1> QED BY <1>3, <1>4, <1>5, <1>6, <1>7

LEMMA DaifKeeps == ArmInv /\ daif => ArmInv'
<1> SUFFICES ASSUME ArmInv, daif PROVE ArmInv'
  OBVIOUS
<1>1. Op \in {"daifclr", "daifset"} /\ Done /\ core' = [core EXCEPT !.masked = Op = "daifset"]
  BY DEF daif
<1>2. DevicesOK'
  BY <1>1 DEF ArmInv, DevicesOK, daif
<1>3. InMain \/ core'.masked
  <2>1. CASE Op = "daifset"
    BY <1>1, <2>1 DEF ArmInv, DevicesOK
  <2>2. CASE Op = "daifclr"
    BY <2>2, NextOp DEF ArmInv, Shape, IrqOps, PanicOps
  <2> QED BY <1>1, <2>1, <2>2
<1> QED BY <1>1, <1>2, <1>3, PlainKeeps DEF daif, TimerOnly

LEMMA PutcKeeps == ArmInv /\ (PutcTest \/ PutcWrite) => ArmInv'
<1>1. ASSUME ArmInv, PutcTest PROVE ArmInv'
  <2>1. /\ Op = "test" /\ uart.queued < FifoSize /\ Done
        /\ UNCHANGED <<core, gic, line, timer, uart, lost>>
    BY <1>1 DEF PutcTest, Device
  <2>2. DevicesOK' /\ (TimerOnly' => TimerOnly)
    BY <1>1, <2>1 DEF ArmInv, DevicesOK, TimerOnly
  <2> QED BY <1>1, <2>1, <2>2, PlainKeeps
<1>2. ASSUME ArmInv, PutcWrite PROVE ArmInv'
  <2>1. Op = "write" /\ Done /\ UNCHANGED <<core, gic, line, timer>>
    BY <1>2 DEF PutcWrite
  <2>2. Shape' /\ ActiveInv'
    BY <1>2, <2>1, DoneStep, DoneActive DEF ArmInv
  <2>3. LostInv' /\ DevicesOK'
    BY <1>2, <2>1, WriteLost DEF ArmInv, DevicesOK
  <2> QED BY <2>2, <2>3 DEF ArmInv
<1> QED BY <1>1, <1>2

LEMMA TimerHandlerKeeps == ArmInv /\ timer_handler => ArmInv'
<1> SUFFICES ASSUME ArmInv, timer_handler PROVE ArmInv'
  OBVIOUS
<1>1. (timer.ticks + 1) % 2 \in 0..1
  BY DEF ArmInv, DevicesOK
<1> QED BY <1>1, PlainKeeps DEF timer_handler, ArmInv, DevicesOK, TimerOnly

(* The handler ends what it acknowledged: nothing is active after it.        *)
LEMMA EndKeeps == ArmInv /\ gic_end_of_interrupt => ArmInv'
<1> SUFFICES ASSUME ArmInv, gic_end_of_interrupt PROVE ArmInv'
  OBVIOUS
<1>1. /\ Op = "gic_end_of_interrupt" /\ Done
      /\ gic' = [gic EXCEPT !.active = @ \ {Top.irq}]
      /\ UNCHANGED <<core, line, timer, uart, lost>>
  BY DEF gic_end_of_interrupt
<1>2. InIrq
  BY <1>1, NextOp DEF ArmInv, Shape, MainOps, PanicOps
<1>3. core.masked /\ gic.active \subseteq {Top.irq}
  BY <1>2 DEF ArmInv, ActiveInv
<1>4. gic'.active = {} /\ gic'.enabled = gic.enabled /\ DevicesOK'
  BY <1>1, <1>3 DEF ArmInv, DevicesOK
<1>5. Shape' /\ InIrq' /\ ~InMain' /\ ~InPanic'
  BY <1>1, <1>2, DoneStep, OnePlace DEF ArmInv
<1>6. ActiveInv'
  BY <1>1, <1>3, <1>4, <1>5 DEF ActiveInv
<1>7. LostInv'
  BY <1>1, <1>4, DoneLost DEF ArmInv, TimerOnly
<1> QED BY <1>4, <1>5, <1>6, <1>7 DEF ArmInv

(* The devices on their own only make room.                                  *)
LEMMA DevicesKeep == ArmInv /\ (TimerExpires \/ OtherInput \/ UartSends) => ArmInv'
<1> SUFFICES ASSUME ArmInv, TimerExpires \/ OtherInput \/ UartSends PROVE ArmInv'
  OBVIOUS
<1>1. UNCHANGED <<frames, core, gic, timer, lost>>
  BY DEF TimerExpires, OtherInput, UartSends
<1>2. uart' \in [on : BOOLEAN, queued : 0..FifoSize] /\ uart'.queued <= uart.queued
  BY DEF ArmInv, DevicesOK, TimerExpires, OtherInput, UartSends
<1>3. /\ Top' = Top /\ Below' = Below /\ (InMain' <=> InMain) /\ (InIrq' <=> InIrq)
      /\ (InPanic' <=> InPanic)
  BY <1>1 DEF Top, Below, InMain, InIrq, InPanic
<1>4. Shape' /\ DevicesOK' /\ ActiveInv'
  BY <1>1, <1>2, <1>3 DEF ArmInv, Shape, DevicesOK, ActiveInv, WillEnd
<1>5. \A f : Room(f) /\ Head(f.todo) = "write" => uart'.queued < FifoSize
  BY <1>2 DEF ArmInv, DevicesOK, Room
<1>6. LostInv'
  BY <1>1, <1>3, <1>5 DEF ArmInv, LostInv, Room, Silent, TimerOnly
<1> QED BY <1>4, <1>6 DEF ArmInv

LEMMA ArmInvInit == Init => ArmInv
<1> SUFFICES ASSUME Init PROVE ArmInv
  OBVIOUS
<1> DEFINE m == Frame("main", kernel_main)
<1>1. m \in MainFrame /\ m \in AnyFrame /\ m.todo = kernel_main
  BY MainPlan DEF Frame, MainFrame, AnyFrame
<1>2. Head(kernel_main) # "write"
  BY MainPlan
<1>3. frames = <<m>>
  BY DEF Init
<1> HIDE DEF m
<1>4. frames \in Seq(AnyFrame) /\ frames # <<>> /\ Top = m /\ Below = <<>>
  BY <1>1, <1>3 DEF Top, Below
<1>5. InMain /\ ~InIrq /\ ~InPanic
  BY <1>1, <1>4, Kinds DEF InMain, InIrq, InPanic
<1>6. DevicesOK
  <2>1. PICK left \in SUBSET Leftover : gic = [on |-> FALSE, enabled |-> left, active |-> {}]
    BY DEF Init
  <2> QED BY <2>1 DEF Init, DevicesOK, Irq
<1>7. gic.active = {} /\ lost = {}
  BY DEF Init
<1> QED BY <1>1, <1>2, <1>4, <1>5, <1>6, <1>7
        DEF ArmInv, Shape, ActiveInv, LostInv, Room

LEMMA ArmInvStep == ArmInv /\ [Next]_armVars => ArmInv'
<1> SUFFICES ASSUME ArmInv, [Next]_armVars PROVE ArmInv'
  OBVIOUS
<1>1. CASE UNCHANGED armVars
  <2>1. UNCHANGED <<frames, core, gic, line, timer, uart, lost>>
    BY <1>1 DEF armVars
  <2> QED BY <2>1 DEF ArmInv, Shape, DevicesOK, ActiveInv, LostInv, InMain, InIrq,
                      InPanic, Top, Below, WillEnd, Room, Silent, TimerOnly
<1>2. CASE Next
  BY <1>2, MainKeeps, DaifKeeps, PutcKeeps, AcknowledgeKeeps, TimerHandlerKeeps,
     EndKeeps, EretKeeps, TakeIrqKeeps, TakeFaultKeeps, DevicesKeep DEF Next, Cpu
<1> QED BY <1>1, <1>2

(* The stack, the active interrupts and the room in the queue, together: no  *)
(* part of it is inductive without the others.                               *)
THEOREM ArmInvariant == Spec => []ArmInv
BY ArmInvInit, ArmInvStep, PTL DEF Spec

LEMMA InvEnds == ArmInv => AckedIsEnded
<1> SUFFICES ASSUME ArmInv PROVE AckedIsEnded
  OBVIOUS
<1>1. ~core.masked => gic.active = {}
  BY DEF ArmInv, Shape, ActiveInv
<1>2. 1 \in DOMAIN frames /\ frames[1] = Top
  BY DEF ArmInv, Shape, Top
<1>3. \A i \in gic.active : \E k \in DOMAIN frames : frames[k].irq = i
  BY <1>2 DEF ArmInv, Shape, ActiveInv
<1> QED BY <1>1, <1>3 DEF AckedIsEnded

LEMMA InvReports == ArmInv => ReportsAreWhole
  BY DEF ArmInv, DevicesOK, LostInv, TimerOnly, ReportsAreWhole

(* gic_acknowledge and gic_end_of_interrupt, whatever else is enabled and    *)
(* whenever inputs come and go: with interrupts open no interrupt is active, *)
(* so the GIC is never blocked by one nobody will end; and each active one   *)
(* is that of a frame on the stack.                                          *)
THEOREM EndCorrect == Spec => []AckedIsEnded
BY InvEnds, ArmInvariant, PTL

(* uart_putc's test and write are two steps without a lock, in a queue of    *)
(* any size: still no handler and no panic ever loses a character, and       *)
(* kernel_main does only if the firmware left an interrupt enabled.          *)
THEOREM ReportCorrect == Spec => []ReportsAreWhole
BY InvReports, ArmInvariant, PTL

-----------------------------------------------------------------------------
(* In the composition each part makes its own steps or none.                 *)
LEMMA ArmParts == ArmSpec => Spec64 /\ Init /\ [][Next]_armVars
<1>1. ArmInit => init_scheduler /\ Init
  BY DEF ArmInit
<1>2. [ArmNext]_arm64Vars => [Next64]_vars64 /\ [Next]_armVars
  BY DEF ArmNext, RunTimeStep, SchedulerStep, arm64Vars
<1> QED BY <1>1, <1>2, PTL DEF ArmSpec, Spec64

(* The aarch64 kernel: its scheduler file implements the x86 one, it ends    *)
(* every interrupt it acknowledged, and its reports are whole.               *)
THEOREM ArmCorrect ==
  ArmSpec => PortSpec /\ []AckedIsEnded /\ []ReportsAreWhole
BY ArmParts, PortCorrect, ArmInvStep, ArmInvInit, InvEnds, InvReports, PTL
=============================================================================
