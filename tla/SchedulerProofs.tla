-------------------------- MODULE SchedulerProofs --------------------------
(* Proofs, for every table size and every client, of the safety properties   *)
(* of Scheduler.                                                             *)
EXTENDS Scheduler, FiniteSetTheorems, TLAPS

USE MaxTasksAssumption, BaseSliceAssumption, U32Assumption,
    NoPriorityAssumption, PriorityAssumption, NapAssumption

(* uint32_t arithmetic stays in uint32_t.                                    *)
LEMMA ModWord == ASSUME NEW x \in Int PROVE x % U32 \in Word
  BY DEF Word

(* The kernel's id is an id.                                                 *)
LEMMA KernelIsTask == Kernel \in Task
  BY DEF Kernel, Task

(* Ageing keeps ticks in their type and yields a task state.                 *)
LEMMA AgedTypes ==
  ASSUME TypeOK, NEW t \in Task
  PROVE  AgedTicks(t) \in Word /\ AgedState(t) \in TaskState
<1>1. AgedTicks(t) \in Word
  BY DEF TypeOK, AgedTicks, Word
<1>2. AgedState(t) \in TaskState
  BY DEF TypeOK, AgedState, TaskState, READY
<1> QED BY <1>1, <1>2

(* A task the ageing marks READY was READY or SLEEPING; ageing makes no task *)
(* RUNNING and kills none.                                                   *)
LEMMA AgedStates ==
  ASSUME TypeOK, NEW t \in Task
  PROVE  /\ AgedState(t) = RUNNING => state[t] = RUNNING
         /\ state[t] # DEAD => AgedState(t) # DEAD
  BY DEF TypeOK, AgedState, TaskState, RUNNING, READY, DEAD, SLEEPING, BLOCKED

(* The table init_scheduler leaves behind is well typed.                     *)
LEMMA TypeCorrectInit == Init => TypeOK
  BY KernelIsTask DEF Init, TypeOK, Task, Word, TaskState, RUNNING, DEAD, Kernel

(* No call and no tick takes the table out of its types: the counter and the *)
(* slices wrap, ids and states stay what they are.                           *)
LEMMA TypeCorrectStep == TypeOK /\ [Next]_vars => TypeOK'
<1> SUFFICES ASSUME TypeOK, [Next]_vars PROVE TypeOK'
  OBVIOUS
<1>1. ASSUME NEW p \in Priority, task_create(p) PROVE TypeOK'
  <2>1. PICK t \in Task :
          /\ state'       = [state EXCEPT ![t] = READY]
          /\ priority'    = [priority EXCEPT ![t] = p]
          /\ time_slice'  = [time_slice EXCEPT ![t] = Slice(p)]
          /\ ticks_used'  = [ticks_used EXCEPT ![t] = 0]
          /\ sleep_ticks' = [sleep_ticks EXCEPT ![t] = 0]
    BY <1>1 DEF task_create
  <2>2. Slice(p) \in Word
    BY ModWord DEF Slice
  <2>3. task_count' \in Word
    <3>1. task_count + 1 \in Int
      BY DEF TypeOK, Word
    <3> QED BY <1>1, <3>1, ModWord DEF task_create
  <2> QED
    BY <1>1, <2>1, <2>2, <2>3 DEF task_create, TypeOK, TaskState, READY, Word
<1>2. ASSUME NEW t \in Task, NEW p \in Priority, task_set_priority(t, p)
      PROVE  TypeOK'
  <2>1. Clamp(p) \in 0..NoPriority
    BY DEF Clamp
  <2>2. Slice(Clamp(p)) \in Word
    BY <2>1, ModWord DEF Slice
  <2> QED BY <1>2, <2>1, <2>2 DEF task_set_priority, TypeOK
<1>3. ASSUME NEW t \in Task, NEW n \in Nap, task_sleep(t, n) PROVE TypeOK'
  BY <1>3 DEF task_sleep, TypeOK, TaskState, SLEEPING, Word
<1>4. ASSUME NEW t \in Task, task_unblock(t) PROVE TypeOK'
  BY <1>4 DEF task_unblock, TypeOK, TaskState, READY
<1>5. ASSUME NEW t \in Task, task_kill(t) PROVE TypeOK'
  <2>1. task_count' \in Word
    <3>1. task_count - 1 \in Int
      BY DEF TypeOK, Word
    <3> QED BY <1>5, <3>1, ModWord DEF task_kill
  <2> QED BY <1>5, <2>1 DEF task_kill, TypeOK, TaskState, DEAD
<1>6. ASSUME NEW t \in Task, task_block(t) PROVE TypeOK'
  BY <1>6 DEF task_block, TypeOK, TaskState, BLOCKED
<1>7. ASSUME schedule_next PROVE TypeOK'
  <2>1. sleep_ticks' \in [Task -> Word]
    BY <1>7, AgedTypes DEF schedule_next
  <2>2. TicksNow \in Word /\ 0 \in Word
    BY ModWord DEF TicksNow, TypeOK, Word
  <2>3. CASE ContinueSlice
    BY <1>7, <2>1, <2>2, <2>3, AgedTypes
       DEF schedule_next, ContinueSlice, TypeOK
  <2>4. CASE RestartSlice
    BY <1>7, <2>1, <2>2, <2>4, AgedTypes
       DEF schedule_next, RestartSlice, TypeOK
  <2>5. ASSUME NEW next \in Task, SwitchTo(next) PROVE TypeOK'
    <3>1. state' \in [Task -> TaskState]
      <4>1. ASSUME NEW t \in Task
            PROVE  (CASE t = next         -> RUNNING
                      [] t = current_task -> READY
                      [] OTHER            -> AgedState(t)) \in TaskState
        <5>1. AgedState(t) \in TaskState
          BY AgedTypes
        <5>2. RUNNING \in TaskState /\ READY \in TaskState
          BY DEF TaskState
        <5> QED BY <5>1, <5>2
      <4> QED BY <2>5, <4>1 DEF SwitchTo
    <3> QED BY <1>7, <2>1, <2>2, <2>5, <3>1 DEF schedule_next, SwitchTo, TypeOK
  <2> QED BY <1>7, <2>3, <2>4, <2>5 DEF schedule_next
<1>8. CASE UNCHANGED vars
  BY <1>8 DEF vars, TypeOK
<1> QED
  BY <1>1, <1>2, <1>3, <1>4, <1>5, <1>6, <1>7, <1>8 DEF Next, CommonCall

(* Type correctness for any client: in particular the counter and the slice  *)
(* stay in uint32_t however often slots are killed or priorities exceed 10.  *)
THEOREM TypeCorrect == Spec => []TypeOK
BY TypeCorrectInit, TypeCorrectStep, PTL DEF Spec

-----------------------------------------------------------------------------
(* The three table invariants hold together: each is inductive given types.  *)
TableInv == TypeOK /\ RunningIsCurrent /\ KernelAlive /\ FreshSlice

(* A task action, seen from the table: one slot's state changes, and no slot *)
(* becomes RUNNING; ticks do not change but for a re-created slot's, to 0.   *)
LEMMA CallKeepsTable ==
  ASSUME TableInv, TypeOK',
         CommonCall \/ (\E t \in Task : task_kill(t)) \/ (\E t \in Task : task_block(t))
  PROVE  TableInv'
<1> USE DEF TableInv
<1>1. ASSUME NEW p \in Priority, task_create(p) PROVE TableInv'
  <2>1. PICK t \in Task :
          /\ state[t] = DEAD
          /\ state'      = [state EXCEPT ![t] = READY]
          /\ ticks_used' = [ticks_used EXCEPT ![t] = 0]
    BY <1>1 DEF task_create, FirstDead
  <2>2. RunningIsCurrent'
    BY <1>1, <2>1 DEF RunningIsCurrent, TypeOK, task_create, READY, RUNNING
  <2>3. KernelAlive'
    BY <2>1, KernelIsTask DEF KernelAlive, TypeOK, READY, DEAD
  <2>4. FreshSlice'
    BY <1>1, <2>1 DEF FreshSlice, TypeOK, task_create
  <2> QED BY <2>2, <2>3, <2>4
<1>2. ASSUME NEW t \in Task, NEW p \in Priority, task_set_priority(t, p)
      PROVE  TableInv'
  BY <1>2 DEF task_set_priority, RunningIsCurrent, KernelAlive, FreshSlice
<1>3. ASSUME NEW t \in Task, NEW n \in Nap, task_sleep(t, n) PROVE TableInv'
  BY <1>3, KernelIsTask
     DEF task_sleep, RunningIsCurrent, KernelAlive, FreshSlice, TypeOK,
         SLEEPING, RUNNING, DEAD
<1>4. ASSUME NEW t \in Task, task_unblock(t) PROVE TableInv'
  BY <1>4, KernelIsTask
     DEF task_unblock, RunningIsCurrent, KernelAlive, FreshSlice, TypeOK,
         READY, RUNNING, DEAD
<1>5. ASSUME NEW t \in Task, task_kill(t) PROVE TableInv'
  BY <1>5, KernelIsTask
     DEF task_kill, RunningIsCurrent, KernelAlive, FreshSlice, TypeOK,
         RUNNING, DEAD
<1>6. ASSUME NEW t \in Task, task_block(t) PROVE TableInv'
  BY <1>6, KernelIsTask
     DEF task_block, RunningIsCurrent, KernelAlive, FreshSlice, TypeOK,
         BLOCKED, RUNNING, DEAD
<1> QED BY <1>1, <1>2, <1>3, <1>4, <1>5, <1>6 DEF CommonCall

(* A tick hands the RUNNING mark over together with the CPU, and takes back  *)
(* the ticks of the task that loses it.                                      *)
LEMMA TickKeepsTable ==
  ASSUME TableInv, TypeOK', schedule_next
  PROVE  TableInv'
<1> USE DEF TableInv
<1>1. CASE ContinueSlice \/ RestartSlice
  <2>1. /\ state' = [t \in Task |-> AgedState(t)]
        /\ current_task' = current_task
    BY <1>1 DEF ContinueSlice, RestartSlice
  <2>2. RunningIsCurrent'
    BY <2>1, AgedStates DEF RunningIsCurrent
  <2>3. KernelAlive'
    BY <2>1, AgedStates, KernelIsTask DEF KernelAlive
  <2>4. FreshSlice'
    BY <1>1 DEF ContinueSlice, RestartSlice, FreshSlice, TypeOK
  <2> QED BY <2>2, <2>3, <2>4
<1>2. ASSUME NEW next \in Task, SwitchTo(next) PROVE TableInv'
  <2>1. ASSUME NEW t \in Task
        PROVE  state'[t] = CASE t = next         -> RUNNING
                             [] t = current_task -> READY
                             [] OTHER            -> AgedState(t)
    BY <1>2 DEF SwitchTo
  <2>2. RunningIsCurrent'
    BY <1>2, <2>1, AgedStates DEF SwitchTo, RunningIsCurrent, READY, RUNNING
  <2>3. KernelAlive'
    BY <2>1, AgedStates, KernelIsTask DEF KernelAlive, READY, RUNNING, DEAD
  <2>4. FreshSlice'
    BY <1>2 DEF SwitchTo, FreshSlice, TypeOK
  <2> QED BY <2>2, <2>3, <2>4
<1> QED BY <1>1, <1>2 DEF schedule_next

(* The running mark, the kernel's slot and the account of ticks, which need  *)
(* each other, hold whatever any client does.                                *)
THEOREM TableInvariant == Spec => []TableInv
<1>1. Init => TableInv
  BY KernelIsTask, TypeCorrectInit
     DEF Init, TableInv, RunningIsCurrent, KernelAlive, FreshSlice,
         RUNNING, DEAD, Kernel
<1>2. TableInv /\ TypeOK' /\ [Next]_vars => TableInv'
  <2>1. ASSUME TableInv, UNCHANGED vars PROVE TableInv'
    BY <2>1 DEF vars, TableInv, TypeOK, RunningIsCurrent, KernelAlive, FreshSlice
  <2> QED BY <2>1, CallKeepsTable, TickKeepsTable DEF Next
<1> QED BY <1>1, <1>2, TypeCorrect, PTL DEF Spec

(* No task but the one the CPU executes is marked RUNNING.                   *)
THEOREM RunningCorrect == Spec => []RunningIsCurrent
BY TableInvariant, PTL DEF TableInv

(* The kernel task is never dead.                                            *)
THEOREM KernelCorrect == Spec => []KernelAlive
BY TableInvariant, PTL DEF TableInv

(* A task that is not running has no ticks on its account.                   *)
THEOREM SliceCorrect == Spec => []FreshSlice
BY TableInvariant, PTL DEF TableInv

-----------------------------------------------------------------------------
(* With a careful client the current task is alive, and the counter counts   *)
(* the live tasks.  The first conjunct is what makes the second inductive:   *)
(* schedule_next makes the outgoing task READY whatever state it was in, so  *)
(* a dead current task would come back without being counted.                *)
CarefulInv == TypeOK /\ current_task \in Live /\ CountAccurate /\ SliceMatches

(* The table is finite and has MaxTasks slots.                               *)
LEMMA TaskFinite == IsFiniteSet(Task) /\ Cardinality(Task) = MaxTasks
  BY FS_Interval DEF Task

LEMMA LiveFinite == /\ IsFiniteSet(Live)
                    /\ Cardinality(Live) \in Nat
                    /\ Cardinality(Live) <= MaxTasks
                    /\ Cardinality(Live) = MaxTasks => Live = Task
<1>1. Live \in SUBSET Task
  BY DEF Live
<1>2. /\ IsFiniteSet(Live)
      /\ Cardinality(Live) <= Cardinality(Task)
      /\ Cardinality(Task) = Cardinality(Live) => Task = Live
  BY <1>1, TaskFinite, FS_Subset
<1>3. Cardinality(Live) \in Nat
  BY <1>2, FS_CardinalityType
<1> QED BY <1>2, <1>3, TaskFinite

(* Steps that bring no slot to life and kill none keep the count.            *)
LEMMA LiveSame ==
  ASSUME CarefulInv, TypeOK', task_count' = task_count,
         Live' = Live, current_task' \in Live,
         \A t \in Live : time_slice'[t] = Slice(priority'[t])
  PROVE  CarefulInv'
  BY DEF CarefulInv, CountAccurate, SliceMatches

(* Counting up and down does not wrap while the count is accurate.           *)
LEMMA CountUp ==
  ASSUME NEW n \in Nat, n < MaxTasks PROVE (n + 1) % U32 = n + 1
  OBVIOUS

LEMMA CountDown ==
  ASSUME NEW n \in Nat, 0 < n, n <= MaxTasks PROVE (n - 1) % U32 = n - 1
  OBVIOUS

(* With a careful client CarefulInv, the counter's invariant with the live   *)
(* running task it needs, holds in every state.                              *)
THEOREM CarefulInvariant == CarefulSpec => []CarefulInv
<1>1. Init => CarefulInv
  <2> SUFFICES ASSUME Init PROVE CarefulInv
    OBVIOUS
  <2>1. Live = {Kernel}
    BY KernelIsTask DEF Init, Live, RUNNING, DEAD
  <2>2. Cardinality(Live) = 1
    BY <2>1, FS_Singleton
  <2>3. Slice(0) = BaseSlice
    BY DEF Slice
  <2> QED
    BY <2>1, <2>2, <2>3, TypeCorrectInit, KernelIsTask
       DEF Init, CarefulInv, CountAccurate, SliceMatches
<1>2. CarefulInv /\ TypeOK' /\ [CarefulNext]_vars => CarefulInv'
  <2> SUFFICES ASSUME CarefulInv, TypeOK', [CarefulNext]_vars PROVE CarefulInv'
    OBVIOUS
  <2> USE DEF CarefulInv
  <2>1. ASSUME NEW p \in Priority, task_create(p) PROVE CarefulInv'
    <3>1. PICK t \in Task :
            /\ state[t] = DEAD
            /\ state'       = [state EXCEPT ![t] = READY]
            /\ priority'    = [priority EXCEPT ![t] = p]
            /\ time_slice'  = [time_slice EXCEPT ![t] = Slice(p)]
      BY <2>1 DEF task_create, FirstDead
    <3>2. t \notin Live /\ Live' = Live \cup {t}
      BY <3>1 DEF Live, TypeOK, READY, DEAD
    <3>3. Cardinality(Live') = Cardinality(Live) + 1
      BY <3>2, LiveFinite, FS_AddElement
    <3>4. task_count' = task_count + 1
      BY <2>1, LiveFinite, CountUp DEF task_create, CountAccurate
    <3>5. SliceMatches'
      BY <3>1, <3>2 DEF SliceMatches, Live, TypeOK
    <3>6. current_task' \in Live'
      BY <2>1, <3>2 DEF task_create
    <3> QED BY <3>3, <3>4, <3>5, <3>6 DEF CountAccurate
  <2>2. ASSUME NEW t \in Task, NEW p \in Priority, task_set_priority(t, p)
        PROVE  CarefulInv'
    <3>1. Live' = Live
      BY <2>2 DEF task_set_priority, Live
    <3>2. \A u \in Live : time_slice'[u] = Slice(priority'[u])
      BY <2>2 DEF task_set_priority, SliceMatches, TypeOK, Live
    <3> QED BY <2>2, <3>1, <3>2, LiveSame DEF task_set_priority
  <2>3. ASSUME NEW t \in Task, NEW n \in Nap, task_sleep(t, n) PROVE CarefulInv'
    <3>1. Live' = Live
      BY <2>3 DEF task_sleep, Live, TypeOK, SLEEPING, DEAD
    <3> QED BY <2>3, <3>1, LiveSame DEF task_sleep, SliceMatches
  <2>4. ASSUME NEW t \in Task, task_unblock(t) PROVE CarefulInv'
    <3>1. Live' = Live
      BY <2>4 DEF task_unblock, Live, TypeOK, READY, BLOCKED, DEAD
    <3> QED BY <2>4, <3>1, LiveSame DEF task_unblock, SliceMatches
  <2>5. ASSUME NEW t \in Task, state[t] # DEAD, t # current_task, task_kill(t)
        PROVE  CarefulInv'
    <3>1. t \in Live /\ Live' = Live \ {t}
      BY <2>5 DEF task_kill, Live, TypeOK
    <3>2. Cardinality(Live') = Cardinality(Live) - 1
      BY <3>1, LiveFinite, FS_RemoveElement
    <3>3. Cardinality(Live) > 0
      BY <3>1, LiveFinite, FS_EmptySet
    <3>4. task_count' = task_count - 1
      BY <2>5, <3>3, LiveFinite, CountDown DEF task_kill, CountAccurate
    <3>5. SliceMatches' /\ current_task' \in Live'
      BY <2>5, <3>1 DEF task_kill, SliceMatches
    <3> QED BY <3>2, <3>4, <3>5 DEF CountAccurate
  <2>6. ASSUME NEW t \in Task, state[t] # DEAD, task_block(t) PROVE CarefulInv'
    <3>1. Live' = Live
      BY <2>6 DEF task_block, Live, TypeOK, BLOCKED, DEAD
    <3> QED BY <2>6, <3>1, LiveSame DEF task_block, SliceMatches
  <2>7. ASSUME schedule_next PROVE CarefulInv'
    <3>1. \A t \in Task : AgedState(t) = DEAD <=> state[t] = DEAD
      BY DEF AgedState, READY, DEAD, SLEEPING
    <3>2. CASE ContinueSlice \/ RestartSlice
      <4>1. Live' = Live /\ current_task' = current_task
        BY <3>1, <3>2 DEF ContinueSlice, RestartSlice, Live
      <4> QED BY <2>7, <4>1, LiveSame DEF schedule_next, SliceMatches
    <3>3. ASSUME NEW next \in Task, SwitchTo(next) PROVE CarefulInv'
      <4>1. AgedState(next) = READY
        BY <3>3 DEF SwitchTo, Best, Candidate
      <4>2. next \in Live
        BY <4>1, <3>1 DEF Live, READY, DEAD
      <4>3. ASSUME NEW t \in Task PROVE state'[t] # DEAD <=> state[t] # DEAD
        BY <3>1, <3>3, <4>2 DEF SwitchTo, Live, READY, RUNNING, DEAD
      <4>4. Live' = Live
        BY <4>3 DEF Live
      <4> QED BY <2>7, <3>3, <4>2, <4>4, LiveSame
              DEF schedule_next, SwitchTo, SliceMatches
    <3> QED BY <2>7, <3>2, <3>3 DEF schedule_next
  <2>8. CASE UNCHANGED vars
    BY <2>8 DEF vars, CountAccurate, SliceMatches, Live, TypeOK
  <2> QED
    BY <2>1, <2>2, <2>3, <2>4, <2>5, <2>6, <2>7, <2>8 DEF CarefulNext, CommonCall
<1>3. CarefulSpec => Spec
  <2>1. [CarefulNext]_vars => [Next]_vars
    BY DEF CarefulNext, Next
  <2> QED BY <2>1, PTL DEF CarefulSpec, Spec
<1> QED BY <1>1, <1>2, <1>3, TypeCorrect, PTL DEF CarefulSpec

(* With a careful client, the counter is the number of live tasks.           *)
THEOREM CountCorrect == CarefulSpec => []CountAccurate
BY CarefulInvariant, PTL DEF CarefulInv

(* With a careful client, a live task has the slice of its priority.         *)
THEOREM SlicesCorrect == CarefulSpec => []SliceMatches
BY CarefulInvariant, PTL DEF CarefulInv

(* With a careful client, task_create reports the limit only on a full table. *)
THEOREM LimitCorrect == CarefulSpec => []LimitMeansFull
<1>1. CarefulInv => LimitMeansFull
  BY LiveFinite DEF CarefulInv, CountAccurate, LimitMeansFull
<1> QED BY <1>1, CarefulInvariant, PTL

-----------------------------------------------------------------------------
(* Whatever clients do, a sleeper other than the current task is neither     *)
(* ready nor running before its last tick is counted.                        *)
THEOREM SleepCorrect == Spec => NoEarlyWake
<1> DEFINE Wakes(t) ==
              t # current_task /\ state[t] = SLEEPING /\ state'[t] \in {READY, RUNNING}
           OnTime(t) == sleep_ticks[t] <= 1 /\ sleep_ticks'[t] = 0
<1>1. TypeOK /\ [Next]_vars => [\A t \in Task : Wakes(t) => OnTime(t)]_vars
  <2> SUFFICES ASSUME TypeOK, Next, NEW t \in Task, Wakes(t) PROVE OnTime(t)
    OBVIOUS
  <2>1. ASSUME schedule_next PROVE OnTime(t)
    <3>1. AgedState(t) \in {READY, RUNNING}
      <4>1. ASSUME NEW next \in Task, SwitchTo(next) PROVE AgedState(t) \in {READY, RUNNING}
        <5>1. CASE t = next
          BY <4>1, <5>1 DEF SwitchTo, Best, Candidate
        <5>2. CASE t # next
          BY <4>1, <5>2 DEF SwitchTo
        <5> QED BY <5>1, <5>2
      <4> QED BY <2>1, <4>1 DEF schedule_next, ContinueSlice, RestartSlice
    <3>2. AgedTicks(t) = 0
      BY <3>1 DEF AgedState, READY, RUNNING, SLEEPING
    <3> QED BY <2>1, <3>2 DEF schedule_next, AgedTicks, TypeOK, Word
  <2>2. ASSUME CommonCall \/ (\E u \in Task : task_kill(u) \/ task_block(u))
        PROVE  FALSE
    BY <2>2 DEF CommonCall, task_create, FirstDead, task_set_priority, task_sleep,
                task_unblock, task_kill, task_block, TypeOK,
                READY, RUNNING, SLEEPING, BLOCKED, DEAD
  <2> QED BY <2>1, <2>2 DEF Next
<1> QED BY <1>1, TypeCorrect, PTL DEF Spec, NoEarlyWake

-----------------------------------------------------------------------------
(* Every schedule_next leaves the DEAD mark on every slot but the current    *)
(* task's, which a switch makes READY whatever it was.                       *)
LEMMA TickKeepsDead ==
  ASSUME TypeOK, schedule_next, NEW t \in Task, t # current_task, state[t] = DEAD
  PROVE  state'[t] = DEAD
<1>1. AgedState(t) = DEAD
  BY DEF AgedState, DEAD, SLEEPING
<1>2. ASSUME NEW next \in Task, SwitchTo(next) PROVE state'[t] = DEAD
  <2>1. next # t
    BY <1>1, <1>2 DEF SwitchTo, Best, Candidate, DEAD, READY
  <2> QED BY <1>1, <1>2, <2>1 DEF SwitchTo
<1> QED BY <1>1, <1>2 DEF schedule_next, ContinueSlice, RestartSlice

(* task_create, task_block and the scheduler, any client: a dead task other  *)
(* than the current one comes back only by a creation, which counts it, or   *)
(* by a block, which does not; no tick and no wake-up revives one.           *)
THEOREM DeadCorrect == Spec => NoResurrection
<1> DEFINE Revives(t) == t # current_task /\ state[t] = DEAD /\ state'[t] # DEAD
           Lawful(t)  == \/ state'[t] = READY /\ task_count' = (task_count + 1) % U32
                         \/ state'[t] = BLOCKED
<1>1. TypeOK /\ [Next]_vars => [\A t \in Task : Revives(t) => Lawful(t)]_vars
  <2> SUFFICES ASSUME TypeOK, Next, NEW t \in Task, Revives(t) PROVE Lawful(t)
    OBVIOUS
  <2>1. CASE schedule_next
    BY <2>1, TickKeepsDead
  <2>2. ASSUME NEW p \in Priority, task_create(p) PROVE Lawful(t)
    <3>1. PICK u \in Task : state' = [state EXCEPT ![u] = READY]
      BY <2>2 DEF task_create
    <3>2. state'[t] = READY
      BY <3>1 DEF TypeOK
    <3> QED BY <2>2, <3>2 DEF task_create
  <2>3. ASSUME NEW u \in Task, task_block(u) PROVE Lawful(t)
    BY <2>3 DEF task_block, TypeOK
  <2>4. ASSUME NEW u \in Task,
               \/ \E p \in Priority : task_set_priority(u, p)
               \/ \E n \in Nap : task_sleep(u, n)
               \/ task_unblock(u)
               \/ task_kill(u)
        PROVE  FALSE
    BY <2>4 DEF task_set_priority, task_sleep, task_unblock, task_kill, TypeOK,
                BLOCKED, DEAD
  <2> QED BY <2>1, <2>2, <2>3, <2>4 DEF Next, CommonCall
<1> QED BY <1>1, TypeCorrect, PTL DEF Spec, NoResurrection
=============================================================================
