----------------------------- MODULE Scheduler -----------------------------
(***************************************************************************)
(* The task table and the tick scheduler of the kernel, as written in      *)
(* src/kernel/scheduler.c (its aarch64 twin is src/kernel/scheduler64.c).  *)
(*                                                                         *)
(* The array tasks[MAX_TASKS] of task_t is modelled field by field: one    *)
(* function per field, from task ids to values.  Left out: id and name     *)
(* (written once, never read), stack_base (never used), stack_ptr (the     *)
(* register image, moved by context_switch) and tick_count (only the       *)
(* getter reads it).                                                       *)
(*                                                                         *)
(* Each API function is one action.  A call that the code refuses with an  *)
(* early return changes nothing, so it is a stuttering step and has no     *)
(* disjunct here.  Calls are atomic: the model has no timer interrupt inside  *)
(* a call (the source neither prevents one nor takes a lock against it).   *)
(***************************************************************************)
EXTENDS Integers, FiniteSets

CONSTANTS
    MaxTasks,    \* MAX_TASKS, 512
    BaseSlice,   \* the 10 of "time_slice = 10 - priority"
    NoPriority,  \* 0xFF, the initial value of "best" in the scan
    U32,         \* 2^32, the modulus of uint32_t
    Priority,    \* the uint8_t priorities callers pass
    Nap          \* the tick counts callers pass to task_sleep

ASSUME MaxTasksAssumption   == MaxTasks \in Nat /\ 0 < MaxTasks /\ MaxTasks < U32
ASSUME BaseSliceAssumption  == BaseSlice \in Nat /\ 0 < BaseSlice /\ BaseSlice < U32
ASSUME U32Assumption        == U32 \in Nat
ASSUME NoPriorityAssumption == NoPriority \in Nat /\ BaseSlice <= NoPriority
ASSUME PriorityAssumption   == Priority \subseteq 0..NoPriority
ASSUME NapAssumption        == Nap \subseteq 0..(U32 - 1)

Task   == 0..(MaxTasks - 1)
Word   == 0..(U32 - 1)
Kernel == 0

RUNNING   == "RUNNING"
READY     == "READY"
BLOCKED   == "BLOCKED"
DEAD      == "DEAD"
SLEEPING  == "SLEEPING"
TaskState == {RUNNING, READY, BLOCKED, DEAD, SLEEPING}

VARIABLES
    state,        \* tasks[i].state
    priority,     \* tasks[i].priority
    time_slice,   \* tasks[i].time_slice
    ticks_used,   \* tasks[i].ticks_used
    sleep_ticks,  \* tasks[i].sleep_ticks
    task_count,
    current_task

vars == <<state, priority, time_slice, ticks_used, sleep_ticks,
          task_count, current_task>>

-----------------------------------------------------------------------------
(* init_scheduler: every slot dead but the kernel's own.                    *)
Init ==
    /\ state        = [t \in Task |-> IF t = Kernel THEN RUNNING ELSE DEAD]
    /\ priority     = [t \in Task |-> 0]
    /\ time_slice   = [t \in Task |-> IF t = Kernel THEN BaseSlice ELSE 0]
    /\ ticks_used   = [t \in Task |-> 0]
    /\ sleep_ticks  = [t \in Task |-> 0]
    /\ task_count   = 1
    /\ current_task = Kernel

(* "10 - priority" is computed as an int and stored in a uint32_t.          *)
Slice(p) == (BaseSlice - p) % U32

(* task_create: the first dead slot, while the counter says there is one.   *)
FirstDead(t) == state[t] = DEAD /\ \A u \in 0..(t - 1) : state[u] # DEAD

task_create(p) ==
    /\ task_count < MaxTasks
    /\ \E t \in Task :
          /\ FirstDead(t)
          /\ state'       = [state EXCEPT ![t] = READY]
          /\ priority'    = [priority EXCEPT ![t] = p]
          /\ time_slice'  = [time_slice EXCEPT ![t] = Slice(p)]
          /\ ticks_used'  = [ticks_used EXCEPT ![t] = 0]
          /\ sleep_ticks' = [sleep_ticks EXCEPT ![t] = 0]
    /\ task_count' = (task_count + 1) % U32
    /\ UNCHANGED current_task

(* Mutant of task_kill: the counter is not decremented.                     *)
KillUncounted(t) ==
    /\ t # Kernel
    /\ state' = [state EXCEPT ![t] = DEAD]
    /\ UNCHANGED <<priority, time_slice, ticks_used, sleep_ticks, task_count,
                   current_task>>

(* task_kill: the kernel is refused; whether the slot is alive is not asked. *)
task_kill(t) ==
    /\ t # Kernel
    /\ state'      = [state EXCEPT ![t] = DEAD]
    /\ task_count' = (task_count - 1) % U32
    /\ UNCHANGED <<priority, time_slice, ticks_used, sleep_ticks, current_task>>

task_sleep(t, n) ==
    /\ state[t] # DEAD
    /\ state'       = [state EXCEPT ![t] = SLEEPING]
    /\ sleep_ticks' = [sleep_ticks EXCEPT ![t] = n]
    /\ UNCHANGED <<priority, time_slice, ticks_used, task_count, current_task>>

(* task_set_priority clamps to 9, the largest value with a positive slice.   *)
Clamp(p) == IF p > BaseSlice - 1 THEN BaseSlice - 1 ELSE p

task_set_priority(t, p) ==
    /\ priority'   = [priority EXCEPT ![t] = Clamp(p)]
    /\ time_slice' = [time_slice EXCEPT ![t] = Slice(Clamp(p))]
    /\ UNCHANGED <<state, ticks_used, sleep_ticks, task_count, current_task>>

(* task_block: any slot, dead ones included.                                *)
task_block(t) ==
    /\ state' = [state EXCEPT ![t] = BLOCKED]
    /\ UNCHANGED <<priority, time_slice, ticks_used, sleep_ticks, task_count,
                   current_task>>

(* Mutant of task_unblock: the slot need not be blocked.                    *)
UnblockAnything(t) ==
    /\ state' = [state EXCEPT ![t] = READY]
    /\ UNCHANGED <<priority, time_slice, ticks_used, sleep_ticks, task_count,
                   current_task>>

task_unblock(t) ==
    /\ state[t] = BLOCKED
    /\ state' = [state EXCEPT ![t] = READY]
    /\ UNCHANGED <<priority, time_slice, ticks_used, sleep_ticks, task_count,
                   current_task>>

-----------------------------------------------------------------------------
(* schedule_next, run by the timer interrupt.  First every sleeper ages by   *)
(* one tick, and those that reach zero become ready.                         *)
AgedTicks(t) ==
    IF state[t] = SLEEPING /\ sleep_ticks[t] > 0 THEN sleep_ticks[t] - 1
                                                 ELSE sleep_ticks[t]

(* Mutants of AgedState: awake one tick early; awake only on the step from   *)
(* one to zero, so that a sleep of zero ticks never ends.                    *)
AgedStateEarly(t) ==
    IF state[t] = SLEEPING /\ AgedTicks(t) <= 1 THEN READY ELSE state[t]

AgedStateOnEdge(t) ==
    IF state[t] = SLEEPING /\ sleep_ticks[t] = 1 THEN READY ELSE state[t]

AgedState(t) ==
    IF state[t] = SLEEPING /\ AgedTicks(t) = 0 THEN READY ELSE state[t]

(* Mutant of ScanPosition: the scan always starts at slot 0.                 *)
ScanFromZero(t) == t

(* The scan visits current_task + 1, current_task + 2, ... and the current   *)
(* task last; a later task replaces an earlier one only if strictly better.  *)
ScanPosition(t) == (t - current_task - 1) % MaxTasks

Candidate == {t \in Task : AgedState(t) = READY /\ priority[t] < NoPriority}

Best(t) ==
    /\ t \in Candidate
    /\ \A u \in Candidate :
          \/ priority[t] < priority[u]
          \/ priority[t] = priority[u] /\ ScanPosition(t) <= ScanPosition(u)

TicksNow == (ticks_used[current_task] + 1) % U32

(* The slice is not used up: the current task goes on.                       *)
ContinueSlice ==
    /\ TicksNow < time_slice[current_task]
    /\ state'      = [t \in Task |-> AgedState(t)]
    /\ ticks_used' = [ticks_used EXCEPT ![current_task] = TicksNow]
    /\ UNCHANGED current_task

(* The slice is used up and the scan finds nobody, or the current task.      *)
RestartSlice ==
    /\ TicksNow >= time_slice[current_task]
    /\ Candidate = {} \/ Best(current_task)
    /\ state'      = [t \in Task |-> AgedState(t)]
    /\ ticks_used' = [ticks_used EXCEPT ![current_task] = 0]
    /\ UNCHANGED current_task

(* The slice is used up and another task is best: the current one is made    *)
(* ready, whatever state it was in, and the CPU changes hands.               *)
SwitchTo(next) ==
    /\ TicksNow >= time_slice[current_task]
    /\ next # current_task
    /\ Best(next)
    /\ state' = [t \in Task |-> CASE t = next         -> RUNNING
                                  [] t = current_task -> READY
                                  [] OTHER            -> AgedState(t)]
    /\ ticks_used'   = [ticks_used EXCEPT ![current_task] = 0]
    /\ current_task' = next

schedule_next ==
    /\ sleep_ticks' = [t \in Task |-> AgedTicks(t)]
    /\ \/ ContinueSlice
       \/ RestartSlice
       \/ \E next \in Task : SwitchTo(next)
    /\ UNCHANGED <<priority, time_slice, task_count>>

-----------------------------------------------------------------------------
(* Calls whose argument no client discipline concerns.                       *)
CommonCall ==
    \/ \E p \in Priority : task_create(p)
    \/ \E t \in Task, p \in Priority : task_set_priority(t, p)
    \/ \E t \in Task, n \in Nap : task_sleep(t, n)
    \/ \E t \in Task : task_unblock(t)

(* Any client: no call in the source restricts the arguments.                *)
Next ==
    \/ schedule_next
    \/ CommonCall
    \/ \E t \in Task : task_kill(t)
    \/ \E t \in Task : task_block(t)

Spec == Init /\ [][Next]_vars

(* A careful client kills only a live task other than the one running, and   *)
(* blocks only a live task: what the code needs and does not itself check.   *)
CarefulNext ==
    \/ schedule_next
    \/ CommonCall
    \/ \E t \in Task : state[t] # DEAD /\ t # current_task /\ task_kill(t)
    \/ \E t \in Task : state[t] # DEAD /\ task_block(t)

CarefulSpec == Init /\ [][CarefulNext]_vars

(* The PIT raises IRQ0 periodically, and pit_handler calls schedule_next.    *)
TimerRuns == WF_vars(schedule_next)

FairSpec        == Spec /\ TimerRuns
CarefulFairSpec == CarefulSpec /\ TimerRuns

-----------------------------------------------------------------------------
(* Every field keeps its C type; the kernel's bounds on ids hold.            *)
TypeOK ==
    /\ state        \in [Task -> TaskState]
    /\ priority     \in [Task -> 0..NoPriority]
    /\ time_slice   \in [Task -> Word]
    /\ ticks_used   \in [Task -> Word]
    /\ sleep_ticks  \in [Task -> Word]
    /\ task_count   \in Word
    /\ current_task \in Task

(* Whatever clients do to the table, no task but the one the CPU executes is *)
(* marked RUNNING: a kill, a block or a wake-up between two ticks never      *)
(* leaves a stale RUNNING mark behind a context switch.                      *)
RunningIsCurrent == \A t \in Task : state[t] = RUNNING => t = current_task

(* Task 0, which task_kill refuses ("Cannot kill kernel task!"), is never    *)
(* dead and so its slot is never handed out by task_create.                  *)
KernelAlive == state[Kernel] # DEAD

(* Whoever gets the CPU starts with a whole slice: only the current task has *)
(* ticks on its account, across kills, re-creations and priority changes.    *)
FreshSlice == \A t \in Task : t # current_task => ticks_used[t] = 0

(* schedule_next: a task other than the current one leaves SLEEPING to run,  *)
(* or to be ready for it, only when its last tick has been counted down.     *)
NoEarlyWake ==
    [][\A t \in Task :
          t # current_task /\ state[t] = SLEEPING /\ state'[t] \in {READY, RUNNING}
             => sleep_ticks[t] <= 1 /\ sleep_ticks'[t] = 0]_vars

(* A task other than the current one that is dead comes back only through    *)
(* task_create (which counts it) or task_block (which does not).             *)
NoResurrection ==
    [][\A t \in Task :
          t # current_task /\ state[t] = DEAD /\ state'[t] # DEAD
             => \/ state'[t] = READY /\ task_count' = (task_count + 1) % U32
                \/ state'[t] = BLOCKED]_vars

Live == {t \in Task : state[t] # DEAD}

(* With a careful client, the counter task_create relies on is the number of *)
(* live tasks.                                                               *)
CountAccurate == task_count = Cardinality(Live)

(* "Max task limit reached!" is reported only when every slot is taken.      *)
LimitMeansFull == task_count >= MaxTasks => Live = Task

(* With a careful client every live task has the slice of its priority, so   *)
(* no task holds the CPU for a slice left behind by the slot's last owner.   *)
SliceMatches == \A t \in Live : time_slice[t] = Slice(priority[t])

(* A task that was put to sleep and is not put to sleep again wakes up.      *)
PutToSleep(t) == \E n \in Nap : task_sleep(t, n)

SleepersWake ==
    \A t \in Task : \/ []<>(state[t] # SLEEPING)
                    \/ []<><<PutToSleep(t)>>_vars

(* A ready task that nobody alive outranks gets the CPU: round robin among   *)
(* equals, in spite of sleepers waking, tasks coming and going, and          *)
(* priorities changing meanwhile.                                            *)
Waits(t) ==
    /\ state[t] = READY
    /\ t # current_task
    /\ priority[t] < NoPriority
    /\ \A u \in Live : priority[t] <= priority[u]

BestReadyRuns == \A t \in Task : []<>~Waits(t)

-----------------------------------------------------------------------------
(* What a log message claims and the code does not do for the current task   *)
(* (checked by a run that expects a violation).                              *)

(* "SCHED Task Killed.": a dead slot runs again only after task_create.      *)
KilledStaysDead ==
    [][\A t \in Task : state[t] = DEAD /\ state'[t] = READY
          => task_count' = (task_count + 1) % U32]_vars
=============================================================================
