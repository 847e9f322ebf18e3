------------------------------- MODULE X86Irq -------------------------------
(***************************************************************************)
(* The x86 interrupt path around the scheduler: the 8259 PIC, the two      *)
(* interrupt gates init_idt installs for hardware (timer and keyboard),    *)
(* irq_handler with its end-of-interrupt at the end, and the context       *)
(* switch schedule_next makes in the middle of it.  Sources:               *)
(* src/arch/x86/interrupts.c, interrupts.asm, i8254.c, i8259.c.            *)
(*                                                                         *)
(* External: the PIC's priority rule, the PIT and the keyboard raising     *)
(* their lines, and context_switch, which x86 declares but does not        *)
(* define.  A task switched out in the middle of irq_handler goes on there *)
(* when it is switched in; a task that never ran starts at its entry point *)
(* (task_create puts the entry address where the saved stack goes), and    *)
(* whether a start-up stub there ends the interrupt and enables interrupts *)
(* is the constant EntryEndsIrq.                                           *)
(***************************************************************************)
EXTENDS Scheduler

CONSTANT EntryEndsIrq

ASSUME EntryEndsIrqAssumption == EntryEndsIrq \in BOOLEAN

Timer == 0
Kbd   == 1
Line  == {Timer, Kbd}

VARIABLES
    irr,     \* lines raised and not yet accepted by the CPU
    isr,     \* lines in service: accepted and not yet ended
    IF_flag, \* EFLAGS.IF of the running context
    pc,      \* where the running context is
    frame    \* frame[t]: how task t resumes, "entry" or "irq"

irqVars == <<irr, isr, IF_flag, pc, frame>>
allVars == <<vars, irqVars>>

Running    == <<"task">>                     \* code of current_task
Return     == <<"iret">>                     \* the end of irq_common_stub
Handler(n) == <<"irq_handler", n>>           \* before the handler's work
Eoi(n)     == <<"pic_send_eoi", n>>          \* after it

IrqInit ==
    /\ Init
    /\ irr = {} /\ isr = {} /\ IF_flag = TRUE /\ pc = Running
    /\ frame = [t \in Task |-> "entry"]

First(lines) == CHOOSE n \in lines : \A m \in lines : n <= m

(* The PIT and the keyboard controller raise their lines at any time.        *)
Raise(n) ==
    /\ n \notin irr
    /\ irr' = irr \cup {n}
    /\ UNCHANGED <<vars, isr, IF_flag, pc, frame>>

(* The PIC offers its first pending line unless that or an earlier one is in *)
(* service; the CPU takes it with IF set, and the gate (0x8E) clears IF.     *)
Accept(n) ==
    /\ IF_flag /\ pc \in {Running, Return}
    /\ irr # {} /\ n = First(irr)
    /\ \A m \in isr : n < m
    /\ irr' = irr \ {n} /\ isr' = isr \cup {n}
    /\ IF_flag' = FALSE
    /\ pc' = Handler(n)
    /\ UNCHANGED <<vars, frame>>

(* irq_handler on vector 32: pit_handler, so schedule_next.  Without a switch *)
(* it goes on to its end-of-interrupt.  With a switch the old task stays     *)
(* where it is in irq_handler, and the new one goes on where it was.         *)
HandleTimer ==
    /\ pc = Handler(Timer)
    /\ schedule_next
    /\ \/ /\ current_task' = current_task
          /\ pc' = Eoi(Timer)
          /\ UNCHANGED <<isr, IF_flag, frame>>
       \/ /\ current_task' # current_task
          /\ frame' = [frame EXCEPT ![current_task] = "irq"]
          /\ IF frame[current_task'] = "irq"
                THEN pc' = Eoi(Timer) /\ UNCHANGED <<isr, IF_flag>>
                ELSE /\ pc' = Running
                     /\ IF EntryEndsIrq THEN isr' = isr \ {Timer} /\ IF_flag' = TRUE
                                        ELSE UNCHANGED <<isr, IF_flag>>
    /\ UNCHANGED irr

(* irq_handler on vector 33: keyboard_handler.                               *)
HandleKeyboard ==
    /\ pc = Handler(Kbd)
    /\ pc' = Eoi(Kbd)
    /\ UNCHANGED <<vars, irr, isr, IF_flag, frame>>

(* Mutant of SendEoi: the keyboard's handler returns without one.            *)
SendEoiTimerOnly ==
    /\ pc \in {Eoi(n) : n \in Line}
    /\ isr' = IF pc = Eoi(Timer) THEN isr \ {First(isr)} ELSE isr
    /\ pc' = Return
    /\ UNCHANGED <<vars, irr, IF_flag, frame>>

(* Mutant of SendEoi: only the slave 8259 is sent one.                       *)
SendEoiToSlave ==
    /\ pc \in {Eoi(n) : n \in Line}
    /\ pc' = Return
    /\ UNCHANGED <<vars, irr, isr, IF_flag, frame>>

(* pic_send_eoi(int_no - 32): a non-specific EOI ends the first line in       *)
(* service, whichever the handler meant.                                     *)
SendEoi ==
    /\ pc \in {Eoi(n) : n \in Line}
    /\ isr' = IF isr = {} THEN {} ELSE isr \ {First(isr)}
    /\ pc' = Return
    /\ UNCHANGED <<vars, irr, IF_flag, frame>>

(* irq_common_stub's iret restores the interrupted context's flags, in which *)
(* IF was set.                                                               *)
Iret ==
    /\ pc = Return
    /\ IF_flag' = TRUE
    /\ pc' = Running
    /\ UNCHANGED <<vars, irr, isr, frame>>

(* Code of the current task calls the scheduler.  task_create writes the     *)
(* entry point over the slot's saved stack.                                  *)
TaskCall ==
    /\ pc = Running
    /\ \/ \E t \in Task : /\ FirstDead(t)
                          /\ \E p \in Priority : task_create(p)
                          /\ frame' = [frame EXCEPT ![t] = "entry"]
       \/ /\ \/ \E t \in Task, p \in Priority : task_set_priority(t, p)
             \/ \E t \in Task, n \in Nap : task_sleep(t, n)
             \/ \E t \in Task : task_unblock(t)
             \/ \E t \in Task : state[t] # DEAD /\ t # current_task /\ task_kill(t)
             \/ \E t \in Task : state[t] # DEAD /\ task_block(t)
          /\ UNCHANGED frame
    /\ UNCHANGED <<irr, isr, IF_flag, pc>>

Interrupt == HandleTimer \/ HandleKeyboard \/ SendEoi \/ Iret

IrqNext ==
    \/ \E n \in Line : Raise(n) \/ Accept(n)
    \/ Interrupt
    \/ TaskCall

IrqSpec == IrqInit /\ [][IrqNext]_allVars

(* The PIT keeps raising its line, the CPU takes what the PIC offers and     *)
(* runs a handler to its end.                                                *)
IrqFairSpec ==
    /\ IrqSpec
    /\ WF_allVars(Raise(Timer))
    /\ WF_allVars(\E n \in Line : Accept(n))
    /\ WF_allVars(Interrupt)

-----------------------------------------------------------------------------
(* The non-specific end-of-interrupt always ends the interrupt its handler   *)
(* served, although a context switch may put another task's unfinished       *)
(* irq_handler in the place of the one that was entered; so no line is still *)
(* in service when a task runs with interrupts on.                           *)
EoiIsOurs ==
    /\ \A n \in Line : pc = Eoi(n) => isr = {n}
    /\ pc = Running /\ IF_flag => isr = {}

(* Seen from the task table, the interrupt path is the careful client with   *)
(* the periodic schedule_next that Scheduler assumes: its fairness is what   *)
(* the PIT, the PIC and irq_handler together provide.                        *)
TableFairSpec == CarefulFairSpec
=============================================================================
