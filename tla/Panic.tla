------------------------------- MODULE Panic -------------------------------
(***************************************************************************)
(* kernel_panic (src/arch/x86/vcorepanic.c) and the keyboard it waits for: *)
(* the loop that offers "[D] Show Full Diagnostic Report", the interrupt   *)
(* flag it clears first, and the interrupt-driven buffer of Keyboard.      *)
(*                                                                         *)
(* External: the keyboard controller, which holds one scancode until the   *)
(* handler reads its port, and the CPU, which takes IRQ1 only with the     *)
(* interrupt flag set and leaves hlt only for an interrupt it takes.       *)
(***************************************************************************)
EXTENDS Keyboard

CONSTANTS
    ReportKey  \* the key 'd'

ASSUME ReportKeyAssumption == ReportKey \in Letter

VARIABLES
    IF_flag,   \* EFLAGS.IF
    port,      \* the scancode waiting at port 0x60, or NoCode
    panic,     \* where the CPU is in kernel_panic
    fb_ready,  \* fb_is_ready()
    screen     \* what the panic shows: "none", "main" or "detail"

panicVars == <<IF_flag, port, panic, fb_ready, screen>>
allVars   == <<vars, panicVars>>

NoCode  == [key |-> "none"]
Nowhere == "kernel"   \* the CPU is not in kernel_panic

PanicInit ==
    /\ Init
    /\ IF_flag \in BOOLEAN /\ fb_ready \in BOOLEAN
    /\ port = NoCode /\ panic = Nowhere /\ screen = "none"

(* Kernel code polls the keyboard, while there is no panic.                  *)
KernelReads ==
    /\ panic = Nowhere
    /\ keyboard_getchar
    /\ UNCHANGED panicVars

(* The user presses or releases a key: its code waits at the controller.     *)
UserKey(k, pressed) ==
    /\ port = NoCode
    /\ port' = [key |-> k, pressed |-> pressed]
    /\ UNCHANGED <<vars, IF_flag, panic, fb_ready, screen>>

(* IRQ1.  A halted CPU that takes it goes on after the hlt, at the loop head. *)
TakeIrq1 ==
    /\ IF_flag /\ port # NoCode
    /\ keyboard_handler(port.key, port.pressed)
    /\ port' = NoCode
    /\ panic' = IF panic = "hlt" THEN "poll" ELSE panic
    /\ UNCHANGED <<IF_flag, fb_ready, screen>>

(* The exception may cut a keyboard_getchar of the kernel short anywhere; it *)
(* is never resumed, and the panic's own calls start afresh.                 *)
NewCall ==
    /\ reader' = "idle" /\ c' = NoChar
    /\ UNCHANGED <<modifierVars, kbd_buffer, kbd_head, kbd_tail, got>>

(* Mutant of EnterPanic: interrupts are left as they are.                    *)
EnterPanicOpen ==
    /\ panic = Nowhere
    /\ \/ fb_ready /\ panic' = "poll" /\ screen' = "main"
       \/ ~fb_ready /\ panic' = "dead" /\ UNCHANGED screen
    /\ NewCall
    /\ UNCHANGED <<IF_flag, port, fb_ready>>

(* isr_handler -> kernel_panic: cli, then the main screen, if there is one.  *)
EnterPanic ==
    /\ panic = Nowhere
    /\ IF_flag' = FALSE
    /\ \/ fb_ready /\ panic' = "poll" /\ screen' = "main"
       \/ ~fb_ready /\ panic' = "dead" /\ UNCHANGED screen
    /\ NewCall
    /\ UNCHANGED <<port, fb_ready>>

(* One turn of the loop: keyboard_has_input, keyboard_getchar, the report if *)
(* the key was d or D, hlt.                                                  *)
Poll ==
    /\ panic = "poll"
    /\ panic' = IF kbd_head # kbd_tail THEN "getchar" ELSE "hlt"
    /\ UNCHANGED <<vars, IF_flag, port, fb_ready, screen>>

GetKey ==
    /\ panic = "getchar"
    /\ keyboard_getchar
    /\ panic' = IF reader = "advance" THEN "test" ELSE "getchar"
    /\ UNCHANGED <<IF_flag, port, fb_ready, screen>>

TestKey ==
    /\ panic = "test"
    /\ screen' = IF got.key = ReportKey THEN "detail" ELSE screen
    /\ panic' = "hlt"
    /\ UNCHANGED <<vars, IF_flag, port, fb_ready>>

kernel_panic == EnterPanic \/ Poll \/ GetKey \/ TestKey

PanicNext ==
    \/ kernel_panic
    \/ KernelReads
    \/ TakeIrq1
    \/ \E k \in Key, pressed \in BOOLEAN : UserKey(k, pressed)

PanicSpec == PanicInit /\ [][PanicNext]_allVars

(* The CPU runs: kernel code that polls for keys, or the panic's loop.       *)
PanicFairSpec ==
    PanicSpec /\ WF_allVars(Poll \/ GetKey \/ TestKey) /\ WF_allVars(KernelReads)

-----------------------------------------------------------------------------
(* With polling kernel code every character in the buffer is eventually      *)
(* read, unless a panic stops the kernel: the reader is never starved by the *)
(* interrupts that fill the buffer.                                          *)
EveryKeyRead ==
    \A i \in Index : []<>(kbd_tail # i \/ kbd_head = kbd_tail \/ panic # Nowhere)

(* The report can only come from a key that was in the buffer when the panic *)
(* began: with interrupts off the buffer only shrinks, and the loop takes    *)
(* one character before a hlt that is never left.                            *)
OldKeyOnly ==
    [][/\ screen = "main" /\ screen' = "main" => Len(Queue') <= Len(Queue)
       /\ panic = "hlt" => panic' = "hlt"]_allVars
=============================================================================
