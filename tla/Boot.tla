-------------------------------- MODULE Boot --------------------------------
(***************************************************************************)
(* kmain (src/init/init.c), call by call, and what becomes of an exception *)
(* or an interrupt at each point: the gates of src/arch/x86/interrupts.c,  *)
(* the stubs of interrupts.asm, the masks of i8259.c, and the panic, which *)
(* needs a framebuffer to say anything.                                    *)
(*                                                                         *)
(* External: the CPU, which finds a vector without a gate to be a general  *)
(* protection fault; the firmware, which leaves interrupts on or off, some *)
(* IRQs masked and perhaps no framebuffer, and which serves exceptions and *)
(* interrupts until init_idt (they are not followed here).  Nor are they   *)
(* followed through a table that is not the kernel's.                      *)
(***************************************************************************)
EXTENDS Integers, Sequences

CONSTANTS
    Exception,  \* the exception vectors that occur, out of 0 .. 31
    Irq         \* the IRQ lines with a device, out of 0 .. 15

VectorAssumption == Exception \subseteq 0 .. 31 /\ Irq \subseteq 0 .. 15

VARIABLES
    next,       \* the number of the call kmain makes next
    fb_base,    \* whether the address kmain is given for it is not 0
    IF_flag, imr,
    idt,        \* the vectors with a gate
    idtr,       \* whose table the CPU uses: "firmware", "kernel" or "stray"
    ready,      \* which of "fb" and "font" are initialised
    shown,      \* the lines kprint has put on the screen
    cause,      \* the vector that stopped the kernel, or None
    regs,       \* the registers the panic reports, or None
    fate        \* "runs", "reported", "silent" or "lost"

bootVars == <<next, fb_base, IF_flag, imr, idt, idtr, ready, shown, cause, regs, fate>>

None == -1

(* The calls of kmain, and the lines they print.                             *)
Calls == << "init_gdt", "pic_init", "pit_init", "init_idt", "init_scheduler",
            "monitor_system_integrity", "pci_init", "fat32_init", "vfs_init",
            "font_init", "font_set_color", "fb_clear", "kprint ready",
            "net_init", "rtl8111_init", "kprint driver", "kprint ready again",
            "fb_init" >>
Quiet == {"init_gdt", "init_idt", "font_init", "font_set_color", "fb_clear"}

(* Mutant of Gates: the stack segment fault is forgotten.                    *)
GatesNoStack == {0, 1} \cup (3 .. 11) \cup {13, 14} \cup {32, 33}

(* The calls of init_idt to idt_set_gate, and the vectors they leave out.    *)
Gates == {0, 1} \cup (3 .. 14) \cup {32, 33}
Ungated == {2} \cup (15 .. 31) \cup (34 .. 47)

(* idt_flush loads the table that the word at [rsp + 8] points to, the top   *)
(* of its caller's frame.  The compiler of init_idt passes &idtp in rdi, and *)
(* what is on the stack there no source says.  (On i386 idt_flush is a label *)
(* with no code.)                                                            *)
FrameTop == {"idtp", "another word"}
idt_flush(word) == idtr' = IF word = "idtp" THEN "kernel" ELSE "stray"

BootInit ==
    /\ next = 1 /\ idt = {} /\ idtr = "firmware" /\ ready = {} /\ shown = {}
    /\ fb_base \in BOOLEAN /\ IF_flag \in BOOLEAN /\ imr \in SUBSET Irq
    /\ cause = None /\ regs = None /\ fate = "runs"

(* The next call.  fb_init is refused without an address; its own line is    *)
(* the first it could show.  Every other line needs both, and is dropped.    *)
kmain ==
    /\ fate = "runs" /\ next <= Len(Calls)
    /\ LET call == Calls[next]
       IN  /\ IF call = "init_idt"
              THEN idt' = Gates /\ \E word \in FrameTop : idt_flush(word)
              ELSE UNCHANGED <<idt, idtr>>
           /\ ready' = ready \cup (CASE call = "font_init" -> {"font"}
                                     [] call = "fb_init" /\ fb_base -> {"fb"}
                                     [] OTHER -> {})
           /\ shown' = IF call \notin Quiet /\ ready' = {"fb", "font"}
                       THEN shown \cup {call} ELSE shown
    /\ next' = next + 1
    /\ UNCHANGED <<fb_base, IF_flag, imr, cause, regs, fate>>

-----------------------------------------------------------------------------
(* The stack an exception handler finds: what the CPU pushes, with an error  *)
(* code or without, below what the stub pushes.  The stubs with ISR_ERRCODE  *)
(* leave the error code to the CPU.                                          *)
CpuPushes(v) == IF v \in {8, 17, 21, 29, 30} \cup (10 .. 14) THEN <<"error", "rip">> ELSE <<"rip">>
ErrCodeStubs == {8} \cup (10 .. 14)
Stub(v) == IF v \in ErrCodeStubs THEN <<v>> ELSE <<v, 0>>

(* isr_common_stub and isr_handler: kernel_panic with the stack as struct    *)
(* registers.  It turns interrupts off; without fb_ready it halts there.     *)
isr_handler(v) ==
    LET stack == Stub(v) \o CpuPushes(v)
    IN  /\ regs' = [int_no |-> stack[1], err_code |-> stack[2], rip |-> stack[3]]
        /\ fate' = IF "fb" \in ready THEN "reported" ELSE "silent"
        /\ IF_flag' = FALSE

(* Vector v is raised, once init_idt has run.                                *)
Raise(v) ==
    /\ fate = "runs" /\ cause' = v
    /\ \/ idtr = "kernel" /\ isr_handler(IF v \in idt THEN v ELSE 13)
       \/ idtr = "stray" /\ fate' = "lost" /\ UNCHANGED <<regs, IF_flag>>
    /\ UNCHANGED <<next, fb_base, imr, idt, idtr, ready, shown>>

Except(v) == Raise(v)

(* The interrupt of an IRQ that is not masked.  Those of the timer and the   *)
(* keyboard are served by irq_handler (X86Irq, Keyboard); no other has a     *)
(* gate.                                                                     *)
TakeIrq(i) ==
    /\ IF_flag /\ i \notin imr
    /\ idtr = "kernel" => 32 + i \notin idt
    /\ Raise(32 + i)

(* pic_set_mask, pic_clear_mask and pic_disable.  pic_init itself writes     *)
(* back the masks it found.                                                  *)
Mask ==
    /\ fate = "runs" /\ next > Len(Calls)
    /\ \/ \E i \in Irq : imr' = imr \cup {i}
       \/ \E i \in Irq : imr' = imr \ {i}
       \/ imr' = Irq
    /\ UNCHANGED <<next, fb_base, IF_flag, idt, idtr, ready, shown, cause, regs, fate>>

BootNext ==
    \/ kmain
    \/ \E v \in Exception : Except(v)
    \/ \E i \in Irq : TakeIrq(i)
    \/ Mask

BootSpec == BootInit /\ [][BootNext]_bootVars

-----------------------------------------------------------------------------
(* The registers of the panic are those of the cause, except that the        *)
(* vectors init_idt leaves out are reported as a general protection fault.   *)
Named == /\ regs.int_no = IF cause \in Ungated THEN 13 ELSE cause
         /\ regs.rip = "rip"

(* kmain, isr_handler and kernel_panic.  Given the kernel's table, whatever  *)
(* stops the kernel is named on the screen only if all of kmain is done, for *)
(* fb_init is its last call: a fault before, or on a machine without a       *)
(* framebuffer, halts silently, and of the lines kmain prints only that of   *)
(* fb_init is ever seen.  Every unmasked IRQ but the timer's and the         *)
(* keyboard's is such a fault.                                               *)
FaultIsNamed ==
    /\ fate \in {"reported", "silent"} => Named
    /\ fate = "lost" => idtr = "stray"
    /\ fate = "reported" => next > Len(Calls) /\ fb_base
    /\ fate = "silent" => next <= Len(Calls) \/ ~fb_base
    /\ shown \subseteq {"fb_init"}
    /\ cause \in 32 .. 47 /\ fate # "lost" => cause - 32 \in Irq \ (imr \cup {0, 1})

(* init_idt and idt_flush: from init_idt on the CPU uses the kernel's table, *)
(* as interrupts.asm says: "all ValiantCore x86 64 incompatibilities         *)
(* resolved", "The system is now working".                                   *)
TableIsLoaded == idtr # "stray"
=============================================================================
