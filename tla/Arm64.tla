------------------------------- MODULE Arm64 --------------------------------
(***************************************************************************)
(* The aarch64 kernel at run time: kernel_main, the vector table, the GIC  *)
(* and timer drivers, irq_handler_aarch64, the polled UART every part      *)
(* prints on, and kernel_panic_aarch64.                                    *)
(*                                                                         *)
(* The processor runs the first of a stack of frames: kernel_main, a       *)
(* handler that interrupted it, the panic.  A frame is the list of device  *)
(* accesses it still makes; a text is that of its characters, a test of    *)
(* the flag register and a write of the data register each.  What the      *)
(* texts say is left out, and so are the calls nobody makes (priorities,   *)
(* targets, input, fiq_handler_aarch64: gic_init enables no FIQ).          *)
(***************************************************************************)
EXTENDS Integers, Sequences

CONSTANTS
    EntryWords,  \* instructions in one expansion of SAVE_AND_CALL
    FifoSize,    \* characters the UART's transmit queue holds
    Leftover     \* ids, besides the timer's, that the firmware may leave enabled

ASSUME EntryWordsAssumption == EntryWords \in Nat \ {0}
ASSUME FifoSizeAssumption   == FifoSize \in Nat \ {0}

TIMER_IRQ == 30
SPURIOUS  == 1023
MAX_IRQS  == 1020

ASSUME LeftoverAssumption == Leftover \subseteq (TIMER_IRQ + 1)..(MAX_IRQS - 1)

Irq == Leftover \cup {TIMER_IRQ}

VARIABLES
    frames,  \* what runs, on top of what it interrupted
    core,    \* the processor: PSTATE.DAIF masked, VBAR_EL1 set, context intact
    gic,     \* distributor and CPU interface
    line,    \* the interrupt inputs of the GIC that are high
    timer,   \* CNTP enabled; timer_ticks, modulo 2 (its value decides nothing)
    uart,    \* enabled; characters in the transmit queue
    lost     \* who wrote into a full queue (history)

armVars == <<frames, core, gic, line, timer, uart, lost>>

-----------------------------------------------------------------------------
(* The vector table.  It has sixteen entries, four of them SAVE_AND_CALL,   *)
(* the others a branch; .align 7 starts each at the next multiple of 32     *)
(* words, and the processor takes exception v at word 32 * v.               *)
VectorWords == 32
Entries == <<"unhandled", "unhandled", "unhandled", "unhandled",
             "sync", "irq", "fiq", "serror">>
IrqVector    == 6
FaultVectors == {5, 8}

Words(e) == IF e = "unhandled" THEN 1 ELSE EntryWords

EntryStart[i \in 1..8] ==
    IF i = 1 THEN 0
    ELSE LET end == EntryStart[i - 1] + Words(Entries[i - 1])
         IN  VectorWords * ((end + VectorWords - 1) \div VectorWords)

(* What exception v runs: an entry from its first instruction, or the middle *)
(* of one.                                                                   *)
TakenBy(v) ==
    IF \E i \in 1..8 : EntryStart[i] = VectorWords * (v - 1)
    THEN Entries[CHOOSE i \in 1..8 : EntryStart[i] = VectorWords * (v - 1)]
    ELSE "middle"

-----------------------------------------------------------------------------
(* uart_print of a text: '\r' and '\n' make every one at least two long.     *)
uart_putc  == <<"test", "write">>
uart_print == uart_putc \o uart_putc

kernel_main ==
    <<"exceptions_init", "uart_init">> \o uart_print
    \o <<"gic_init">> \o uart_print
    \o <<"gic_enable_irq">> \o uart_print
    \o <<"timer_init">> \o uart_print
    \o <<"daifclr">> \o uart_print \o <<"wfe">>

kernel_panic_aarch64 == <<"daifset">> \o uart_print \o <<"wfe">>

(* What irq_handler_aarch64 does after the acknowledge, by what that said.   *)
Served(irq) ==
    CASE irq = SPURIOUS  -> <<"eret">>
      [] irq = TIMER_IRQ -> <<"timer_handler", "gic_end_of_interrupt", "eret">>
      [] OTHER           -> uart_print \o <<"gic_end_of_interrupt", "eret">>

Frame(who, todo) == [who |-> who, irq |-> SPURIOUS, todo |-> todo]

Init ==
    /\ frames = <<Frame("main", kernel_main)>>
    /\ core = [masked |-> TRUE, vbar |-> FALSE, intact |-> TRUE]
    /\ \E left \in SUBSET Leftover : gic = [on |-> FALSE, enabled |-> left, active |-> {}]
    /\ line = {}
    /\ timer = [on |-> FALSE, ticks |-> 0]
    /\ uart = [on |-> FALSE, queued |-> 0]
    /\ lost = {}

Top    == Head(frames)
Op     == Head(Top.todo)
Device == <<core, gic, line, timer, uart, lost>>

Done == frames' = <<[Top EXCEPT !.todo = Tail(@)]>> \o Tail(frames)

-----------------------------------------------------------------------------
(* kernel_main's calls.                                                      *)
exceptions_init ==
    /\ Op = "exceptions_init" /\ Done
    /\ core' = [core EXCEPT !.vbar = TRUE]
    /\ UNCHANGED <<gic, line, timer, uart, lost>>

uart_init ==
    /\ Op = "uart_init" /\ Done
    /\ uart' = [uart EXCEPT !.on = TRUE]
    /\ UNCHANGED <<core, gic, line, timer, lost>>

gic_init ==
    /\ Op = "gic_init" /\ Done
    /\ gic' = [gic EXCEPT !.on = TRUE]
    /\ UNCHANGED <<core, line, timer, uart, lost>>

(* Bit irq % 32 of set-enable word irq / 32: the other ids keep theirs.      *)
gic_enable_irq ==
    /\ Op = "gic_enable_irq" /\ Done
    /\ gic' = [gic EXCEPT !.enabled = @ \cup {TIMER_IRQ}]
    /\ UNCHANGED <<core, line, timer, uart, lost>>

timer_init ==
    /\ Op = "timer_init" /\ Done
    /\ timer' = [timer EXCEPT !.on = TRUE]
    /\ UNCHANGED <<core, gic, line, uart, lost>>

(* daifclr opens and daifset closes all four masks.                          *)
daif ==
    /\ Op \in {"daifclr", "daifset"} /\ Done
    /\ core' = [core EXCEPT !.masked = Op = "daifset"]
    /\ UNCHANGED <<gic, line, timer, uart, lost>>

(* Mutant of PutcTest: the flag register is not asked.                       *)
PutcBlind == Op = "test" /\ Done /\ UNCHANGED Device

(* uart_putc polls TXFF, then writes.                                        *)
PutcTest == Op = "test" /\ uart.queued < FifoSize /\ Done /\ UNCHANGED Device

PutcWrite ==
    /\ Op = "write" /\ Done
    /\ IF uart.queued < FifoSize
       THEN uart' = [uart EXCEPT !.queued = @ + 1] /\ UNCHANGED lost
       ELSE lost' = lost \cup {Top.who} /\ UNCHANGED uart
    /\ UNCHANGED <<core, gic, line, timer>>

-----------------------------------------------------------------------------
(* The GIC signals while an enabled input is high and none is active (all    *)
(* priorities are the same).                                                 *)
Pending == {i \in gic.enabled : i \in line}
Signals == gic.on /\ gic.active = {} /\ Pending # {}

(* Exception entry masks everything.  Behind the vector is irq_handler_-     *)
(* aarch64, or the middle of another entry, which pops registers that nobody *)
(* pushed and returns with the interrupt still there.                        *)
TakeIrq ==
    /\ Signals /\ ~core.masked /\ core.vbar
    /\ IF TakenBy(IrqVector) = "irq"
       THEN /\ frames' = <<Frame("irq", <<"gic_acknowledge">>)>> \o frames
            /\ core' = [core EXCEPT !.masked = TRUE]
       ELSE /\ core' = [core EXCEPT !.intact = FALSE]
            /\ UNCHANGED frames
    /\ UNCHANGED <<gic, line, timer, uart, lost>>

(* A fault or system error of whatever runs, the panic itself left out:      *)
(* sync_handler and serror_handler both panic.                               *)
TakeFault ==
    /\ core.vbar /\ Top.who # "panic"
    /\ \E v \in FaultVectors : TakenBy(v) \in {"sync", "serror"}
    /\ frames' = <<Frame("panic", kernel_panic_aarch64)>> \o frames
    /\ core' = [core EXCEPT !.masked = TRUE]
    /\ UNCHANGED <<gic, line, timer, uart, lost>>

Highest == IF Signals THEN CHOOSE i \in Pending : \A j \in Pending : i <= j
                      ELSE SPURIOUS

gic_acknowledge ==
    /\ Op = "gic_acknowledge"
    /\ frames' = <<[Top EXCEPT !.irq = Highest, !.todo = Served(Highest)]>> \o Tail(frames)
    /\ gic' = [gic EXCEPT !.active = @ \cup ({Highest} \ {SPURIOUS})]
    /\ UNCHANGED <<core, line, timer, uart, lost>>

(* Mutant of timer_handler: the compare value is not renewed.                *)
TimerNotRearmed ==
    /\ Op = "timer_handler" /\ Done
    /\ timer' = [on |-> FALSE, ticks |-> (timer.ticks + 1) % 2]
    /\ line' = line \ {TIMER_IRQ}
    /\ UNCHANGED <<core, gic, uart, lost>>

(* The new compare value takes the input down until it is reached.           *)
timer_handler ==
    /\ Op = "timer_handler" /\ Done
    /\ timer' = [timer EXCEPT !.ticks = (@ + 1) % 2]
    /\ line' = line \ {TIMER_IRQ}
    /\ UNCHANGED <<core, gic, uart, lost>>

(* Mutant of gic_end_of_interrupt: always the timer's id.                    *)
EndsTimer ==
    /\ Op = "gic_end_of_interrupt" /\ Done
    /\ gic' = [gic EXCEPT !.active = @ \ {TIMER_IRQ}]
    /\ UNCHANGED <<core, line, timer, uart, lost>>

gic_end_of_interrupt ==
    /\ Op = "gic_end_of_interrupt" /\ Done
    /\ gic' = [gic EXCEPT !.active = @ \ {Top.irq}]
    /\ UNCHANGED <<core, line, timer, uart, lost>>

(* eret brings back what ran, with its interrupts open.                      *)
eret ==
    /\ Op = "eret"
    /\ frames' = Tail(frames)
    /\ core' = [core EXCEPT !.masked = FALSE]
    /\ UNCHANGED <<gic, line, timer, uart, lost>>

Cpu == \/ exceptions_init \/ uart_init \/ gic_init \/ gic_enable_irq \/ timer_init
       \/ daif \/ PutcTest \/ PutcWrite
       \/ gic_acknowledge \/ timer_handler \/ gic_end_of_interrupt \/ eret

-----------------------------------------------------------------------------
(* The devices.                                                              *)
TimerExpires ==
    /\ timer.on /\ TIMER_IRQ \notin line
    /\ line' = line \cup {TIMER_IRQ}
    /\ UNCHANGED <<frames, core, gic, timer, uart, lost>>

(* Another device raises its input, or takes it back unasked.                *)
OtherInput ==
    /\ \E i \in Leftover : line' \in {line \cup {i}, line \ {i}}
    /\ UNCHANGED <<frames, core, gic, timer, uart, lost>>

UartSends ==
    /\ uart.on /\ uart.queued > 0
    /\ uart' = [uart EXCEPT !.queued = @ - 1]
    /\ UNCHANGED <<frames, core, gic, line, timer, lost>>

Next == Cpu \/ TakeIrq \/ TakeFault \/ TimerExpires \/ OtherInput \/ UartSends

Spec == Init /\ [][Next]_armVars

(* The processor goes on and takes what is signalled, the timer counts, the  *)
(* UART sends.                                                               *)
FairSpec ==
    Spec /\ WF_armVars(Cpu) /\ WF_armVars(TakeIrq)
         /\ WF_armVars(TimerExpires) /\ WF_armVars(UartSends)

-----------------------------------------------------------------------------
(* timer_handler and irq_handler_aarch64: from timer_init on the ticks never *)
(* stop, short of a panic, in spite of inputs nothing serves, handlers that  *)
(* wait for a slow UART, and interrupts that are gone when asked for.        *)
Ticking   == []<>(timer.ticks = 0) /\ []<>(timer.ticks = 1)
TicksGoOn == [](timer.on => Ticking \/ <>(Top.who = "panic"))

(* gic_acknowledge and gic_end_of_interrupt: what runs with interrupts open  *)
(* never finds one left active, which would block the GIC for good, and the  *)
(* handler ends the one it acknowledged.                                     *)
AckedIsEnded ==
    /\ ~core.masked => gic.active = {}
    /\ \A i \in gic.active : \E k \in DOMAIN frames : frames[k].irq = i

(* uart_putc tests and writes in two steps without a lock.  All the same     *)
(* only kernel_main can lose a character, and only if the firmware left an   *)
(* interrupt enabled whose handler prints: handlers and panic print whole.   *)
ReportsAreWhole == lost \subseteq (IF gic.enabled = {TIMER_IRQ} THEN {} ELSE {"main"})

(* exceptions.S, the table in its heading: "0x280 Current EL, SPx IRQ", "the *)
(* kernel uses this".                                                        *)
IrqReachesHandler == core.intact
=============================================================================
