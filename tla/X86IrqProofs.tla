---------------------------- MODULE X86IrqProofs ----------------------------
(* Proofs, for every table size, every client and either start-up stub, of   *)
(* what the x86 interrupt path promises: the end-of-interrupt ends the       *)
(* handler's own interrupt, and the scheduler is used as it must be.         *)
EXTENDS X86Irq, SchedulerProofs

(* Where the CPU is decides what the 8259 has in service: at most the one    *)
(* line whose handler is entered, and nothing on the way out of a handler.   *)
(* A task runs with a line in service only with interrupts off, which is     *)
(* where a start-up stub that does not end its interrupt leaves it for good. *)
IrqInv ==
    /\ pc \in {Running, Return} \cup {Handler(n) : n \in Line} \cup {Eoi(n) : n \in Line}
    /\ \A n \in Line : pc \in {Handler(n), Eoi(n)} => isr = {n} /\ IF_flag = FALSE
    /\ pc = Return => isr = {} /\ IF_flag = FALSE
    /\ pc = Running => isr = {} \/ IF_flag = FALSE

(* The places of the CPU are different.                                      *)
LEMMA Places ==
  /\ Running # Return
  /\ \A n \in Line : Handler(n) # Running /\ Handler(n) # Return
  /\ \A n \in Line : Eoi(n) # Running /\ Eoi(n) # Return
  /\ \A m, n \in Line : Handler(m) # Eoi(n)
  /\ \A m, n \in Line : Handler(m) = Handler(n) => m = n
  /\ \A m, n \in Line : Eoi(m) = Eoi(n) => m = n
BY DEF Running, Return, Handler, Eoi

(* A lone line in service is the first.                                      *)
LEMMA FirstOfOne == ASSUME NEW n \in Line PROVE First({n}) = n
  BY DEF First, Line, Timer, Kbd

LEMMA IrqInvInit == IrqInit => IrqInv
  BY Places DEF IrqInit, IrqInv

LEMMA IrqInvStep == IrqInv /\ [IrqNext]_allVars => IrqInv'
<1> SUFFICES ASSUME IrqInv, [IrqNext]_allVars PROVE IrqInv'
  OBVIOUS
<1> USE DEF IrqInv
<1>1. ASSUME NEW n \in Line, Raise(n) PROVE IrqInv'
  BY <1>1 DEF Raise
<1>2. ASSUME NEW n \in Line, Accept(n) PROVE IrqInv'
  <2>1. isr = {} /\ isr' = {n} /\ pc' = Handler(n) /\ IF_flag' = FALSE
    BY <1>2 DEF Accept
  <2> QED BY <2>1, Places
<1>3. CASE HandleTimer
  <2>1. Timer \in Line
    BY DEF Line
  <2>2. isr = {Timer} /\ IF_flag = FALSE
    BY <1>3, <2>1 DEF HandleTimer
  <2>3. CASE pc' = Eoi(Timer) /\ UNCHANGED <<isr, IF_flag>>
    BY <2>1, <2>2, <2>3, Places
  <2>4. CASE pc' = Running /\ isr' = isr \ {Timer} /\ IF_flag' = TRUE
    BY <2>1, <2>2, <2>4, Places
  <2>5. CASE pc' = Running /\ UNCHANGED <<isr, IF_flag>>
    BY <2>1, <2>2, <2>5, Places
  <2> QED BY <1>3, <2>3, <2>4, <2>5 DEF HandleTimer
<1>4. CASE HandleKeyboard
  <2>1. Kbd \in Line
    BY DEF Line
  <2> QED BY <1>4, <2>1, Places DEF HandleKeyboard
<1>5. CASE SendEoi
  <2>1. PICK n \in Line : pc = Eoi(n)
    BY <1>5 DEF SendEoi
  <2>2. isr = {n} /\ IF_flag = FALSE
    BY <2>1
  <2>3. isr' = {}
    BY <1>5, <2>2, FirstOfOne DEF SendEoi
  <2> QED BY <1>5, <2>2, <2>3, Places DEF SendEoi
<1>6. CASE Iret
  BY <1>6, Places DEF Iret
<1>7. CASE TaskCall
  BY <1>7 DEF TaskCall
<1>8. CASE UNCHANGED allVars
  BY <1>8 DEF allVars, irqVars
<1> QED BY <1>1, <1>2, <1>3, <1>4, <1>5, <1>6, <1>7, <1>8 DEF IrqNext, Interrupt

(* IrqInv holds however the lines are raised and tasks are switched inside   *)
(* irq_handler.                                                              *)
THEOREM IrqInvariant == IrqSpec => []IrqInv
BY IrqInvInit, IrqInvStep, PTL DEF IrqSpec

(* irq_handler and pic_send_eoi: however timer interrupts switch tasks in    *)
(* the middle of a handler, the non-specific end-of-interrupt ends the       *)
(* interrupt of the handler that sends it, and no line is in service when a  *)
(* task runs with interrupts on.  That holds whatever a new task starts in.  *)
THEOREM EoiCorrect == IrqSpec => []EoiIsOurs
<1>1. IrqInv => EoiIsOurs
  BY DEF IrqInv, EoiIsOurs
<1> QED BY <1>1, IrqInvariant, PTL

-----------------------------------------------------------------------------
(* A step of the interrupt path is, in the table, a call a careful client    *)
(* makes, a tick, or nothing.                                                *)
LEMMA IrqStepIsCareful == [IrqNext]_allVars => [CarefulNext]_vars
<1> SUFFICES ASSUME [IrqNext]_allVars PROVE [CarefulNext]_vars
  OBVIOUS
<1>1. ASSUME NEW n \in Line, Raise(n) \/ Accept(n) PROVE UNCHANGED vars
  BY <1>1 DEF Raise, Accept
<1>2. CASE HandleTimer
  BY <1>2 DEF HandleTimer, CarefulNext
<1>3. CASE HandleKeyboard \/ SendEoi \/ Iret
  BY <1>3 DEF HandleKeyboard, SendEoi, Iret
<1>4. CASE TaskCall
  BY <1>4 DEF TaskCall, CarefulNext, CommonCall
<1>5. CASE UNCHANGED allVars
  BY <1>5 DEF allVars
<1> QED BY <1>1, <1>2, <1>3, <1>4, <1>5 DEF IrqNext, Interrupt

(* pit_handler and the tasks between two interrupts use the task table as a  *)
(* careful client with ticks: the safety half of TableFairSpec, so that what *)
(* is proved of CarefulSpec holds of the machine.                            *)
THEOREM TableIsCareful == IrqSpec => CarefulSpec
BY IrqStepIsCareful, PTL DEF IrqSpec, IrqInit, CarefulSpec

(* The counter and the slices of the table are right on the machine, where   *)
(* the scheduler runs inside a handler and calls come between interrupts.    *)
THEOREM TableCorrect ==
  IrqSpec => [](CountAccurate /\ SliceMatches /\ LimitMeansFull)
BY TableIsCareful, CountCorrect, SlicesCorrect, LimitCorrect, PTL

LEMMA CarefulIsSpec == CarefulSpec => Spec
<1>1. [CarefulNext]_vars => [Next]_vars
  BY DEF CarefulNext, Next
<1> QED BY <1>1, PTL DEF CarefulSpec, Spec

(* On the machine too a sleeping task wakes only by counting down: the       *)
(* switch that schedule_next makes inside irq_handler ends nobody's sleep    *)
(* but that of the task it takes the CPU from.                               *)
THEOREM IrqSleepCorrect == IrqSpec => NoEarlyWake
BY TableIsCareful, CarefulIsSpec, SleepCorrect, PTL
=============================================================================
