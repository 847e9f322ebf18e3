------------------------------ MODULE MCArm64 -------------------------------
(***************************************************************************)
(* Model checking of the aarch64 kernel: the run time of Arm64 and the     *)
(* scheduler file of Scheduler64.  Nothing in kernel_main, a handler or    *)
(* the panic calls the scheduler, so a behaviour drives one of the two,    *)
(* chosen at the start, and leaves the other alone.                        *)
(***************************************************************************)
EXTENDS Arm64, Scheduler64

VARIABLE part

arm64Vars == <<part, armVars, vars64>>

ArmInit == /\ part \in {"run time", "scheduler"}
           /\ Init /\ init_scheduler
           /\ part = "scheduler" => gic.enabled = {}

RunTimeStep   == part = "run time"  /\ Next   /\ UNCHANGED <<part, vars64>>
SchedulerStep == part = "scheduler" /\ Next64 /\ UNCHANGED <<part, armVars>>

ArmNext == RunTimeStep \/ SchedulerStep

(* The fairness of Arm64; nothing is fair in the scheduler's clients.       *)
ArmSpec ==
    /\ ArmInit /\ [][ArmNext]_arm64Vars
    /\ part = "run time" =>
          /\ WF_armVars(Cpu) /\ WF_armVars(TakeIrq)
          /\ WF_armVars(TimerExpires) /\ WF_armVars(UartSends)
=============================================================================
