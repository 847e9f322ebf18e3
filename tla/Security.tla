------------------------------ MODULE Security ------------------------------
(***************************************************************************)
(* The shared state of src/security/security.rs: fault counter, threat     *)
(* level, lockdown, canary and panic flag, each an atomic of its own.  The *)
(* entry points may be called by several tasks, and a task can be preempted*)
(* between any two accesses to the atomics, so a call is the list of the   *)
(* accesses it still has to make.                                          *)
(*                                                                         *)
(* External: the hw_ functions.  What they answer picks the accesses of    *)
(* the call, hw_emergency_halt stops the machine, and memory corruption    *)
(* spoils the canary.  HW_CHIP_STATUS and SCAN_GENERATION are written and  *)
(* never read, and are left out.                                           *)
(***************************************************************************)
EXTENDS Integers, Sequences, SequencesExt, FiniteSets

CONSTANTS
    Tasks,      \* the callers
    MaxFaults   \* MAX_FAULTS

ASSUME LimitAssumption == MaxFaults \in Nat \ {0}
ASSUME TaskAssumption == IsFiniteSet(Tasks) /\ Tasks # {}

(* enum ThreatLevel *)
Safe == 0
High == 3
Critical == 4
Omega == 5
ThreatLevel == 0..5

VARIABLES
    fault,     \* FAULT_COUNT
    threat,    \* THREAT_LEVEL
    lockdown,  \* LOCKDOWN
    canary,    \* CANARY = CANARY_MAGIC
    panic,     \* PANIC_ACTIVE
    halted,    \* hw_emergency_halt was called
    todo,      \* the accesses each task's call has yet to make
    count,     \* register_threat's local: what its fetch_add returned, plus 1
    reached    \* history: some fetch_add reached the limit

vars == <<fault, threat, lockdown, canary, panic, halted, todo, count, reached>>

Op == {"count", "check", "lock", "mend", "panic", "halt",
       "clear fault", "clear threat", "clear canary", "clear panic", "clear lock"}
Access == [op : Op] \cup [op : {"raise"}, level : ThreatLevel]

TypeOK ==
    /\ fault \in Nat
    /\ threat \in ThreatLevel
    /\ lockdown \in BOOLEAN /\ canary \in BOOLEAN /\ panic \in BOOLEAN
    /\ halted \in BOOLEAN /\ reached \in BOOLEAN
    /\ todo \in [Tasks -> Seq(Access)]
    /\ count \in [Tasks -> Nat]

Init ==
    /\ fault = 0 /\ threat = Safe
    /\ lockdown = FALSE /\ canary = TRUE /\ panic = FALSE /\ halted = FALSE
    /\ todo = [t \in Tasks |-> <<>>]
    /\ count = [t \in Tasks |-> 0]
    /\ reached = FALSE

-----------------------------------------------------------------------------
(* What the entry points do to the atomics, in order.                        *)
Do(op) == [op |-> op]
Raise(level) == [op |-> "raise", level |-> level]

register_threat(level) == <<Do("count"), Raise(level), Do("check")>>
initiate_lockdown == <<Do("lock")>> \o register_threat(Omega)

(* A bad size or null, a page-zero address or an overflow, kernel space.     *)
CheckMemory == {register_threat(level) : level \in {High, Critical, Omega}}
CheckStack == {register_threat(Omega)}

(* The canary is spoilt: restored or not; or it is well and the chip's       *)
(* snapshot does not match.                                                  *)
Monitor ==
    IF canary THEN {<<>>, register_threat(Critical)}
    ELSE {register_threat(Omega) \o <<Do("mend")>> \o register_threat(Safe),
          register_threat(Omega)}

(* A signature: the chip destroys it or not; or a rootkit pattern.           *)
ScanBuffer ==
    {register_threat(Omega), register_threat(Omega) \o initiate_lockdown,
     register_threat(Critical)}

(* A driver that was tampered with: restored, or its region locked.          *)
VerifyDriver ==
    {register_threat(Critical) \o register_threat(Safe), register_threat(Critical)}

FullScan == {register_threat(High)}
PanicKeepalive == {<<Do("panic")>>}
RustPanic == {<<Do("panic"), Do("halt")>>}

(* Mutant: the lockdown is lifted before the threat level is.                *)
ResetLockFirst ==
    {<<Do("clear lock"), Do("clear fault"), Do("clear threat"),
       Do("clear canary"), Do("clear panic")>>}

(* security_reset: five stores.                                              *)
Reset ==
    {<<Do("clear fault"), Do("clear threat"), Do("clear canary"),
       Do("clear panic"), Do("clear lock")>>}

(* A task that is in no call makes one; calls that only find everything in   *)
(* order touch no atomic and are left out.                                   *)
Call(t) ==
    /\ ~halted
    /\ todo[t] = <<>>
    /\ \E call \in (CheckMemory \cup CheckStack \cup Monitor \cup ScanBuffer \cup
                    VerifyDriver \cup FullScan \cup PanicKeepalive \cup
                    RustPanic \cup Reset) \ {<<>>} :
          todo' = [todo EXCEPT ![t] = call]
    /\ UNCHANGED <<fault, threat, lockdown, canary, panic, halted, count, reached>>

(* The canary's memory is overwritten by something else.                     *)
Corrupt ==
    /\ ~halted
    /\ canary
    /\ canary' = FALSE
    /\ UNCHANGED <<fault, threat, lockdown, panic, halted, todo, count, reached>>

-----------------------------------------------------------------------------
Next1(t) ==
    /\ ~halted
    /\ todo[t] # <<>>
    /\ todo' = [todo EXCEPT ![t] = Tail(@)]
Doing(t, op) == Next1(t) /\ Head(todo[t]).op = op

(* FAULT_COUNT.fetch_add(1) + 1                                              *)
AddFault(t) ==
    /\ Doing(t, "count")
    /\ fault' = fault + 1
    /\ count' = [count EXCEPT ![t] = fault + 1]
    /\ reached' = (reached \/ fault + 1 >= MaxFaults)
    /\ UNCHANGED <<threat, lockdown, canary, panic, halted>>

(* THREAT_LEVEL.fetch_max(level)                                             *)
RaiseThreat(t) ==
    /\ Doing(t, "raise")
    /\ LET level == Head(todo[t]).level
       IN  threat' = IF level > threat THEN level ELSE threat
    /\ UNCHANGED <<fault, lockdown, canary, panic, halted, count, reached>>

(* Mutant: the counter is loaded again for the comparison.                   *)
CheckReloaded(t) ==
    /\ Doing(t, "check")
    /\ halted' = (fault >= MaxFaults)
    /\ UNCHANGED <<fault, threat, lockdown, canary, panic, count, reached>>

(* Mutant: the limit itself is still allowed.                                *)
CheckPast(t) ==
    /\ Doing(t, "check")
    /\ halted' = (count[t] > MaxFaults)
    /\ UNCHANGED <<fault, threat, lockdown, canary, panic, count, reached>>

(* The local count is compared with the limit, after all else.               *)
CheckLimit(t) ==
    /\ Doing(t, "check")
    /\ halted' = (count[t] >= MaxFaults)
    /\ UNCHANGED <<fault, threat, lockdown, canary, panic, count, reached>>

EnterLockdown(t) ==
    /\ Doing(t, "lock")
    /\ lockdown' = TRUE
    /\ UNCHANGED <<fault, threat, canary, panic, halted, count, reached>>

MendCanary(t) ==
    /\ Doing(t, "mend") \/ Doing(t, "clear canary")
    /\ canary' = TRUE
    /\ UNCHANGED <<fault, threat, lockdown, panic, halted, count, reached>>

SetPanic(t) ==
    /\ \/ Doing(t, "panic") /\ panic' = TRUE
       \/ Doing(t, "clear panic") /\ panic' = FALSE
    /\ UNCHANGED <<fault, threat, lockdown, canary, halted, count, reached>>

Halt(t) ==
    /\ Doing(t, "halt")
    /\ halted' = TRUE
    /\ UNCHANGED <<fault, threat, lockdown, canary, panic, count, reached>>

ClearFault(t) ==
    /\ Doing(t, "clear fault")
    /\ fault' = 0
    /\ UNCHANGED <<threat, lockdown, canary, panic, halted, count, reached>>

ClearThreat(t) ==
    /\ Doing(t, "clear threat")
    /\ threat' = Safe
    /\ UNCHANGED <<fault, lockdown, canary, panic, halted, count, reached>>

ClearLockdown(t) ==
    /\ Doing(t, "clear lock")
    /\ lockdown' = FALSE
    /\ UNCHANGED <<fault, threat, canary, panic, halted, count, reached>>

Step(t) ==
    \/ AddFault(t) \/ RaiseThreat(t) \/ CheckLimit(t)
    \/ EnterLockdown(t) \/ MendCanary(t) \/ SetPanic(t) \/ Halt(t)
    \/ ClearFault(t) \/ ClearThreat(t) \/ ClearLockdown(t)

Next == Corrupt \/ \E t \in Tasks : Call(t) \/ Step(t)

Spec == Init /\ [][Next]_vars

-----------------------------------------------------------------------------
Idle == \A t \in Tasks : todo[t] = <<>>

(* However calls and resets interleave, a lockdown that is in force when the *)
(* engine comes to rest has the threat level that belongs to it: the stores  *)
(* of security_reset cannot leave a lockdown at a lower level.               *)
LockdownIsOmega == (Idle /\ lockdown) => threat = Omega

(* The call whose fault reached the limit halts the machine: it is on its    *)
(* way there until it does, and no reset in between calls it off.            *)
LimitHalts ==
    reached => \/ halted
               \/ \E t \in Tasks : /\ count[t] >= MaxFaults
                                   /\ Contains(todo[t], Do("check"))

(* Faults stop counting at the limit: only calls that were already in        *)
(* register_threat can go past it, one fault each.                           *)
CountStops ==
    fault >= MaxFaults + 1 =>
        \E S \in SUBSET Tasks :
           /\ Cardinality(S) = fault - MaxFaults + 1
           /\ \A t \in S : count[t] >= MaxFaults
=============================================================================
