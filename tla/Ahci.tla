-------------------------------- MODULE Ahci --------------------------------
(***************************************************************************)
(* The polled AHCI driver of src/drivers/ahci64.c: ahci_init, and one read *)
(* or write at a time through command slot 0 of the first port and the one *)
(* command table, against a host adapter (HBA) that runs on its own.       *)
(*                                                                         *)
(* A call refused on its arguments returns -1 at once and is no step.      *)
(* External: the HBA fetches the table once it sees its bit in PORT_CI,    *)
(* clears the bit when the transfer is done, and on an error sets the task *)
(* file error bit of PORT_IS and stops until the port is restarted.        *)
(***************************************************************************)
EXTENDS Integers, Sequences, FiniteSets

CONSTANTS
    Slots,      \* 0..AHCI_MAX_PORTS-1
    Requests,   \* what callers ask for: sector, count, buffer and direction
    MaxPolls,   \* 100000: how often PORT_CI is polled
    None        \* not a request: an empty command table

ASSUME PollAssumption == MaxPolls \in Nat \ {0}
ASSUME RequestAssumption == None \notin Requests
ASSUME SlotAssumption == Slots \subseteq Nat

VARIABLES
    linked,       \* ports with a drive present and active (PORT_SSTS)
    ports,        \* ahci.ports[..].port_num, up to port_count
    initialized,  \* ahci.initialized
    table,        \* ahci_cmd_table with command header 0
    ci,           \* bit 0 of PORT_CI
    tfes,         \* bit 30 of PORT_IS; the HBA is stopped
    running,      \* the request the HBA has fetched, or None
    call,         \* the call in progress or the one that returned last
    gaveup        \* history: some call returned while its bit was still set

hba == <<ci, tfes, running>>
vars == <<linked, ports, initialized, table, ci, tfes, running, call, gaveup>>

(* pc: where ahci_send_cmd is.  polls: iterations left.  The last two fields *)
(* are history: the HBA has done the request since the call began, and it    *)
(* had failed before that.                                                   *)
NoCall == [pc |-> "returned", req |-> None, ret |-> 0, polls |-> 0,
           moved |-> FALSE, late |-> FALSE]

Call == [pc : {"fill", "issue", "ci", "is", "returned"},
         req : Requests \cup {None}, ret : {0, -1},
         polls : 0..MaxPolls, moved : BOOLEAN, late : BOOLEAN]

(* The command header, the FIS and the one PRDT entry say together which     *)
(* request they are for, or none.                                            *)
CommandTable == Requests \cup {None}

TypeOK ==
    /\ initialized \in BOOLEAN
    /\ table \in CommandTable /\ running \in CommandTable
    /\ ci \in BOOLEAN /\ tfes \in BOOLEAN /\ gaveup \in BOOLEAN
    /\ call \in Call
    /\ call.pc \in {"ci", "is"} => call.polls > 0

Init ==
    /\ linked \in SUBSET Slots
    /\ ports = <<>> /\ initialized = FALSE
    /\ table = None
    /\ ci = FALSE /\ tfes = FALSE /\ running = None
    /\ call = NoCall
    /\ gaveup = FALSE

-----------------------------------------------------------------------------
(* The linked ports in ascending order; each is stopped, given the one       *)
(* command list, and started.                                                *)
Ascending(S) ==
    [i \in 1..Cardinality(S) |->
        CHOOSE p \in S : Cardinality({q \in S : q < p}) = i - 1]

ahci_init ==
    /\ ~initialized
    /\ linked # {}
    /\ ports' = Ascending(linked)
    /\ initialized' = TRUE
    /\ UNCHANGED <<linked, table, ci, tfes, running, call, gaveup>>

(* ahci_read and ahci_write, to the first port found.  The table is zeroed   *)
(* at once, whatever the HBA still does with it.                             *)
Send(req) ==
    /\ initialized
    /\ call.pc = "returned"
    /\ call' = [NoCall EXCEPT !.pc = "fill", !.req = req, !.late = tfes]
    /\ table' = None
    /\ UNCHANGED <<linked, ports, initialized, hba, gaveup>>

FillTable ==
    /\ call.pc = "fill"
    /\ table' = call.req
    /\ call' = [call EXCEPT !.pc = "issue"]
    /\ UNCHANGED <<linked, ports, initialized, hba, gaveup>>

Polling == [call EXCEPT !.pc = "ci", !.polls = MaxPolls]

(* The wait for the device to be ready ends in any case, after 1000 looks at *)
(* PORT_TFD if it is not.  Setting a bit of PORT_CI that is set does nothing.*)
Issue ==
    /\ call.pc = "issue"
    /\ ci' = TRUE
    /\ call' = Polling
    /\ UNCHANGED <<linked, ports, initialized, table, tfes, running, gaveup>>

Return(ret) == [call EXCEPT !.pc = "returned", !.ret = ret]

(* Mutant: the end of the transfer is taken from the device being idle.      *)
ReadBusy ==
    /\ call.pc = "ci"
    /\ call' = IF running # None THEN [call EXCEPT !.pc = "is"] ELSE Return(0)
    /\ UNCHANGED <<linked, ports, initialized, table, hba, gaveup>>

ReadCi ==
    /\ call.pc = "ci"
    /\ call' = IF ci THEN [call EXCEPT !.pc = "is"] ELSE Return(0)
    /\ UNCHANGED <<linked, ports, initialized, table, hba, gaveup>>

(* Mutant: the loop does not count.                                          *)
ReadIsForever ==
    /\ call.pc = "is"
    /\ call' = IF tfes THEN Return(-1) ELSE [call EXCEPT !.pc = "ci"]
    /\ UNCHANGED <<linked, ports, initialized, table, hba, gaveup>>

(* The loop ends after MaxPolls iterations, and then ahci_send_cmd reports   *)
(* success all the same.                                                     *)
ReadIs ==
    /\ call.pc = "is"
    /\ call' = IF tfes THEN Return(-1)
               ELSE IF call.polls > 1
               THEN [call EXCEPT !.pc = "ci", !.polls = @ - 1]
               ELSE Return(0)
    /\ gaveup' = (gaveup \/ (~tfes /\ call.polls = 1))
    /\ UNCHANGED <<linked, ports, initialized, table, hba>>

Driver == FillTable \/ Issue \/ ReadCi \/ ReadIs

-----------------------------------------------------------------------------
(* The HBA.  An empty table is an error.                                     *)
Fetch ==
    /\ ci /\ ~tfes /\ running = None
    /\ running' = table
    /\ tfes' = (table = None)
    /\ UNCHANGED <<linked, ports, initialized, table, ci, call, gaveup>>

Transfer ==
    /\ running # None
    /\ call' = [call EXCEPT !.moved = @ \/ (running = call.req)]
    /\ ci' = FALSE
    /\ running' = None
    /\ UNCHANGED <<linked, ports, initialized, table, tfes, gaveup>>

TaskFileError ==
    /\ running # None
    /\ tfes' = TRUE
    /\ running' = None
    /\ UNCHANGED <<linked, ports, initialized, table, ci, call, gaveup>>

Next ==
    \/ ahci_init \/ \E req \in Requests : Send(req)
    \/ Driver
    \/ Fetch \/ Transfer \/ TaskFileError

(* The driver is straight-line code with bounded loops; the HBA need do      *)
(* nothing.                                                                  *)
Spec == Init /\ [][Next]_vars /\ WF_vars(Driver)

-----------------------------------------------------------------------------
(* Until a call gives up waiting, PORT_CI is a faithful receipt: a call that *)
(* returns 0 has had its own request carried out, however the polls of the   *)
(* driver and the steps of the HBA fall.                                     *)
SuccessIsTransfer ==
    (call.pc = "returned" /\ call.ret = 0 /\ call.req # None /\ ~gaveup)
    => call.moved

(* Until then the driver writes the table only while the HBA does not use    *)
(* it: whatever the HBA has fetched is the request of the call that waits.   *)
TableIsOurs == (running # None /\ ~gaveup) => running = call.req /\ table = call.req

(* The driver never restarts a port that failed, nor clears the error: so it *)
(* never reports success for a command given to a port that had stopped.     *)
ErrorSticks ==
    (call.pc = "returned" /\ call.late) => call.ret = -1

(* Every call returns, even if the HBA never answers.                        *)
CallReturns == call.pc # "returned" ~> call.pc = "returned"
=============================================================================
