----------------------------- MODULE MCDrivers ------------------------------
(***************************************************************************)
(* Model checking of the three polled device drivers, Ahci, SafeDisk with  *)
(* ATA, and Rtl8111, and of the PCI scan.  Once the card is found they     *)
(* share no state and call none of each other, so their product would show *)
(* nothing that each alone does not: a behaviour drives one of them,       *)
(* chosen at the start, and leaves the others alone.                       *)
(***************************************************************************)
EXTENDS Ahci, FiniteSets

CONSTANTS Lbas, DISK_LIMIT_LBA, MAX_WRITE_SECTORS, SectorWords, U16, Lengths
CONSTANTS Frames, MaxTxPolls, MaxPackets, Counter, NoFrame
CONSTANTS NBus, NSlot, NFunc, MaxDevices, Machines, RtlIds, MaxFunctions

VARIABLES disk, drive, io, lapsed
VARIABLES rtl, nic, thread, handler, arrived, crossed, abandoned
VARIABLES bridge, space, at, pci_devices, found
VARIABLE driver

(* Machines of up to MaxFunctions functions at any places, each a network   *)
(* card with one function, with or without an address in its BAR, or a disk *)
(* controller that announces several.                                       *)
Device(id, multi, bar) == [id |-> id, multi |-> multi, bar |-> bar, cmd |-> {}]
Devices == {Device("rtl", FALSE, TRUE), Device("rtl", FALSE, FALSE), Device("sata", TRUE, TRUE)}
Places == (0 .. NBus - 1) \X (0 .. NSlot - 1) \X (0 .. NFunc - 1)
MCMachines == UNION {[S -> Devices] : S \in {T \in SUBSET Places : Cardinality(T) <= MaxFunctions}}

D == INSTANCE SafeDisk
R == INSTANCE Rtl8111
P == INSTANCE Pci WITH nic <- found

ASSUME CardAssumption == R!CountAssumption
ASSUME DriveAssumption == D!DiskAssumption
ASSUME ScanAssumption == P!MachineAssumption

diskVars == <<disk, drive, io, lapsed>>
rtlVars  == <<rtl, nic, thread, handler, arrived, crossed, abandoned>>
scanVars == <<bridge, space, at, pci_devices, found>>
driversVars == <<driver, vars, diskVars, rtlVars, scanVars>>

DriversInit ==
    /\ driver \in {"ahci", "safe_disk", "rtl8111", "pci"}
    /\ Init /\ D!Init /\ R!Init /\ P!PciInit
    /\ driver # "ahci" => linked = {}
    /\ driver # "rtl8111" => ~nic.link
    /\ driver # "pci" => space = <<>> /\ bridge.bytes

AhciStep == driver = "ahci" /\ Next /\ UNCHANGED <<driver, diskVars, rtlVars, scanVars>>
DiskStep == driver = "safe_disk" /\ D!Next /\ UNCHANGED <<driver, vars, rtlVars, scanVars>>
RtlStep  == driver = "rtl8111" /\ R!Next /\ UNCHANGED <<driver, vars, diskVars, scanVars>>
ScanStep == driver = "pci" /\ P!PciNext /\ UNCHANGED <<driver, vars, diskVars, rtlVars>>

DriversNext == AhciStep \/ DiskStep \/ RtlStep \/ ScanStep

(* The fairness of Ahci, where a call's loops are run to their end.         *)
DriversSpec == DriversInit /\ [][DriversNext]_driversVars /\ WF_vars(Driver)

(* safe_disk_write and safe_disk_read: see SafeDisk.                        *)
OkIsTransfer == D!OkIsTransfer

(* rtl8111_send: see Rtl8111.                                               *)
SentIsMine == R!SentIsMine

(* rtl8111_receive against rtl8111_irq_handler: see Rtl8111.                *)
DeliveredOnce == R!DeliveredOnce

(* cable_status against the link: see Rtl8111.                              *)
CableFresh == R!CableFresh

(* pci_init and rtl_find_device: see Pci.                                   *)
TableIsScan == P!TableIsScan
=============================================================================
