-------------------------------- MODULE Pci ---------------------------------
(***************************************************************************)
(* The PCI scan (src/drivers/pci.c) with its table of devices, and the     *)
(* second scan that the network driver makes for itself (rtl_find_device   *)
(* in src/drivers/ethernet/realtek/rtl8111.c).                             *)
(*                                                                         *)
(* External: configuration space, and the host bridge with its address     *)
(* register at 0xCF8.  pci.c writes that register byte by byte, rtl8111.c  *)
(* in one access.  A bridge may take both; or, as the PCI specification    *)
(* has it, only the second, and then pci.c reads and writes the one        *)
(* register that was addressed last, whatever it asks for.  Identifiers,   *)
(* classes and BARs are one identity; the output of the scan is left out.  *)
(***************************************************************************)
EXTENDS Integers, Sequences

CONSTANTS
    NBus, NSlot, NFunc,  \* 256, 32 and 8
    MaxDevices,          \* PCI_MAX_DEVICES
    Machines,            \* configuration spaces: functions by their place
    RtlIds               \* the identities rtl_find_device looks for

VARIABLES
    bridge,       \* whether it takes bytes; if not, what its register answers:
                  \* as a function that is there, as one among several
    space,        \* the functions there are, by <<bus, slot, func>>
    at,           \* the place pci_init is at; its bus is NBus when it has ended
    pci_devices,
    nic           \* the place rtl_find_device has found, NotYet or Nothing

pciVars == <<bridge, space, at, pci_devices, nic>>

NotYet  == <<"pending">>
Nothing == <<"nothing">>
Place == (0 .. NBus - 1) \X (0 .. NSlot - 1) \X (0 .. NFunc - 1)

(* Nothing is enabled before the scan, and the stale answer is no card's.    *)
MachineAssumption ==
    /\ {NBus, NSlot, NFunc, MaxDevices} \subseteq Nat \ {0}
    /\ "stale" \notin RtlIds
    /\ \A m \in Machines :
          /\ DOMAIN m \subseteq Place
          /\ \A p \in DOMAIN m :
                m[p] = [id |-> m[p].id, multi |-> m[p].multi, bar |-> m[p].bar, cmd |-> {}]

PciInit ==
    /\ bridge \in [bytes : BOOLEAN, there : BOOLEAN, multi : BOOLEAN]
    /\ bridge.bytes => ~bridge.there /\ ~bridge.multi
    /\ space \in Machines
    /\ at = <<0, 0, 0>> /\ pci_devices = <<>> /\ nic = NotYet

(* What the reads of pci.c say of p.                                         *)
There(p)    == IF bridge.bytes THEN p \in DOMAIN space ELSE bridge.there
Multi(p)    == IF bridge.bytes THEN space[p].multi ELSE bridge.multi
Identity(p) == IF bridge.bytes THEN space[p].id ELSE "stale"

(* Its write, which otherwise reaches that register too (left out).          *)
Enabled(p) ==
    IF bridge.bytes THEN [space EXCEPT ![p].cmd = @ \cup {"memory", "master"}]
    ELSE space

(* What pci_device_t keeps of a function.                                    *)
Entry(p) == [place |-> p, id |-> Identity(p)]

(* pci_scan_device: a function that is there gets an entry, and memory and   *)
(* bus mastering are enabled, while the table has room.                      *)
pci_scan_device(p) ==
    IF ~There(p) \/ Len(pci_devices) >= MaxDevices THEN UNCHANGED <<pci_devices, space>>
    ELSE pci_devices' = Append(pci_devices, Entry(p)) /\ space' = Enabled(p)

(* Mutant of Several: functions above 0 are asked for in the others' slots.  *)
SeveralAlways(p) == p[3] > 0 \/ There(p)

(* Whether function 0 of the slot of p announces more functions.             *)
Several(p) == p[3] > 0 \/ (There(p) /\ Multi(p))

(* The three loops of pci_init.                                              *)
After(p) ==
    IF Several(p) /\ p[3] + 1 < NFunc THEN <<p[1], p[2], p[3] + 1>>
    ELSE IF p[2] + 1 < NSlot THEN <<p[1], p[2] + 1, 0>>
    ELSE <<p[1] + 1, 0, 0>>

(* One function of pci_init.                                                 *)
pci_init ==
    /\ at[1] < NBus
    /\ pci_scan_device(at)
    /\ at' = After(at)
    /\ UNCHANGED <<bridge, nic>>

Before(p, q) == p[1] < q[1] \/ (p[1] = q[1] /\ (p[2] < q[2] \/ (p[2] = q[2] /\ p[3] < q[3])))

(* rtl_find_device: the first network card at a function 0 is enabled, I/O   *)
(* included, and its first BAR returned, which is 0 if it has none.          *)
Cards == {p \in DOMAIN space : p[3] = 0 /\ space[p].id \in RtlIds}
rtl_find_device ==
    /\ at[1] = NBus /\ nic = NotYet
    /\ IF Cards = {}
       THEN nic' = Nothing /\ UNCHANGED space
       ELSE LET card == CHOOSE p \in Cards : \A q \in Cards : ~Before(q, p)
            IN  /\ space' = [space EXCEPT ![card].cmd = @ \cup {"io", "memory", "master"}]
                /\ nic' = IF space[card].bar THEN card ELSE Nothing
    /\ UNCHANGED <<bridge, at, pci_devices>>

PciNext == pci_init \/ rtl_find_device

PciSpec == PciInit /\ [][PciNext]_pciVars

-----------------------------------------------------------------------------
(* pci_find_device: the first entry of the table with the identity.          *)
Found(id) == {i \in DOMAIN pci_devices :
    pci_devices[i].id = id /\ \A j \in 1 .. i - 1 : pci_devices[j].id # id}

(* The functions a scan should see: those of function 0, and of the slots    *)
(* that are marked as having several.                                        *)
Visible == {p \in DOMAIN space :
    p[3] = 0 \/ \E q \in DOMAIN space : q = <<p[1], p[2], 0>> /\ space[q].multi}
Listed == {pci_devices[i].place : i \in DOMAIN pci_devices}

(* The table is the visible functions in the order of their places, up to    *)
(* its size, and exactly those are enabled.                                  *)
TableRight ==
    /\ Len(pci_devices) <= MaxDevices
    /\ \A i \in DOMAIN pci_devices :
          /\ pci_devices[i].place \in Visible
          /\ pci_devices[i].id = space[pci_devices[i].place].id
          /\ \A j \in 1 .. i - 1 : Before(pci_devices[j].place, pci_devices[i].place)
    /\ \A p \in Visible \ Listed :
          Len(pci_devices) = MaxDevices /\ \A q \in Listed : Before(q, p)
    /\ nic = NotYet => \A p \in DOMAIN space : "memory" \in space[p].cmd <=> p \in Listed

(* The table is empty or full of functions that are not there.               *)
TableWrong ==
    /\ pci_devices # <<>> <=> bridge.there
    /\ \A i \in DOMAIN pci_devices : pci_devices[i].id = "stale"

(* The card is enabled, and of those that pci_find_device could answer at a  *)
(* function 0 none comes before it.                                          *)
CardRight ==
    /\ space[nic].cmd = {"io", "memory", "master"}
    /\ \A id \in RtlIds : \A i \in Found(id) :
          pci_devices[i].place[3] = 0 => ~Before(pci_devices[i].place, nic)

(* pci_init and rtl_find_device: on a bridge that takes single bytes the     *)
(* table is what is there, on another it says nothing about the machine.     *)
(* The driver's own scan does not depend on either, and sees function 0 only.*)
TableIsScan ==
    /\ at[1] = NBus => IF bridge.bytes THEN TableRight ELSE TableWrong
    /\ nic \notin {NotYet, Nothing} => CardRight
=============================================================================
