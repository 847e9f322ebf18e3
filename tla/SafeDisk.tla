------------------------------ MODULE SafeDisk ------------------------------
(***************************************************************************)
(* safe_disk_write and safe_disk_read (src/security/safe_disk.rs) on top of *)
(* the polled ATA driver (src/drivers/ata.c), against a drive that runs on *)
(* its own.  One call is in progress at a time: neither file takes a lock. *)
(*                                                                         *)
(* A sector's content is one value.  Left out: the two counters and the    *)
(* checksum, which the C entry points drop.  A call refused on its         *)
(* arguments returns -1 at once and is no step.                            *)
(*                                                                         *)
(* External: the drive.  It raises BSY as soon as it takes a command or a  *)
(* sector, never shows DRQ with BSY, ignores a command written while it    *)
(* has one in hand, and drops the command in hand when it fails.           *)
(***************************************************************************)
EXTENDS Integers, Sequences

CONSTANTS
    Lbas,            \* the sectors of the drive, 0..n
    DISK_LIMIT_LBA,
    MAX_WRITE_SECTORS,
    SectorWords,     \* 256 words of 16 bits
    U16,             \* 2^16, the modulus of the sector count
    Lengths,         \* the buffer lengths, in words, that callers pass
    MaxPolls,        \* 10000: how often DRQ is polled (100000 for the flush)
    None             \* no command, no content

DiskAssumption ==
    /\ Lbas \subseteq Nat /\ DISK_LIMIT_LBA \in Nat /\ 0 .. DISK_LIMIT_LBA - 1 \subseteq Lbas
    /\ SectorWords \in Nat \ {0} /\ U16 \in Nat \ {0} /\ MAX_WRITE_SECTORS \in 0 .. U16 - 1
    /\ Lengths \subseteq Nat /\ MaxPolls \in Nat \ {0}
    /\ None \notin {"read", "write", "flush"}
    /\ \A len \in Lengths : \A i \in 1 .. (len \div SectorWords) : None # <<"new", i>>

VARIABLES
    disk,     \* what each sector holds
    drive,    \* the drive's command: what, where, how many sectors are left
    io,       \* the call in progress or the one that returned last
    lapsed    \* history: some call stopped waiting for a drive at work

diskVars == <<disk, drive, io, lapsed>>

Idle == [cmd |-> None, lba |-> 0, left |-> 0, bsy |-> FALSE, got |-> None]

(* A call: its operation, place and buffer, the sectors done, the polls left *)
(* and the result.  failed is history: the drive failed during the call.     *)
NoCall == [pc |-> "returned", op |-> None, lba |-> 0, count |-> 0, len |-> 0,
           buffer |-> <<>>, done |-> 0, polls |-> 0, ret |-> 0, failed |-> FALSE]

Init ==
    /\ disk   = [s \in Lbas |-> <<"old", s>>]
    /\ drive  = Idle
    /\ io     = NoCall
    /\ lapsed = FALSE

-----------------------------------------------------------------------------
(* secure_write and secure_read.  "(len / 256) as u16" wraps.               *)
SectorCount(len) == (len \div SectorWords) % U16

ValidLba(lba, count) ==
    lba <= DISK_LIMIT_LBA /\ lba + count <= DISK_LIMIT_LBA

Fits(len) ==
    /\ SectorCount(len) <= MAX_WRITE_SECTORS
    /\ len <= MAX_WRITE_SECTORS * SectorWords

Content(op, len) ==
    [i \in 1..(len \div SectorWords) |-> IF op = "write" THEN <<"new", i>> ELSE None]

Begin(op, lba, len) ==
    /\ io.pc = "returned"
    /\ SectorCount(len) # 0
    /\ ValidLba(lba, SectorCount(len))
    /\ io' = [NoCall EXCEPT !.pc = "command", !.op = op, !.lba = lba, !.len = len,
                           !.count = SectorCount(len), !.buffer = Content(op, len)]
    /\ UNCHANGED <<disk, drive, lapsed>>

(* Only a write is checked against MAX_WRITE_SECTORS, before and after the   *)
(* count wraps.                                                              *)
secure_write(lba, len) == Fits(len) /\ Begin("write", lba, len)

secure_read(lba, len) == Begin("read", lba, len)

-----------------------------------------------------------------------------
(* The command register of the drive: nothing in the driver looks at BSY     *)
(* before it writes the task file.                                           *)
Take(cmd, lba, count) ==
    drive' = IF drive.cmd # None THEN drive
             ELSE [cmd |-> cmd, lba |-> lba, left |-> count, bsy |-> TRUE, got |-> None]

(* ata_write_250gb and ata_read_250gb up to the command.                     *)
Command ==
    /\ io.pc = "command"
    /\ Take(io.op, io.lba, io.count)
    /\ io' = [io EXCEPT !.pc = "drq", !.polls = MaxPolls]
    /\ UNCHANGED <<disk, lapsed>>

Return(ret) == [io EXCEPT !.pc = "returned", !.ret = ret]

Drq == drive.cmd # None /\ ~drive.bsy

(* A sector's 256 words through the data port: the drive waits while DRQ is  *)
(* up.  Against a drive that moves data the other way the words written are  *)
(* lost and the words read are noise.                                        *)
SectorOut(i) ==
    IF drive.cmd = "write"
    THEN [drive EXCEPT !.bsy = TRUE, !.got = io.buffer[i]] ELSE drive

SectorIn ==
    IF drive.cmd # "read" THEN drive
    ELSE IF drive.left = 1 THEN Idle
    ELSE [drive EXCEPT !.bsy = TRUE, !.lba = @ + 1, !.left = @ - 1]

(* Mutant of AfterSector: the flush and its wait for BSY are left out.       *)
AfterSectorUnflushed(i) ==
    IF i < io.count THEN [io EXCEPT !.done = i, !.polls = MaxPolls] ELSE Return(0)

(* The next round of the sector loop, or what follows it.                    *)
AfterSector(i) ==
    IF i < io.count THEN [io EXCEPT !.done = i, !.polls = MaxPolls]
    ELSE IF io.op = "write" THEN [io EXCEPT !.done = i, !.pc = "flush"]
    ELSE Return(0)

WriteSector ==
    /\ io.pc = "drq" /\ io.op = "write" /\ Drq
    /\ drive' = SectorOut(io.done + 1)
    /\ io' = AfterSector(io.done + 1)
    /\ UNCHANGED <<disk, lapsed>>

ReadSector ==
    /\ io.pc = "drq" /\ io.op = "read" /\ Drq
    /\ drive' = SectorIn
    /\ io' = [AfterSector(io.done + 1) EXCEPT !.buffer[io.done + 1] =
                 IF drive.cmd = "read" THEN disk[drive.lba] ELSE None]
    /\ UNCHANGED <<disk, lapsed>>

(* ata_status_wait(STATUS_DRQ): ERR and DF are not looked at, so a drive     *)
(* that failed is waited for like one that is slow.                          *)
PollDrq ==
    /\ io.pc = "drq" /\ ~Drq
    /\ io' = IF io.polls > 1 THEN [io EXCEPT !.polls = @ - 1] ELSE Return(-1)
    /\ lapsed' = (lapsed \/ (io.polls = 1 /\ drive.cmd # None))
    /\ UNCHANGED <<disk, drive>>

(* CMD_CACHE_FLUSH, written while the drive may still store the last sector. *)
Flush ==
    /\ io.pc = "flush"
    /\ Take("flush", 0, 0)
    /\ io' = [io EXCEPT !.pc = "bsy", !.polls = MaxPolls]
    /\ UNCHANGED <<disk, lapsed>>

(* ata_status_wait(0): its result is dropped, the call reports success.      *)
PollBsy ==
    /\ io.pc = "bsy"
    /\ io' = IF drive.bsy /\ io.polls > 1 THEN [io EXCEPT !.polls = @ - 1]
             ELSE Return(0)
    /\ lapsed' = (lapsed \/ (io.polls = 1 /\ drive.bsy))
    /\ UNCHANGED <<disk, drive>>

-----------------------------------------------------------------------------
(* The drive.                                                                *)
DriveReady ==
    /\ drive.bsy /\ drive.cmd \in {"read", "write"} /\ drive.got = None
    /\ drive' = [drive EXCEPT !.bsy = FALSE]
    /\ UNCHANGED <<disk, io, lapsed>>

DriveStores ==
    /\ drive.bsy /\ drive.got # None
    /\ disk' = [disk EXCEPT ![drive.lba] = drive.got]
    /\ drive' = IF drive.left = 1 THEN Idle
                ELSE [drive EXCEPT !.bsy = FALSE, !.got = None,
                                   !.lba = @ + 1, !.left = @ - 1]
    /\ UNCHANGED <<io, lapsed>>

DriveFlushed ==
    /\ drive.cmd = "flush"
    /\ drive' = Idle
    /\ UNCHANGED <<disk, io, lapsed>>

DriveFails ==
    /\ drive.bsy
    /\ drive' = Idle
    /\ io' = [io EXCEPT !.failed = @ \/ io.pc # "returned"]
    /\ UNCHANGED <<disk, lapsed>>

Next ==
    \/ \E lba \in Lbas, len \in Lengths : secure_write(lba, len)
    \/ \E lba \in Lbas, len \in Lengths : secure_read(lba, len)
    \/ Command \/ WriteSector \/ ReadSector \/ PollDrq \/ Flush \/ PollBsy
    \/ DriveReady \/ DriveStores \/ DriveFlushed \/ DriveFails

Spec == Init /\ [][Next]_diskVars

-----------------------------------------------------------------------------
(* No sector from DISK_LIMIT_LBA on is ever written.                         *)
LimitKept == \A s \in Lbas : s >= DISK_LIMIT_LBA => disk[s] = <<"old", s>>

(* safe_disk_write and safe_disk_read: no write passes the limit, whatever   *)
(* timed out or failed before it.  Until some call stops waiting for a drive *)
(* at work, a call that returns 0 has moved every sector between the buffer  *)
(* and the place asked for, and a write every whole sector the caller        *)
(* passed, although the count wraps at 2^16.  The last sector of a write is  *)
(* excepted when the drive failed: nothing looks at its error bits after the *)
(* last words are out.                                                       *)
OkIsTransfer ==
    /\ LimitKept
    /\ (io.pc = "returned" /\ io.ret = 0 /\ io.op # None /\ ~lapsed) =>
           /\ io.op = "write" => io.count = io.len \div SectorWords
           /\ \A i \in 1..io.count :
                 \/ disk[io.lba + i - 1] = io.buffer[i]
                 \/ io.op = "write" /\ io.failed /\ i = io.count
=============================================================================
