------------------------------- MODULE Fat32 -------------------------------
(***************************************************************************)
(* The FAT32 reader of src/fs/fat32/fat32.c on a mounted volume: open, ls, *)
(* read and close, one step per sector that is read, any of which may      *)
(* fail.  Calls do not overlap (they share fat32_sector_buf).  A byte of   *)
(* the volume is named by its cluster and its offset in the cluster.       *)
(*                                                                         *)
(* A call refused on its arguments returns -1 at once and is no step.      *)
(* External: ata_read_250gb, which fails at any time, and always for a     *)
(* sector that is not on the disk.                                         *)
(***************************************************************************)
EXTENDS Integers, Sequences, SequencesExt, FiniteSetsExt

CONSTANTS
    Volumes,      \* well-formed volumes: [fat, root, dir], see VolumeOK
    Names,        \* the paths that are opened
    Lens,         \* the lengths of reads, none 0
    SecPerClus,   \* bpb.sec_per_clus
    SectorSize,   \* FAT32_SECTOR_SZ
    MaxFiles,     \* FAT32_MAX_FILES
    EOC           \* 0x0FFFFFFF, greater than any cluster number

BAD == EOC - 8                 \* FAT32_BAD
EndMarks == EOC - 7 .. EOC     \* what ends a chain on disk
ClusSize == SecPerClus * SectorSize

Open == {"label", "file", "dir"}           \* the entries fat32_open compares
Kind == Open \cup {"end", "deleted", "lfn"}

(* The clusters of a chain, by number of links followed.                     *)
ClusterAt(fat, first, k) ==
    LET walk[n \in 0..k] == IF n = 0 THEN first ELSE fat[walk[n - 1]]
    IN  walk[k]

(* A chain of n clusters, and a chain that has room for size bytes.          *)
Chain(fat, first, n) == /\ \A k \in 0..n - 1 : ClusterAt(fat, first, k) \in DOMAIN fat
                        /\ ClusterAt(fat, first, n) \in EndMarks
Holds(fat, first, size) ==
    \E n \in 1..Cardinality(DOMAIN fat) : Chain(fat, first, n) /\ size <= n * ClusSize

(* Clusters below BAD, a root chain of directory clusters that ends, in each *)
(* a sequence of entries for each of its sectors, and no entry with a size   *)
(* that its chain has no room for.                                           *)
VolumeOK(v) ==
    /\ DOMAIN v.fat \subseteq 2..BAD - 1
    /\ Holds(v.fat, v.root, 1)
    /\ v.root \in DOMAIN v.dir /\ DOMAIN v.dir \subseteq DOMAIN v.fat
    /\ \A c \in DOMAIN v.dir :
          /\ v.fat[c] \in DOMAIN v.dir \cup EndMarks
          /\ DOMAIN v.dir[c] = 1..SecPerClus
          /\ \A sector \in Range(v.dir[c]) :
                /\ sector \in Seq(Range(sector))
                /\ \A e \in Range(sector) :
                      /\ e.kind \in Kind /\ e.size \in Nat
                      /\ e.kind \in Open /\ e.size > 0 => Holds(v.fat, e.first, e.size)

ASSUME SizeAssumption ==
    /\ SecPerClus \in Nat \ {0} /\ SectorSize \in Nat \ {0}
    /\ MaxFiles \in Nat /\ Lens \subseteq Nat \ {0} /\ EOC \in Nat
ASSUME VolumeAssumption == \A v \in Volumes : VolumeOK(v)

VARIABLES
    vol,     \* the mounted volume, never written
    files,   \* active descriptors, fd -> [first, cur, size, pos]
    call     \* the call in progress, or the one that returned last

vars == <<vol, files, call>>

(* pc: the next disk access, or "done".  cluster and sec: the directory      *)
(* scan.  got and listed: what the caller received.  The last two fields     *)
(* are history: the position at the start of a read, and whether any disk    *)
(* access of the call failed.                                                *)
NoCall == [pc |-> "done", op |-> "none", fd |-> -1, name |-> "", ret |-> 0,
           cluster |-> 0, sec |-> 0, len |-> 0, got |-> <<>>, listed |-> <<>>,
           start |-> 0, fault |-> FALSE]

-----------------------------------------------------------------------------
OnDisk(cluster) == cluster \in DOMAIN vol.fat

(* Mutant: an unreadable link leaves the scan where it is.                  *)
FatEntryStuck(cluster, ok) == IF ok THEN vol.fat[cluster] ELSE cluster

(* fat32_read_fat_entry; a failed read reports a bad cluster.                *)
FatEntry(cluster, ok) == IF ok THEN vol.fat[cluster] ELSE BAD

(* A disk access of the call works only on clusters the disk has.            *)
Access(cluster, ok) == ok => OnDisk(cluster)
Faulted(ok) == call.fault \/ ~ok

Return(c, ret) == [c EXCEPT !.pc = "done", !.ret = ret]

Forget(f, x) == [y \in DOMAIN f \ {x} |-> f[y]]
Extend(f, x, v) == [y \in DOMAIN f \cup {x} |-> IF y = x THEN v ELSE f[y]]

TypeOK ==
    /\ DOMAIN files \subseteq 0..MaxFiles - 1
    /\ \A fd \in DOMAIN files :
          files[fd] \in [first : Nat, cur : DOMAIN vol.fat \cup {0, BAD} \cup EndMarks,
                         size : Nat, pos : 0..files[fd].size]
    /\ call.pc \in {"dir", "dirfat", "data", "datafat", "done"}
    /\ call.op \in {"none", "open", "ls", "read"}
    /\ call.ret \in -1..MaxFiles + ClusSize * EOC
    /\ call.pc \in {"data", "datafat"} => call.fd \in DOMAIN files
    /\ call.sec \in 0..SecPerClus - 1

(* What fat32_init leaves when it succeeds.                                  *)
Init ==
    /\ vol \in Volumes
    /\ files = <<>>
    /\ call = NoCall

-----------------------------------------------------------------------------
(* The entries of a directory sector up to the first free one.               *)
Before(sector) ==
    LET end == SelectInSeq(sector, LAMBDA e : e.kind = "end")
    IN  IF end = 0 THEN sector ELSE SubSeq(sector, 1, end - 1)
Ends(sector) == \E e \in Range(sector) : e.kind = "end"

(* fat32_open passes over deleted and long-name entries, fat32_ls over the   *)
(* volume label as well.                                                     *)
Matching(sector, name) ==
    {i \in DOMAIN sector : /\ sector[i].kind \in Open /\ sector[i].name = name
                           /\ \A j \in 1..i : sector[j].kind # "end"}
Shown(entries) ==
    FlattenSeq([i \in DOMAIN entries |->
        IF entries[i].kind \in {"file", "dir"} THEN <<entries[i]>> ELSE <<>>])

StartScan(c) == [c EXCEPT !.pc = "dir", !.cluster = vol.root]

fat32_open(name) ==
    LET free == (0..MaxFiles - 1) \ DOMAIN files
    IN  /\ call.pc = "done"
        /\ free # {}
        /\ call' = StartScan([NoCall EXCEPT !.op = "open", !.name = name,
                                            !.fd = Min(free)])
        /\ UNCHANGED <<vol, files>>

fat32_ls ==
    /\ call.pc = "done"
    /\ call' = StartScan([NoCall EXCEPT !.op = "ls"])
    /\ UNCHANGED <<vol, files>>

(* Mutant: only a cluster's first sector is searched.                       *)
NextSectorOneShort(c) == [c EXCEPT !.pc = "dirfat"]

(* After a sector without the end of the directory: the next one, or the     *)
(* next cluster.                                                             *)
NextSector(c) == IF c.sec + 1 < SecPerClus THEN [c EXCEPT !.sec = @ + 1]
                                           ELSE [c EXCEPT !.pc = "dirfat"]

(* The descriptor of an entry: struct fat32_file_t.  Nothing reads its name  *)
(* and is_dir, and active is being in the domain of files.                   *)
Opened(e) == [first |-> e.first, cur |-> e.first, size |-> e.size, pos |-> 0]

(* One sector of the scan of fat32_open.                                     *)
OpenSector(ok) ==
    /\ call.pc = "dir" /\ call.op = "open"
    /\ Access(call.cluster, ok)
    /\ UNCHANGED vol
    /\ LET sector == vol.dir[call.cluster][call.sec + 1]
           found == Matching(sector, call.name)
           c == [call EXCEPT !.fault = Faulted(ok)]
       IN  IF ~ok
           THEN /\ call' = Return(c, -1)
                /\ UNCHANGED files
           ELSE IF found # {}
           THEN /\ files' = Extend(files, call.fd, Opened(sector[Min(found)]))
                /\ call' = Return(c, call.fd)
           ELSE /\ call' = IF Ends(sector) THEN Return(c, -1) ELSE NextSector(c)
                /\ UNCHANGED files

(* One sector of the scan of fat32_ls.                                       *)
LsSector(ok) ==
    /\ call.pc = "dir" /\ call.op = "ls"
    /\ Access(call.cluster, ok)
    /\ UNCHANGED <<vol, files>>
    /\ LET sector == vol.dir[call.cluster][call.sec + 1]
           c == [call EXCEPT !.fault = Faulted(ok)]
           listing == [c EXCEPT !.listed = @ \o Shown(Before(sector))]
       IN  call' = IF ~ok THEN Return(c, -1)
                   ELSE IF Ends(sector) THEN Return(listing, 0)
                   ELSE NextSector(listing)

(* The link to the directory's next cluster; only EOC itself ends the loop.  *)
DirLink(ok) ==
    /\ call.pc = "dirfat"
    /\ Access(call.cluster, ok)
    /\ LET next == FatEntry(call.cluster, ok)
           c == [call EXCEPT !.cluster = next, !.sec = 0, !.fault = Faulted(ok)]
       IN  call' = IF next < EOC THEN [c EXCEPT !.pc = "dir"]
                   ELSE Return(c, IF call.op = "ls" THEN 0 ELSE -1)
    /\ UNCHANGED <<vol, files>>

-----------------------------------------------------------------------------
(* The loop condition of fat32_read.                                         *)
Loop(c, file) == IF Len(c.got) < c.len /\ file.pos < file.size
                 THEN [c EXCEPT !.pc = "data"]
                 ELSE Return(c, Len(c.got))

fat32_read(fd, len) ==
    /\ call.pc = "done"
    /\ call' = Loop([NoCall EXCEPT !.op = "read", !.fd = fd, !.len = len,
                                   !.start = files[fd].pos], files[fd])
    /\ UNCHANGED <<vol, files>>

(* One sector is read and what is asked for of it copied; the position moves *)
(* on at once, and stays there if a later access of the call fails.          *)
ToCopy(file) == Min({SectorSize - (file.pos % SectorSize),
                     call.len - Len(call.got), file.size - file.pos})
Bytes(file, n) == [i \in 1..n |-> <<file.cur, (file.pos % ClusSize) + i - 1>>]

Copied(fd, n) == [files EXCEPT ![fd].pos = @ + n]
(* Mutant: the link is followed only when more is asked for.                *)
AfterCopyLazy(c, file) ==
    IF file.pos % ClusSize = 0 /\ Len(c.got) < c.len
    THEN [c EXCEPT !.pc = "datafat"] ELSE Loop(c, file)

AfterCopy(c, file) == IF file.pos % ClusSize = 0 THEN [c EXCEPT !.pc = "datafat"]
                                                 ELSE Loop(c, file)

ReadSector(ok) ==
    /\ call.pc = "data"
    /\ Access(files[call.fd].cur, ok)
    /\ UNCHANGED vol
    /\ LET file == files[call.fd]
           n == ToCopy(file)
           c == [call EXCEPT !.fault = Faulted(ok)]
       IN  IF ~ok
           THEN /\ call' = Return(c, -1)
                /\ UNCHANGED files
           ELSE /\ files' = Copied(call.fd, n)
                /\ call' = AfterCopy([c EXCEPT !.got = @ \o Bytes(file, n)],
                                     files'[call.fd])

(* At the end of a cluster, the link to the next.                            *)
ReadLink(ok) ==
    /\ call.pc = "datafat"
    /\ Access(files[call.fd].cur, ok)
    /\ LET next == FatEntry(files[call.fd].cur, ok)
           c == [call EXCEPT !.fault = Faulted(ok)]
       IN  /\ files' = [files EXCEPT ![call.fd].cur = next]
           /\ call' = IF next >= EOC THEN Return(c, Len(c.got))
                                     ELSE Loop(c, files[call.fd])
    /\ UNCHANGED vol

fat32_close(fd) ==
    /\ call.pc = "done"
    /\ files' = Forget(files, fd)
    /\ call' = NoCall
    /\ UNCHANGED vol

Step == \E ok \in BOOLEAN :
    OpenSector(ok) \/ LsSector(ok) \/ DirLink(ok) \/ ReadSector(ok) \/ ReadLink(ok)

Next ==
    \/ \E name \in Names : fat32_open(name)
    \/ fat32_ls
    \/ \E fd \in DOMAIN files, len \in Lens : fat32_read(fd, len)
    \/ \E fd \in DOMAIN files : fat32_close(fd)
    \/ Step

(* A call, once made, runs: it is straight-line kernel code.                 *)
Spec == Init /\ [][Next]_vars /\ WF_vars(Step)

-----------------------------------------------------------------------------
(* Sector n of the directory, over all clusters of its chain.                *)
Sector(n) == LET c == ClusterAt(vol.fat, vol.root, (n - 1) \div SecPerClus)
             IN  vol.dir[c][((n - 1) % SecPerClus) + 1]

(* The entries of the directory, sector after sector, up to the first free   *)
(* one: what open and ls should see.                                         *)
Directory ==
    LET clusters == CHOOSE n \in 1..Cardinality(DOMAIN vol.fat) :
                       Chain(vol.fat, vol.root, n)
    IN  Before(FlattenSeq([n \in 1..clusters * SecPerClus |-> Sector(n)]))

(* Wherever a descriptor stands, its cluster is the one that holds its       *)
(* position, also across reads that end inside a sector, at the end of a     *)
(* cluster or in an error; or a link could not be read and it is stuck.      *)
CursorOnChain ==
    \A fd \in DOMAIN files :
        LET file == files[fd]
        IN  (file.size > 0 /\ ~(call.pc = "datafat" /\ call.fd = fd))
            => file.cur \in {BAD, ClusterAt(vol.fat, file.first, file.pos \div ClusSize)}

(* The bytes a read has got are the file's, from the descriptor's position   *)
(* on, and a read that reports success has all that was asked for and the    *)
(* file still has.                                                           *)
GotIsFile ==
    (call.op = "read" /\ call.fd \in DOMAIN files) =>
        LET file == files[call.fd]
        IN  /\ \A i \in DOMAIN call.got :
                  LET p == call.start + i - 1
                  IN  call.got[i] = <<ClusterAt(vol.fat, file.first, p \div ClusSize),
                                      p % ClusSize>>
            /\ (call.pc = "done" /\ call.ret # -1) =>
                  /\ call.ret = Len(call.got)
                  /\ call.ret = Min({call.len, file.size - call.start})

(* fat32_read: whatever fails on the way, the bytes a read delivers are the  *)
(* file's, and the descriptor is left where the next read can go on.         *)
ReadIsFile == CursorOnChain /\ GotIsFile

Named(entries, name) ==
    {i \in DOMAIN entries : entries[i].kind \in Open /\ entries[i].name = name}

(* open finds the first entry of the name, in whichever sector or cluster of *)
(* the directory it is; and when no access failed, it fails only for want of *)
(* one.                                                                      *)
OpenFindsFirst ==
    (call.op = "open" /\ call.pc = "done") =>
        LET found == Named(Directory, call.name)
        IN  /\ (call.ret # -1 /\ call.ret \in DOMAIN files) =>
                  /\ found # {}
                  /\ files[call.ret].first = Directory[Min(found)].first
            /\ (call.ret = -1 /\ found # {}) => call.fault

(* An ls that reports success has shown the whole directory, in order.       *)
ListedAll ==
    (call.op = "ls" /\ call.pc = "done" /\ call.ret = 0)
    => call.listed = Shown(Directory)

(* fat32_open and fat32_list: both see the whole directory, over every       *)
(* sector and cluster of it, although the table reads use the same buffer.   *)
DirectoryIsSeen == OpenFindsFirst /\ ListedAll

(* Every call returns: neither the directory scan nor the read loop spins,   *)
(* whatever links could not be read.                                         *)
CallReturns == call.pc # "done" ~> call.pc = "done"
=============================================================================
