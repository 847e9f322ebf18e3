-------------------------------- MODULE Vfs --------------------------------
(***************************************************************************)
(* The virtual file system of src/fs/vfs.rs after vfs_init: the inode      *)
(* table, the descriptors, and the sectors that vfs_write and vfs_sync     *)
(* put on the disk.  A path is a sequence of characters, as the prefix     *)
(* match of find_file needs; positions are counted in sectors, which is    *)
(* all the code uses of f_pos.                                             *)
(*                                                                         *)
(* A call that is refused (EBADF, EACCES, EINVAL, ENOENT, EEXIST, EIO)     *)
(* changes nothing and is not a step.  Neither is vfs_read: no code raises *)
(* size_bytes above 0, so f_pos >= size_bytes and every read returns 0.    *)
(*                                                                         *)
(* External: the disk takes a sector or fails; the scan passes or fails.   *)
(***************************************************************************)
EXTENDS Integers, Sequences, SequencesExt, FiniteSetsExt

CONSTANTS
    BootDirs,      \* the paths init() creates, in order
    Paths,         \* paths callers use
    MaxFilename,   \* MAX_FILENAME
    MaxInodes,     \* MAX_INODES
    MaxOpenFiles,  \* MAX_OPEN_FILES
    SyncBase,      \* 20: inode i is synced to sector SyncBase + i
    DataBase,      \* 100: file i starts at sector DataBase + i
    Sectors,       \* 2^55 file positions in sectors, onto 2^48 ATA sectors
    FlagSets,      \* the flag words callers pass, as sets of flag names
    Seeks,         \* distances of a seek, in sectors modulo Sectors
    Buffers        \* contents of a sector that is written

Flag == {"WRONLY", "RDWR", "CREAT", "EXCL", "APPEND"}

NameAssumption ==
    /\ MaxFilename \in Nat \ {0}
    /\ MaxInodes \in Nat
    /\ BootDirs \in Seq(Range(BootDirs)) /\ Len(BootDirs) <= MaxInodes
    /\ \A p \in Paths \cup Range(BootDirs) : p \in Seq(Range(p))
DiskAssumption ==
    /\ SyncBase \in Nat /\ DataBase \in Nat /\ SyncBase < DataBase
    /\ Sectors \in Nat /\ DataBase + MaxInodes <= Sectors
CallAssumption ==
    /\ MaxOpenFiles \in Nat
    /\ FlagSets \subseteq SUBSET Flag
    /\ Seeks \subseteq 0..Sectors - 1

Cut(path) == SubSeq(path, 1, IF Len(path) < MaxFilename THEN Len(path)
                                                        ELSE MaxFilename)

Name == {Cut(p) : p \in Paths \cup Range(BootDirs)}

(* find_file would stop at an earlier directory of init() for none of them.  *)
BootAssumption == \A i, j \in DOMAIN BootDirs :
    i < j => ~IsPrefix(Cut(BootDirs[j]), Cut(BootDirs[i]))

VARIABLES
    inodes,   \* fs.inodes[0..inode_count-1]: [name, is_dir, start_block]
    files,    \* the open descriptors, fd -> [inode, pos, flags]
    disk,     \* sectors written: content, or the inode a sync put there
    opened,   \* history: the path each open descriptor was opened by
    last,     \* history: what was last written to a file's first sector
    strayed,  \* history: some write was not to its file's first sector
    synced    \* history: the number of inodes at the last sync

vars == <<inodes, files, disk, opened, last, strayed, synced>>

-----------------------------------------------------------------------------
Inodes == 0..Len(inodes) - 1
Inode(i) == inodes[i + 1]

(* create_entry: the next inode, its name cut at MAX_FILENAME.               *)
NewEntry(i, path, is_dir) ==
    [name |-> Cut(path), is_dir |-> is_dir, start_block |-> DataBase + i]

(* find_file compares the path's characters only, so a name that goes on     *)
(* after them matches too.                                                   *)
Matches(path) == {i \in Inodes : IsPrefix(Cut(path), Inode(i).name)}
(* Mutant: the newest match wins.                                           *)
FindLastFile(path) == Max(Matches(path))

FindFile(path) == Min(Matches(path))
Exists(path) == Matches(path) # {}

Meta(i) == [inode |-> i]
(* Mutant: every file starts at the same sector.                            *)
SectorFromDataBase(fd) == (DataBase + files[fd].pos) % Sectors

SectorOf(fd) == (Inode(files[fd].inode).start_block + files[fd].pos) % Sectors

FreeFds == (3..MaxOpenFiles - 1) \ DOMAIN files
Forget(f, fd) == [x \in DOMAIN f \ {fd} |-> f[x]]
Extend(f, x, y) == [z \in DOMAIN f \cup {x} |-> IF z = x THEN y ELSE f[z]]

(* struct Inode.  size_bytes stays 0 and an entry in the table stays active; *)
(* permissions and uid are never read, and id only by the listing.           *)
InodeType == [name : Name, is_dir : BOOLEAN, start_block : DataBase..DataBase + MaxInodes]

(* struct File as sys_open fills it.  f_active is being in the domain of     *)
(* files; f_count and f_uid are never read.                                  *)
File(i, flags) == [inode |-> i, pos |-> 0, flags |-> flags]

TypeOK ==
    /\ inodes \in Seq(InodeType)
    /\ Len(inodes) <= MaxInodes
    /\ DOMAIN files \subseteq 3..MaxOpenFiles - 1
    /\ \A fd \in DOMAIN files :
          files[fd] \in [inode : Inodes, pos : 0..Sectors - 1, flags : FlagSets]
    /\ DOMAIN disk \subseteq 0..Sectors - 1
    /\ DOMAIN opened = DOMAIN files
    /\ DOMAIN last \subseteq Inodes
    /\ strayed \in BOOLEAN
    /\ synced \in 0..Len(inodes)

(* The table vfs_init leaves; nothing is open and nothing was written.       *)
Init ==
    /\ inodes = [i \in DOMAIN BootDirs |-> NewEntry(i - 1, BootDirs[i], TRUE)]
    /\ files = << >>
    /\ disk = << >>
    /\ opened = << >>
    /\ last = << >>
    /\ strayed = FALSE
    /\ synced = 0

-----------------------------------------------------------------------------
(* The first free descriptor takes the inode; with none free open returns    *)
(* EMFILE.  O_APPEND starts at size_bytes, which is 0 as well.               *)
TakeDescriptor(path, i, flags) ==
    IF FreeFds = {}
    THEN UNCHANGED <<files, opened>>
    ELSE /\ files' = Extend(files, Min(FreeFds), File(i, flags))
         /\ opened' = Extend(opened, Min(FreeFds), path)

(* sys_open of a path that is found, whatever kind of entry it is.           *)
OpenExisting(path, flags) ==
    /\ Exists(path)
    /\ "EXCL" \notin flags
    /\ TakeDescriptor(path, FindFile(path), flags)
    /\ UNCHANGED <<inodes, disk, last, strayed, synced>>

(* sys_open of a path that is not: with EMFILE the new entry stays.          *)
OpenNew(path, flags) ==
    /\ ~Exists(path)
    /\ "CREAT" \in flags
    /\ Len(inodes) < MaxInodes
    /\ inodes' = Append(inodes, NewEntry(Len(inodes), path, FALSE))
    /\ TakeDescriptor(path, Len(inodes), flags)
    /\ UNCHANGED <<disk, last, strayed, synced>>

sys_close(fd) ==
    /\ files' = Forget(files, fd)
    /\ opened' = Forget(opened, fd)
    /\ UNCHANGED <<inodes, disk, last, strayed, synced>>

(* sys_write: one whole sector at the descriptor's position, if the scan     *)
(* passes and the disk takes it.                                             *)
sys_write(fd, buffer) ==
    LET file == files[fd]
    IN  /\ file.flags \cap {"WRONLY", "RDWR"} # {}
        /\ disk' = Extend(disk, SectorOf(fd), buffer)
        /\ files' = [files EXCEPT ![fd].pos = (@ + 1) % Sectors]
        /\ IF file.pos = 0
           THEN /\ last' = Extend(last, file.inode, buffer)
                /\ UNCHANGED strayed
           ELSE /\ strayed' = TRUE
                /\ UNCHANGED last
        /\ UNCHANGED <<inodes, opened, synced>>

(* sys_lseek: no bound either way; SEEK_SET takes a negative offset as a     *)
(* huge position, SEEK_CUR wraps.                                            *)
sys_lseek(fd, pos) ==
    /\ files' = [files EXCEPT ![fd].pos = pos]
    /\ UNCHANGED <<inodes, disk, opened, last, strayed, synced>>

SeekSet(fd, offset) == sys_lseek(fd, offset)
SeekCur(fd, offset) == sys_lseek(fd, (files[fd].pos + offset) % Sectors)

sys_mkdir(path) ==
    /\ ~Exists(path)
    /\ Len(inodes) < MaxInodes
    /\ inodes' = Append(inodes, NewEntry(Len(inodes), path, TRUE))
    /\ UNCHANGED <<files, disk, opened, last, strayed, synced>>

(* sys_sync writes every inode and ignores failures: those at Failed kept    *)
(* their old sector.                                                         *)
sys_sync(Failed) ==
    /\ disk' = [s \in DOMAIN disk \cup {SyncBase + i : i \in Inodes \ Failed} |->
                   IF s - SyncBase \in Inodes \ Failed THEN Meta(s - SyncBase)
                                                       ELSE disk[s]]
    /\ synced' = IF Failed = {} THEN Len(inodes) ELSE synced
    /\ UNCHANGED <<inodes, files, opened, last, strayed>>

Next ==
    \/ \E path \in Paths, flags \in FlagSets :
          OpenExisting(path, flags) \/ OpenNew(path, flags)
    \/ \E fd \in DOMAIN files : sys_close(fd)
    \/ \E fd \in DOMAIN files, buffer \in Buffers : sys_write(fd, buffer)
    \/ \E fd \in DOMAIN files, offset \in Seeks :
          SeekSet(fd, offset) \/ SeekCur(fd, offset)
    \/ \E path \in Paths : sys_mkdir(path)
    \/ \E Failed \in {{}} \cup {{i} : i \in Inodes} : sys_sync(Failed)

Spec == Init /\ [][Next]_vars

-----------------------------------------------------------------------------
(* Looked up by the very name it was given, each entry of the table is       *)
(* found, and not an older one.                                              *)
EntriesReachable == \A i \in Inodes : FindFile(Inode(i).name) = i

(* However the table grows while a file is open, the path it was opened by   *)
(* keeps leading to the file the descriptor has: a second open of the same   *)
(* path gets the same file.                                                  *)
DescriptorKeepsFile ==
    \A fd \in DOMAIN files : FindFile(opened[fd]) = files[fd].inode

(* find_file: neither an entry nor an open descriptor is ever cut off from   *)
(* its path, although a path is compared as a prefix and cut when stored.    *)
PathsStay == EntriesReachable /\ DescriptorKeepsFile

Holds(sector, content) == sector \in DOMAIN disk /\ disk[sector] = content

(* The fixed layout of the disk, one sector per file from DataBase and one   *)
(* per inode from SyncBase: as long as every write went to the first sector  *)
(* of its file and there are too few inodes for a sync to reach the files,   *)
(* what was last written to each file and the inodes last synced are there.  *)
AreasApart ==
    (~strayed /\ Len(inodes) <= DataBase - SyncBase)
    => /\ \A i \in DOMAIN last : Holds(DataBase + i, last[i])
       /\ \A i \in 0..synced - 1 : Holds(SyncBase + i, Meta(i))
=============================================================================
