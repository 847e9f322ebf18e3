------------------------------ MODULE MCFiles -------------------------------
(***************************************************************************)
(* Model checking of files and programs: Fat32 on three small volumes, Vfs,*)
(* the Vef tools and loader, and the library Stdio of user programs.  They *)
(* share no state and call none of each other: a behaviour drives one of   *)
(* them, chosen at the start.                                              *)
(***************************************************************************)
EXTENDS Fat32, TLC

CONSTANTS BootDirs, Paths, MaxFilename, MaxInodes, MaxOpenFiles,
          SyncBase, DataBase, Sectors, FlagSets, Seeks, Buffers
CONSTANTS CurrentArch, Code, Signature
CONSTANTS IntMax, LongMax, Formats, Inputs, Nums

VARIABLES inodes, open_files, disk, opened, last, strayed, synced
VARIABLES file, pc, memory, win, space
VARIABLES arch, called, format, out, count, input, num, str, dropped, phase
VARIABLE part

V == INSTANCE Vfs WITH files <- open_files
L == INSTANCE Vef
S == INSTANCE Stdio WITH pc <- phase

ASSUME NameAssumption == V!NameAssumption /\ V!BootAssumption
ASSUME DiskAssumption == V!DiskAssumption /\ V!CallAssumption
ASSUME FileAssumption == L!ArchAssumption /\ L!CodeAssumption
ASSUME ProgramAssumption == S!StdioAssumption

vfsVars   == <<inodes, open_files, disk, opened, last, strayed, synced>>
vefVars   == <<file, pc, memory, win, space>>
programVars == <<arch, called, format, out, count, input, num, str, dropped, phase>>
filesVars == <<vars, vfsVars, vefVars, programVars, part>>

-----------------------------------------------------------------------------
(* Fat32: two-byte sectors and two sectors a cluster.                        *)
Entry(name, kind, first, length) ==
    [name |-> name, kind |-> kind, first |-> first, size |-> length]
Hole == Entry("", "end", 0, 0)
Gone == Entry("a", "deleted", 2, 3)
Label == Entry("v", "label", 0, 0)

(* A directory of one cluster with free entries; "a" is a fragmented file of *)
(* three clusters that ends inside the last, "b" one that fills its cluster. *)
Short ==
    [root |-> 2,
     fat |-> (2 :> 98) @@ (3 :> 6) @@ (4 :> 99) @@ (5 :> 99) @@ (6 :> 5),
     dir |-> (2 :> << <<Label, Gone>>,
                      <<Entry("a", "file", 3, 9), Entry("b", "file", 4, 4), Hole>> >>)]

(* A full directory of two clusters that ends with EOC, an empty file.       *)
Full ==
    [root |-> 2,
     fat |-> (2 :> 4) @@ (3 :> 99) @@ (4 :> 99),
     dir |-> (2 :> << <<Entry("c", "file", 0, 0)>>, <<Gone>> >>)
          @@ (4 :> << <<Entry("b", "dir", 3, 0)>>, <<Entry("a", "file", 3, 3)>> >>)]

(* The same with another end mark.                                           *)
FullMarked == [Full EXCEPT !.fat[4] = 92]

MCVolumes == {Short, Full, FullMarked}

(* Vfs: the root directory only and room for two more entries; one path is a *)
(* prefix of the other, which is longer than MaxFilename = 3.  A descriptor  *)
(* with the second set of flags is not for writing.                          *)
MCBootDirs == << <<"/">> >>
MCPaths == {<<"/", "v">>, <<"/", "v", "a", "x">>}
MCFlagSets == {{"WRONLY", "CREAT"}, {"CREAT", "EXCL"}}

(* Vef: a handful of binaries: empty, clean, and with a signature.           *)
MCCode == {<<>>, <<7>>, <<7, 7>>, <<9, 7, 3>>, <<204>>, <<7, 204>>, <<7, 3, 204, 9>>}

(* Stdio: formats with every directive, a stray % and %%; lines ended in     *)
(* every way.                                                                *)
MCFormats == {<<"a", "%", "d">>, <<"%", "x", "%">>, <<"%", "s", "%", "%", "%", "c">>}
MCInputs == {<<"a", "\r", "\n">>, <<"a", "b", "c", "\n", "a">>, <<"nul", "a">>}

-----------------------------------------------------------------------------
FilesInit ==
    /\ part \in {"fat32", "vfs", "vef", "program"}
    /\ Init /\ V!Init /\ L!Init /\ S!StdioInit
    /\ part # "fat32" => vol = Short
    /\ part # "vef" => file = <<>>
    /\ part # "program" => arch = "i386" /\ input = <<"nul", "a">>

FatStep == part = "fat32" /\ Next /\ UNCHANGED <<vfsVars, vefVars, programVars, part>>
VfsStep == part = "vfs" /\ V!Next /\ UNCHANGED <<vars, vefVars, programVars, part>>
VefStep == part = "vef" /\ L!vef_exec /\ UNCHANGED <<vars, vfsVars, programVars, part>>
ProgramStep ==
    part = "program" /\ S!StdioNext /\ UNCHANGED <<vars, vfsVars, vefVars, part>>

FilesNext == FatStep \/ VfsStep \/ VefStep \/ ProgramStep

(* The fairness of Fat32, where a call's loops are run to their end.         *)
FilesSpec == FilesInit /\ [][FilesNext]_filesVars /\ WF_vars(part = "fat32" /\ Step)

(* find_file: see Vfs.                                                       *)
PathsStay == V!PathsStay

(* vfs_write and vfs_sync: see Vfs.                                          *)
AreasApart == V!AreasApart

(* vef_exec and the scan: see Vef.                                           *)
RunsOnlyScanned == L!RunsOnlyScanned

(* vef-pack and vef_exec: see Vef.                                           *)
PackedFileRuns == L!PackedFileRuns

(* printf, valiant_itoa and fgets: see Stdio.                                *)
TextIsRight == S!TextIsRight
=============================================================================
