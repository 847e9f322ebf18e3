---------------------------- MODULE FilesProofs -----------------------------
(***************************************************************************)
(* Proofs about the parts of MCFiles: the program loader, for every set of *)
(* binaries; the virtual file system, for every set of paths, every layout *)
(* of the disk and every size of its tables; the reads and the directory   *)
(* scans of FAT32, for every well-formed volume and every size of its      *)
(* sectors and clusters; and the library of user programs, for every width *)
(* of int and long.                                                        *)
(***************************************************************************)
EXTENDS MCFiles, WellFoundedInduction, TLAPS

(* A behaviour of the composition is one of each part.                       *)
LEMMA FilesParts ==
  FilesSpec => /\ L!Init /\ [][L!vef_exec]_vefVars
               /\ V!Init /\ [][V!Next]_vfsVars
<1>1. FilesInit => L!Init /\ V!Init
  BY DEF FilesInit
<1>2. [FilesNext]_filesVars => [L!vef_exec]_vefVars /\ [V!Next]_vfsVars
  BY DEF FilesNext, FatStep, VfsStep, VefStep, ProgramStep, filesVars
<1> QED BY <1>1, <1>2, PTL DEF FilesSpec

-----------------------------------------------------------------------------
(* A set of numbers has a least one.                                         *)
LEMMA LeastExists ==
  ASSUME NEW M, M \subseteq Nat, M # {} PROVE \E x \in M : \A y \in M : x <= y
<1>1. PICK x \in M : \A y \in M : ~(<<y, x>> \in OpToRel(<, Nat))
  BY WFMin, NatLessThanWellFounded
<1>2. ASSUME NEW y \in M PROVE x <= y
  <2>1. x \in Nat /\ y \in Nat
    OBVIOUS
  <2>2. ~(y < x)
    BY <1>1, <2>1 DEF OpToRel
  <2> QED BY <2>1, <2>2
<1> QED BY <1>2

-----------------------------------------------------------------------------
(* The loader.  Every file it may be given is bytes, and its fields are      *)
(* numbers.                                                                  *)
ByteSeq == Seq(Nat)

LEMMA ConcatIsBytes ==
  ASSUME NEW s, NEW t, NEW r, s \in ByteSeq, t \in ByteSeq, r = s \o t
  PROVE  r \in ByteSeq /\ Len(r) = Len(s) + Len(t)
  BY DEF ByteSeq

LEMMA FieldIsBytes ==
  ASSUME NEW n \in Nat, NEW w \in Nat, w >= 3
  PROVE  L!Field(n, w) \in ByteSeq /\ Len(L!Field(n, w)) = w
<1> DEFINE low == <<n % 256, (n \div 256) % 256, n \div 65536>>
           high == [i \in 1..w - 3 |-> 0]
           field == L!Field(n, w)
<1>1. n % 256 \in Nat /\ (n \div 256) % 256 \in Nat /\ n \div 65536 \in Nat
  BY SMT
<1>2. low \in ByteSeq /\ Len(low) = 3
  BY <1>1, SMT DEF ByteSeq
<1>3. high \in ByteSeq /\ Len(high) = w - 3
  BY DEF ByteSeq
<1>4. field = low \o high
  BY SMT DEF L!Field
<1> HIDE DEF low, high, field
<1>5. field \in ByteSeq /\ Len(field) = Len(low) + Len(high)
  BY <1>2, <1>3, <1>4, ConcatIsBytes
<1>6. Len(field) = w
  BY <1>2, <1>3, <1>5
<1> QED BY <1>5, <1>6 DEF field

(* A header of some kind, and the program behind it.                         *)
LEMMA HeadedIsBytes ==
  ASSUME NEW a \in L!Arch, NEW w \in Nat, w >= 4, NEW n \in Nat, NEW c \in ByteSeq,
         NEW f, f = ((L!Magic \o <<a>>) \o L!Field(L!Entry, w)) \o L!Field(n, w) \o c
  PROVE  f \in ByteSeq /\ Len(f) >= L!HeaderSize
<1> DEFINE head == L!Magic \o <<a>>
           e == L!Field(L!Entry, w)
           z == L!Field(n, w)
           h == head \o e
           g == h \o z
<1>1. head \in ByteSeq /\ Len(head) = 5
  <2> DEFINE m == L!Magic
             l == <<a>>
  <2>1. m \in ByteSeq /\ Len(m) = 4
    BY DEF L!Magic, ByteSeq
  <2>2. l \in ByteSeq /\ Len(l) = 1
    BY DEF L!Arch, ByteSeq
  <2>3. head = m \o l
    OBVIOUS
  <2> HIDE DEF head, m, l
  <2>4. head \in ByteSeq /\ Len(head) = Len(m) + Len(l)
    BY <2>1, <2>2, <2>3, ConcatIsBytes
  <2> QED BY <2>1, <2>2, <2>4
<1>2. L!Entry \in Nat
  BY SMT DEF L!Entry
<1>3. e \in ByteSeq /\ Len(e) = w
  BY <1>2, FieldIsBytes
<1>4. z \in ByteSeq /\ Len(z) = w
  BY FieldIsBytes
<1>5. f = g \o c
  OBVIOUS
<1> HIDE DEF head, e, z
<1>6. h \in ByteSeq /\ Len(h) = Len(head) + Len(e)
  BY <1>1, <1>3, ConcatIsBytes
<1> HIDE DEF h
<1>7. g \in ByteSeq /\ Len(g) = Len(h) + Len(z)
  BY <1>4, <1>6, ConcatIsBytes
<1> HIDE DEF g
<1>8. f \in ByteSeq /\ Len(f) = Len(g) + Len(c)
  BY <1>5, <1>7, ConcatIsBytes
<1>9. Len(c) \in Nat
  BY DEF ByteSeq
<1>10. Len(f) = 5 + w + w + Len(c)
  BY <1>1, <1>3, <1>4, <1>6, <1>7, <1>8, <1>9
<1> QED BY <1>8, <1>9, <1>10 DEF L!HeaderSize

LEMMA WholeFileIsBytes ==
  ASSUME NEW f \in L!WholeFile PROVE f \in ByteSeq /\ Len(f) >= L!HeaderSize
<1>1. ASSUME NEW code \in Code PROVE code \in ByteSeq /\ Len(code) \in Nat
  <2> DEFINE bytes == 0..255
  <2>1. code \in Seq(bytes) /\ bytes \subseteq Nat
    BY FileAssumption DEF L!CodeAssumption
  <2> HIDE DEF bytes
  <2>2. \A i \in 1..Len(code) : code[i] \in bytes
    BY <2>1
  <2>3. \A i \in 1..Len(code) : code[i] \in Nat
    BY <2>1, <2>2
  <2> QED BY <2>1, <2>3 DEF ByteSeq
<1>2. ASSUME NEW a \in L!Arch, NEW code \in Code, f = L!Pack(a, code)
      PROVE  f \in ByteSeq /\ Len(f) >= L!HeaderSize
  <2>1. f = ((L!Magic \o <<a>>) \o L!Field(L!Entry, 8)) \o L!Field(Len(code), 8) \o code
    BY <1>2 DEF L!Pack, L!PackHeader
  <2>2. 8 \in Nat /\ 8 >= 4
    OBVIOUS
  <2> QED BY <1>1, <2>1, <2>2, HeadedIsBytes
<1>3. ASSUME NEW a \in L!Arch, NEW code \in Code, NEW k \in 0..1,
             f = L!LoaderFile(a, Len(code) + k, code)
      PROVE  f \in ByteSeq /\ Len(f) >= L!HeaderSize
  <2> DEFINE n == Len(code) + k
  <2>1. f = ((L!Magic \o <<a>>) \o L!Field(L!Entry, 4)) \o L!Field(n, 4) \o code
    BY <1>3 DEF L!LoaderFile
  <2>2. 4 \in Nat /\ 4 >= 4 /\ n \in Nat
    BY <1>1
  <2> HIDE DEF n
  <2> QED BY <1>1, <2>1, <2>2, HeadedIsBytes
<1> QED BY <1>2, <1>3 DEF L!WholeFile

LEMMA FileIsBytes == ASSUME NEW f \in L!File PROVE f \in ByteSeq
<1>1. ASSUME NEW g \in L!WholeFile, NEW n \in {0, L!HeaderSize - 1, L!HeaderSize}
      PROVE  SubSeq(g, 1, n) \in ByteSeq
  <2>1. g \in ByteSeq /\ n \in Nat /\ n <= Len(g)
    BY WholeFileIsBytes DEF L!HeaderSize, ByteSeq
  <2>2. \A i \in 1..n : g[i] \in Nat
    BY <2>1 DEF ByteSeq
  <2> QED BY <2>1, <2>2 DEF ByteSeq
<1>2. ASSUME NEW g \in L!WholeFile PROVE <<0>> \o Tail(g) \in ByteSeq
  <2>1. g \in ByteSeq /\ g # <<>>
    BY WholeFileIsBytes DEF L!HeaderSize, ByteSeq
  <2>2. Tail(g) \in ByteSeq /\ <<0>> \in ByteSeq
    BY <2>1 DEF ByteSeq
  <2> QED BY <2>2, ConcatIsBytes
<1>3. \A g \in L!WholeFile : g \in ByteSeq
  BY WholeFileIsBytes
<1>4. CASE f \in L!WholeFile
  BY <1>3, <1>4
<1>5. CASE \E g \in L!WholeFile, n \in {0, L!HeaderSize - 1, L!HeaderSize} :
              f = SubSeq(g, 1, n)
  BY <1>1, <1>5, Zenon
<1>6. CASE \E g \in L!WholeFile : f = <<0>> \o Tail(g)
  BY <1>2, <1>6, Zenon
<1> QED BY <1>4, <1>5, <1>6 DEF L!File

(* What is known of the file at each stage of vef_exec, and what it has done *)
(* so far.                                                                   *)
Loaded == pc \in {"map", "ring3"}
LoaderInv ==
    /\ file \in ByteSeq
    /\ pc \in {"header", "arch", "size", "scan", "load", "map", "ring3", "refused"}
    /\ pc \notin {"header", "refused"} => Len(file) >= L!HeaderSize
    /\ pc \notin {"header", "arch", "refused"} => L!FileArch(file) = CurrentArch
    /\ pc = "load" \/ Loaded => L!ScanClean(L!Payload(file))
    /\ IF Loaded THEN memory = L!Payload(file) /\ win = "running"
                 ELSE memory = <<>> /\ win # "running"
    /\ space = "user" <=> pc = "ring3"
    /\ space \in {"kernel", "user"}

LEMMA LoaderInvInit == L!Init => LoaderInv
  BY FileIsBytes DEF L!Init, LoaderInv, Loaded

(* A whole header has a size, and the copy of Load is the scanned payload.   *)
LEMMA SizeIsNat ==
  ASSUME file \in ByteSeq, Len(file) >= L!HeaderSize
  PROVE  L!TextSize(file) \in Nat
<1>1. file[10] \in Nat /\ file[10 + 1] \in Nat /\ file[10 + 2] \in Nat
  <2>1. file \in Seq(Nat) /\ Len(file) \in Nat /\ Len(file) >= 13
    BY DEF L!HeaderSize, ByteSeq
  <2>2. 10 \in 1..Len(file) /\ 10 + 1 \in 1..Len(file) /\ 10 + 2 \in 1..Len(file)
    BY <2>1
  <2>3. \A i \in 1..Len(file) : file[i] \in Nat
    BY <2>1
  <2> QED BY <2>2, <2>3
<1>2. PICK a \in Nat, b \in Nat, c \in Nat :
             file[10] = a /\ file[10 + 1] = b /\ file[10 + 2] = c
  BY <1>1
<1>3. L!TextSize(file) = a + 256 * b + 65536 * c
  BY <1>2 DEF L!TextSize, L!Word32
<1> QED BY <1>3

LEMMA CopyIsPayload ==
  ASSUME file \in ByteSeq, Len(file) >= L!HeaderSize
  PROVE  /\ [i \in 1..L!TextSize(file) |-> file[L!HeaderSize + i]] = L!Payload(file)
         /\ Len(L!Payload(file)) = L!TextSize(file)
<1> DEFINE n == L!TextSize(file)
<1>1. n \in Nat
  BY SizeIsNat
<1> HIDE DEF n
<1>2. SubSeq(file, 13 + 1, 13 + n) = [i \in 1..n |-> file[13 + i]]
  <2>1. 13 + n - (13 + 1) + 1 = n
    BY <1>1
  <2>2. \A i \in 1..n : (13 + 1) + i - 1 = 13 + i
    BY <1>1
  <2> QED BY <1>1, <2>1, <2>2
<1>3. Len(SubSeq(file, 13 + 1, 13 + n)) = n
  BY <1>1, <1>2
<1> QED BY <1>2, <1>3 DEF L!Payload, L!HeaderSize, n

LEMMA LoaderInvStep == LoaderInv /\ [L!vef_exec]_vefVars => LoaderInv'
<1> SUFFICES ASSUME LoaderInv, [L!vef_exec]_vefVars PROVE LoaderInv'
  OBVIOUS
<1> USE DEF LoaderInv, Loaded
<1>1. CASE L!CheckHeader
  BY <1>1 DEF L!CheckHeader, L!Refuse, L!Proceed
<1>2. CASE L!CheckArch
  BY <1>2 DEF L!CheckArch, L!Refuse, L!Proceed
<1>3. CASE L!CheckSize
  BY <1>3 DEF L!CheckSize, L!Refuse, L!Proceed
<1>4. CASE L!Scan
  BY <1>4 DEF L!Scan, L!Refuse, L!Proceed
<1>5. CASE L!Load
  <2>1. Len(file) >= L!HeaderSize /\ L!FileArch(file) = CurrentArch
        /\ L!ScanClean(L!Payload(file))
    BY <1>5 DEF L!Load
  <2>2. memory' = L!Payload(file)
    BY <1>5, <2>1, CopyIsPayload DEF L!Load
  <2>3. file' = file /\ pc' = "map" /\ win' = "running" /\ space' = space
    BY <1>5 DEF L!Load
  <2>4. space = "kernel"
    BY <1>5 DEF L!Load
  <2> QED BY <2>1, <2>2, <2>3, <2>4
<1>6. CASE L!EnterUser
  BY <1>6 DEF L!EnterUser
<1>7. CASE UNCHANGED vefVars
  BY <1>7 DEF vefVars
<1> QED BY <1>1, <1>2, <1>3, <1>4, <1>5, <1>6, <1>7 DEF L!vef_exec

(* What vef_exec knows of its file grows from check to check.                *)
THEOREM LoaderInvariant == FilesSpec => []LoaderInv
  BY LoaderInvInit, LoaderInvStep, FilesParts, PTL

(* vef_exec: whatever the file, what runs in ring 3 is what was scanned, and *)
(* a refused file leaves memory and the address space alone.                 *)
THEOREM ScannedCorrect == FilesSpec => []RunsOnlyScanned
<1>1. LoaderInv => RunsOnlyScanned
  <2> SUFFICES ASSUME LoaderInv PROVE L!RunsOnlyScanned
    BY DEF RunsOnlyScanned
  <2>1. CASE Loaded
    <3>1. Len(L!Payload(file)) = L!TextSize(file)
      BY <2>1, CopyIsPayload DEF LoaderInv, Loaded
    <3> QED BY <2>1, <3>1 DEF LoaderInv, Loaded, L!RunsOnlyScanned
  <2>2. CASE ~Loaded
    BY <2>2 DEF LoaderInv, Loaded, L!RunsOnlyScanned
  <2> QED BY <2>1, <2>2
<1> QED BY <1>1, LoaderInvariant, PTL
-----------------------------------------------------------------------------
(* The virtual file system.  A name in the table is cut already.             *)
LEMMA CutTwice ==
  ASSUME NEW C, NEW path \in Seq(C)
  PROVE  /\ V!Cut(path) \in Seq(C) /\ V!Cut(V!Cut(path)) = V!Cut(path)
         /\ V!IsPrefix(V!Cut(path), V!Cut(path))
<1> DEFINE n(p) == IF Len(p) < MaxFilename THEN Len(p) ELSE MaxFilename
           cut == SubSeq(path, 1, n(path))
<1>1. MaxFilename \in Nat /\ Len(path) \in Nat
  BY NameAssumption DEF V!NameAssumption
<1>2. n(path) \in Nat /\ n(path) <= Len(path) /\ n(path) <= MaxFilename
  BY <1>1
<1>3. cut \in Seq(C) /\ Len(cut) = n(path)
  <2> HIDE DEF n
  <2> QED BY <1>2
<1>4. V!Cut(path) = cut
  BY DEF V!Cut
<1>5. V!Cut(cut) = SubSeq(cut, 1, n(cut))
  BY DEF V!Cut
<1>6. n(cut) = Len(cut)
  <2> HIDE DEF cut
  <2> QED BY <1>1, <1>2, <1>3
<1> HIDE DEF cut, n
<1>7. SubSeq(cut, 1, Len(cut)) = cut
  BY <1>3
<1>8. Len(cut) <= Len(cut)
  BY <1>2, <1>3
<1> QED BY <1>3, <1>4, <1>5, <1>6, <1>7, <1>8 DEF V!IsPrefix

Path == Paths \cup V!Range(BootDirs)

LEMMA PathIsCut ==
  ASSUME NEW path \in Path
  PROVE  /\ V!Cut(path) \in V!Name
         /\ V!Cut(V!Cut(path)) = V!Cut(path) /\ V!IsPrefix(V!Cut(path), V!Cut(path))
<1>1. path \in Seq(V!Range(path))
  BY NameAssumption DEF V!NameAssumption, Path
<1> QED BY <1>1, CutTwice DEF V!Name, Path

LEMMA NameIsCut ==
  ASSUME NEW name \in V!Name PROVE V!Cut(name) = name /\ V!IsPrefix(name, name)
<1>1. PICK path \in Path : name = V!Cut(path)
  BY DEF V!Name, Path
<1> QED BY <1>1, PathIsCut

(* find_file stops at the first match.                                       *)
First(path, i) == i \in V!Matches(path) /\ \A j \in V!Matches(path) : i <= j

LEMMA FirstIsFound ==
  ASSUME Len(inodes) \in Nat, NEW path, NEW i, First(path, i)
  PROVE  V!FindFile(path) = i /\ V!Exists(path) /\ i \in V!Inodes
<1> DEFINE M == V!Matches(path)
<1>1. M \subseteq V!Inodes /\ V!Inodes \subseteq Int
  BY DEF V!Matches, V!Inodes
<1>2. i \in M /\ \A j \in M : i <= j
  BY DEF First
<1> HIDE DEF M
<1>3. ASSUME NEW x \in M, \A y \in M : x <= y PROVE x = i
  BY <1>1, <1>2, <1>3
<1>4. V!Min(M) \in M /\ \A y \in M : V!Min(M) <= y
  BY <1>2 DEF V!Min
<1>5. V!Min(M) = i
  BY <1>3, <1>4
<1> QED BY <1>1, <1>2, <1>5 DEF V!FindFile, V!Exists, M

LEMMA FoundIsFirst ==
  ASSUME Len(inodes) \in Nat, NEW path, V!Exists(path)
  PROVE  First(path, V!FindFile(path))
<1> DEFINE M == V!Matches(path)
<1>1. M \subseteq Nat /\ M # {}
  BY DEF V!Matches, V!Inodes, V!Exists
<1> HIDE DEF M
<1>2. PICK x \in M : \A y \in M : x <= y
  BY <1>1, LeastExists
<1>3. V!Min(M) \in M /\ \A y \in M : V!Min(M) <= y
  BY <1>2 DEF V!Min
<1> QED BY <1>3 DEF First, V!FindFile, M

(* An entry never gets in the way of an older one: a table that has grown    *)
(* finds what it found before, and a new name where it was put.              *)
Grown(path, is_dir) ==
    inodes' = Append(inodes, V!NewEntry(Len(inodes), path, is_dir))

LEMMA GrownTable ==
  ASSUME NEW C, inodes \in Seq(C), NEW path, NEW is_dir, Grown(path, is_dir),
         NEW n, n = Len(inodes)
  PROVE  /\ n \in Nat /\ Len(inodes') = n + 1
         /\ V!Inodes' = V!Inodes \cup {n}
         /\ \A i \in V!Inodes : V!Inode(i)' = V!Inode(i)
         /\ V!Inode(n)' = V!NewEntry(n, path, is_dir)
<1> DEFINE new == V!NewEntry(n, path, is_dir)
<1>1. n \in Nat /\ inodes' = Append(inodes, new)
  BY DEF Grown
<1> HIDE DEF new
<1>2. /\ Len(inodes') = n + 1
      /\ \A k \in 1..n : inodes'[k] = inodes[k]
      /\ inodes'[n + 1] = new
  BY <1>1
<1>3. 0..n + 1 - 1 = (0..n - 1) \cup {n}
  BY <1>1
<1>4. V!Inodes' = V!Inodes \cup {n}
  BY <1>2, <1>3 DEF V!Inodes
<1>5. ASSUME NEW i \in V!Inodes PROVE V!Inode(i)' = V!Inode(i)
  <2>1. i + 1 \in 1..n
    BY <1>1 DEF V!Inodes
  <2> QED BY <1>2, <2>1 DEF V!Inode
<1>6. V!Inode(n)' = new
  BY <1>2 DEF V!Inode
<1> QED BY <1>1, <1>2, <1>4, <1>5, <1>6 DEF new

LEMMA GrownKeepsFirst ==
  ASSUME NEW C, inodes \in Seq(C), NEW path, NEW is_dir, Grown(path, is_dir),
         NEW p, NEW i, First(p, i)
  PROVE  First(p, i)'
<1>1. \A j \in V!Inodes : j \in V!Matches(p)' <=> j \in V!Matches(p)
  BY GrownTable DEF V!Matches
<1>2. i \in V!Inodes /\ Len(inodes) \in Nat
  BY GrownTable DEF First, V!Matches
<1>3. i <= Len(inodes)
  BY <1>2 DEF V!Inodes
<1>4. \A j \in V!Matches(p)' : j \in V!Inodes \/ j = Len(inodes)
  BY GrownTable DEF V!Matches
<1>5. i \in V!Matches(p)'
  BY <1>1, <1>2 DEF First
<1>6. \A j \in V!Matches(p)' : i <= j
  BY <1>1, <1>3, <1>4 DEF First
<1> QED BY <1>5, <1>6 DEF First

LEMMA GrownHasNew ==
  ASSUME NEW C, inodes \in Seq(C), NEW path, NEW is_dir, Grown(path, is_dir),
         NEW n, n = Len(inodes), ~V!Exists(path), NEW p, V!Cut(p) = V!Cut(path),
         V!IsPrefix(V!Cut(path), V!Cut(path))
  PROVE  First(p, n)'
<1>1. V!Matches(path) = {}
  BY DEF V!Exists
<1>2. V!Matches(p) = {}
  BY <1>1 DEF V!Matches
<1>3. \A j \in V!Inodes : j \notin V!Matches(p)'
  BY <1>2, GrownTable DEF V!Matches
<1>4. n \in V!Inodes' /\ V!Inode(n)'.name = V!Cut(path) /\ n \in Nat
  BY GrownTable DEF V!NewEntry
<1>5. n \in V!Matches(p)'
  BY <1>4 DEF V!Matches
<1>6. \A j \in V!Matches(p)' : j = n
  BY <1>3, GrownTable DEF V!Matches
<1>7. n <= n
  BY <1>4
<1> QED BY <1>5, <1>6, <1>7 DEF First

(* Every entry is the first match of its name and has the sector of its      *)
(* number; every descriptor has the first match of the path it was opened by.*)
TableInv ==
    /\ inodes \in Seq(V!InodeType) /\ Len(inodes) <= MaxInodes
    /\ \A i \in V!Inodes : /\ V!Inode(i).start_block = DataBase + i
                           /\ First(V!Inode(i).name, i)

DescriptorInv ==
    /\ DOMAIN opened = DOMAIN open_files
    /\ \A fd \in DOMAIN open_files : First(opened[fd], open_files[fd].inode)

LEMMA TableInvInit == V!Init => TableInv
<1> SUFFICES ASSUME V!Init PROVE TableInv
  OBVIOUS
<1> DEFINE n == Len(BootDirs)
<1>1. /\ n \in Nat /\ n <= MaxInodes /\ MaxInodes \in Nat /\ DOMAIN BootDirs = 1..n
      /\ \A k \in 1..n : BootDirs[k] \in V!Range(BootDirs)
  <2>1. BootDirs \in Seq(V!Range(BootDirs)) /\ Len(BootDirs) <= MaxInodes
        /\ MaxInodes \in Nat
    BY NameAssumption DEF V!NameAssumption
  <2> QED BY <2>1
<1>2. inodes = [k \in 1..n |-> V!NewEntry(k - 1, BootDirs[k], TRUE)]
  BY <1>1 DEF V!Init
<1> HIDE DEF n
<1>3. \A k \in 1..n : BootDirs[k] \in Path
  BY <1>1 DEF Path
<1>4. ASSUME NEW k \in 1..n PROVE V!NewEntry(k - 1, BootDirs[k], TRUE) \in V!InodeType
  <2>1. DataBase + (k - 1) \in DataBase..DataBase + MaxInodes
    BY <1>1, DiskAssumption DEF V!DiskAssumption
  <2>2. V!Cut(BootDirs[k]) \in V!Name
    BY <1>3, PathIsCut
  <2> QED BY <2>1, <2>2 DEF V!NewEntry, V!InodeType
<1>5. inodes \in Seq(V!InodeType) /\ Len(inodes) = n
  <2> DEFINE entry(k) == V!NewEntry(k - 1, BootDirs[k], TRUE)
             type == V!InodeType
  <2>1. inodes = [k \in 1..n |-> entry(k)] /\ \A k \in 1..n : entry(k) \in type
    BY <1>2, <1>4
  <2> HIDE DEF entry, type
  <2>2. inodes \in Seq(type) /\ Len(inodes) = n
    BY <1>1, <2>1
  <2> QED BY <2>2 DEF type
<1>6. ASSUME NEW i \in V!Inodes
      PROVE  /\ V!Inode(i) = V!NewEntry(i, BootDirs[i + 1], TRUE)
             /\ i + 1 \in 1..n /\ i \in Nat
  <2>1. i + 1 \in 1..n /\ i \in Nat /\ i + 1 - 1 = i
    BY <1>1, <1>5 DEF V!Inodes
  <2>2. V!Inode(i) = V!NewEntry(i + 1 - 1, BootDirs[i + 1], TRUE)
    BY <1>2, <2>1 DEF V!Inode
  <2> QED BY <2>1, <2>2
<1>7. ASSUME NEW i \in V!Inodes PROVE First(V!Inode(i).name, i)
  <2> DEFINE path == BootDirs[i + 1]
  <2>1. path \in Path /\ V!Inode(i).name = V!Cut(path)
    BY <1>3, <1>6 DEF V!NewEntry
  <2>2. V!Cut(V!Cut(path)) = V!Cut(path) /\ V!IsPrefix(V!Cut(path), V!Cut(path))
    BY <2>1, PathIsCut
  <2>3. i \in V!Matches(V!Cut(path))
    BY <2>1, <2>2 DEF V!Matches
  <2>4. ASSUME NEW j \in V!Matches(V!Cut(path)) PROVE i <= j
    <3>1. j \in V!Inodes /\ V!IsPrefix(V!Cut(path), V!Inode(j).name)
      BY <2>2 DEF V!Matches
    <3>2. V!Inode(j).name = V!Cut(BootDirs[j + 1])
      BY <1>6, <3>1 DEF V!NewEntry
    <3>3. i \in Nat /\ j \in Nat /\ i + 1 \in DOMAIN BootDirs /\ j + 1 \in DOMAIN BootDirs
      BY <1>1, <1>6, <3>1
    <3>4. ~(j + 1 < i + 1)
      BY <3>1, <3>2, <3>3, NameAssumption DEF V!BootAssumption
    <3> QED BY <3>3, <3>4
  <2> QED BY <2>1, <2>3, <2>4 DEF First
<1>8. \A i \in V!Inodes : V!Inode(i).start_block = DataBase + i
  BY <1>6 DEF V!NewEntry
<1> QED BY <1>1, <1>5, <1>7, <1>8 DEF TableInv

LEMMA DescriptorInvInit == V!Init => DescriptorInv
  BY DEF V!Init, DescriptorInv

(* What a new entry does to the table.                                       *)
LEMMA GrownInv ==
  ASSUME TableInv, NEW path \in Paths, NEW is_dir \in BOOLEAN, Grown(path, is_dir),
         ~V!Exists(path), Len(inodes) < MaxInodes
  PROVE  TableInv'
<1> DEFINE n == Len(inodes)
           new == V!NewEntry(n, path, is_dir)
<1>1. inodes \in Seq(V!InodeType) /\ n \in Nat /\ n < MaxInodes /\ MaxInodes \in Nat
  BY NameAssumption DEF TableInv, V!NameAssumption
<1>2. path \in Path
  BY DEF Path
<1>3. new \in V!InodeType
  <2>1. DataBase + n \in DataBase..DataBase + MaxInodes
    BY <1>1, DiskAssumption DEF V!DiskAssumption
  <2>2. V!Cut(path) \in V!Name
    BY <1>2, PathIsCut
  <2> QED BY <2>1, <2>2 DEF V!NewEntry, V!InodeType
<1>4. inodes' = Append(inodes, new)
  BY DEF Grown
<1> HIDE DEF new
<1>5. inodes' \in Seq(V!InodeType) /\ Len(inodes') <= MaxInodes
  BY <1>1, <1>3, <1>4
<1>6. PICK m : m = Len(inodes)
  OBVIOUS
<1>7. V!Inodes' = V!Inodes \cup {m} /\ V!Inode(m)' = V!NewEntry(m, path, is_dir)
      /\ \A i \in V!Inodes : V!Inode(i)' = V!Inode(i)
  BY <1>1, <1>6, GrownTable
<1>8. ASSUME NEW i \in V!Inodes'
      PROVE  V!Inode(i)'.start_block = DataBase + i /\ First(V!Inode(i).name, i)'
  <2>1. CASE i \in V!Inodes
    <3>1. First(V!Inode(i).name, i) /\ V!Inode(i)' = V!Inode(i)
          /\ V!Inode(i).start_block = DataBase + i
      BY <1>7, <2>1 DEF TableInv
    <3>2. PICK name : name = V!Inode(i).name
      OBVIOUS
    <3>3. First(name, i)'
      BY <1>1, <3>1, <3>2, GrownKeepsFirst
    <3>4. V!Inode(i)'.name = name
      BY <3>1, <3>2
    <3> QED BY <3>1, <3>3, <3>4 DEF First, V!Matches
  <2>2. CASE i = m
    <3>1. V!Cut(V!Cut(path)) = V!Cut(path) /\ V!IsPrefix(V!Cut(path), V!Cut(path))
      BY <1>2, PathIsCut
    <3>2. First(V!Cut(path), i)'
      BY <1>1, <1>6, <2>2, <3>1, GrownHasNew
    <3>3. V!Inode(i)' = V!NewEntry(i, path, is_dir)
      BY <1>7, <2>2
    <3>4. V!Inode(i)'.name = V!Cut(path) /\ V!Inode(i)'.start_block = DataBase + i
      BY <3>3 DEF V!NewEntry
    <3> QED BY <3>2, <3>4 DEF First, V!Matches
  <2> QED BY <1>7, <2>1, <2>2
<1> QED BY <1>5, <1>8 DEF TableInv

LEMMA TableInvStep == TableInv /\ [V!Next]_vfsVars => TableInv'
<1> SUFFICES ASSUME TableInv, [V!Next]_vfsVars PROVE TableInv'
  OBVIOUS
<1>1. CASE UNCHANGED inodes
  BY <1>1 DEF TableInv, First, V!Matches, V!Inodes, V!Inode
<1>2. ASSUME NEW path \in Paths, NEW flags \in FlagSets, V!OpenNew(path, flags)
      PROVE  TableInv'
  BY <1>2, GrownInv DEF V!OpenNew, Grown
<1>3. ASSUME NEW path \in Paths, V!sys_mkdir(path) PROVE TableInv'
  BY <1>3, GrownInv DEF V!sys_mkdir, Grown
<1> QED BY <1>1, <1>2, <1>3 DEF V!Next, V!OpenExisting, V!sys_close, V!sys_write,
     V!sys_lseek, V!SeekSet, V!SeekCur, V!sys_sync, vfsVars

(* A descriptor taken for the first match of its path.                       *)
LEMMA TakenInv ==
  ASSUME DescriptorInv, NEW path, NEW i, NEW flags,
         V!TakeDescriptor(path, i, flags), First(path, i)',
         \A p, j : First(p, j) => First(p, j)'
  PROVE  DescriptorInv'
<1>1. CASE V!FreeFds = {}
  BY <1>1 DEF V!TakeDescriptor, DescriptorInv
<1>2. CASE V!FreeFds # {}
  <2> DEFINE new == V!Min(V!FreeFds)
  <2>1. /\ open_files' = V!Extend(open_files, new, V!File(i, flags))
        /\ opened' = V!Extend(opened, new, path)
    BY <1>2 DEF V!TakeDescriptor
  <2>2. V!File(i, flags).inode = i
    BY DEF V!File
  <2> HIDE DEF new
  <2>3. /\ DOMAIN open_files' = DOMAIN open_files \cup {new}
        /\ DOMAIN opened' = DOMAIN opened \cup {new}
    BY <2>1 DEF V!Extend
  <2>4. ASSUME NEW fd \in DOMAIN open_files'
        PROVE  First(opened[fd], open_files[fd].inode)'
    <3>1. CASE fd = new
      <4>1. opened'[fd] = path /\ open_files'[fd].inode = i
        BY <2>1, <2>2, <3>1 DEF V!Extend
      <4> QED BY <4>1 DEF First, V!Matches
    <3>2. CASE fd # new
      <4>1. PICK p, j : p = opened[fd] /\ j = open_files[fd].inode
        OBVIOUS
      <4>2. fd \in DOMAIN open_files /\ fd \in DOMAIN opened
        BY <2>3, <3>2 DEF DescriptorInv
      <4>3. opened'[fd] = p /\ open_files'[fd].inode = j
        BY <2>1, <3>2, <4>1, <4>2 DEF V!Extend
      <4>4. First(p, j)'
        BY <4>1, <4>2 DEF DescriptorInv
      <4> QED BY <4>3, <4>4 DEF First, V!Matches
    <3> QED BY <3>1, <3>2
  <2> QED BY <2>3, <2>4 DEF DescriptorInv
<1> QED BY <1>1, <1>2

LEMMA DescriptorInvStep ==
  TableInv /\ DescriptorInv /\ [V!Next]_vfsVars => DescriptorInv'
<1> SUFFICES ASSUME TableInv, DescriptorInv, [V!Next]_vfsVars PROVE DescriptorInv'
  OBVIOUS
<1>1. inodes \in Seq(V!InodeType) /\ Len(inodes) \in Nat
  BY DEF TableInv
<1>2. ASSUME UNCHANGED inodes, NEW p, NEW j, First(p, j) PROVE First(p, j)'
  BY <1>2 DEF First, V!Matches, V!Inodes, V!Inode
<1>3. ASSUME NEW path, NEW is_dir, Grown(path, is_dir), NEW p, NEW j, First(p, j)
      PROVE  First(p, j)'
  BY <1>1, <1>3, GrownKeepsFirst
<1>4. ASSUME UNCHANGED opened, DOMAIN open_files' = DOMAIN open_files,
             \A fd \in DOMAIN open_files : open_files'[fd].inode = open_files[fd].inode,
             \A p, j : First(p, j) => First(p, j)'
      PROVE  DescriptorInv'
  <2>1. ASSUME NEW fd \in DOMAIN open_files'
        PROVE  First(opened[fd], open_files[fd].inode)'
    <3>1. PICK p, j : p = opened[fd] /\ j = open_files[fd].inode
      OBVIOUS
    <3>2. First(p, j)'
      BY <1>4, <3>1 DEF DescriptorInv
    <3>3. opened'[fd] = p /\ open_files'[fd].inode = j
      BY <1>4, <3>1
    <3> QED BY <3>2, <3>3 DEF First, V!Matches
  <2> QED BY <1>4, <2>1 DEF DescriptorInv
<1>5. ASSUME NEW path \in Paths, NEW flags \in FlagSets, V!OpenExisting(path, flags)
      PROVE  DescriptorInv'
  <2>1. PICK i : i = V!FindFile(path)
    OBVIOUS
  <2>2. First(path, i) /\ UNCHANGED inodes /\ V!TakeDescriptor(path, i, flags)
    BY <1>1, <1>5, <2>1, FoundIsFirst DEF V!OpenExisting
  <2>3. First(path, i)'
    BY <1>2, <2>2
  <2> QED BY <1>2, <2>2, <2>3, TakenInv
<1>6. ASSUME NEW path \in Paths, NEW flags \in FlagSets, V!OpenNew(path, flags)
      PROVE  DescriptorInv'
  <2>1. PICK n : n = Len(inodes)
    OBVIOUS
  <2>2. Grown(path, FALSE) /\ ~V!Exists(path) /\ V!TakeDescriptor(path, n, flags)
    BY <1>6, <2>1 DEF V!OpenNew, Grown
  <2>3. V!IsPrefix(V!Cut(path), V!Cut(path))
    BY PathIsCut DEF Path
  <2>4. First(path, n)'
    BY <1>1, <2>1, <2>2, <2>3, GrownHasNew
  <2>5. \A p, j : First(p, j) => First(p, j)'
    BY <1>3, <2>2
  <2> QED BY <2>2, <2>4, <2>5, TakenInv
<1>7. ASSUME NEW fd \in DOMAIN open_files, V!sys_close(fd) PROVE DescriptorInv'
  <2>1. /\ DOMAIN open_files' = DOMAIN open_files \ {fd}
        /\ DOMAIN opened' = DOMAIN opened \ {fd}
        /\ \A x \in DOMAIN open_files \ {fd} : open_files'[x] = open_files[x]
        /\ \A x \in DOMAIN opened \ {fd} : opened'[x] = opened[x]
        /\ UNCHANGED inodes
    BY <1>7 DEF V!sys_close, V!Forget
  <2>2. ASSUME NEW x \in DOMAIN open_files'
        PROVE  First(opened[x], open_files[x].inode)'
    <3>1. PICK p, j : p = opened[x] /\ j = open_files[x].inode
      OBVIOUS
    <3>2. x \in DOMAIN open_files /\ First(p, j)
      BY <2>1, <3>1 DEF DescriptorInv
    <3>3. opened'[x] = p /\ open_files'[x].inode = j
      BY <2>1, <3>1, <3>2 DEF DescriptorInv
    <3>4. First(p, j)'
      BY <1>2, <2>1, <3>2
    <3> QED BY <3>3, <3>4 DEF First, V!Matches
  <2> QED BY <2>1, <2>2 DEF DescriptorInv
<1>8. ASSUME NEW fd \in DOMAIN open_files, NEW pos,
             open_files' = [open_files EXCEPT ![fd].pos = pos],
             UNCHANGED <<inodes, opened>>
      PROVE  DescriptorInv'
  <2>1. DOMAIN open_files' = DOMAIN open_files
    BY <1>8
  <2>2. \A x \in DOMAIN open_files : open_files'[x].inode = open_files[x].inode
    BY <1>8
  <2> QED BY <1>2, <1>4, <1>8, <2>1, <2>2
<1>9. ASSUME NEW fd \in DOMAIN open_files, NEW buffer \in Buffers,
             V!sys_write(fd, buffer)
      PROVE  DescriptorInv'
  BY <1>8, <1>9 DEF V!sys_write
<1>10. ASSUME NEW fd \in DOMAIN open_files, NEW offset \in Seeks,
              V!SeekSet(fd, offset) \/ V!SeekCur(fd, offset)
       PROVE  DescriptorInv'
  BY <1>8, <1>10 DEF V!SeekSet, V!SeekCur, V!sys_lseek
<1>11. ASSUME NEW path \in Paths, V!sys_mkdir(path) PROVE DescriptorInv'
  <2>1. Grown(path, TRUE) /\ UNCHANGED <<open_files, opened>>
    BY <1>11 DEF V!sys_mkdir, Grown
  <2> QED BY <1>3, <1>4, <2>1
<1>12. CASE UNCHANGED <<inodes, open_files, opened>>
  BY <1>2, <1>4, <1>12
<1> QED BY <1>5, <1>6, <1>7, <1>9, <1>10, <1>11, <1>12 DEF V!Next, V!sys_sync, vfsVars

(* TableInv and DescriptorInv hold after any sequence of the VFS's calls.    *)
THEOREM VfsInvariant == FilesSpec => [](TableInv /\ DescriptorInv)
  BY TableInvInit, DescriptorInvInit, TableInvStep, DescriptorInvStep, FilesParts, PTL

(* find_file: whatever the paths, although a path is compared as a prefix    *)
(* and cut when stored, neither an entry nor an open descriptor is ever cut  *)
(* off from its path by an entry that is added.                              *)
THEOREM PathsCorrect == FilesSpec => []PathsStay
<1>1. TableInv /\ DescriptorInv => PathsStay
  <2> SUFFICES ASSUME TableInv, DescriptorInv PROVE V!PathsStay
    BY DEF PathsStay
  <2>1. Len(inodes) \in Nat
    BY DEF TableInv
  <2>2. V!EntriesReachable
    BY <2>1, FirstIsFound DEF TableInv, V!EntriesReachable
  <2>3. V!DescriptorKeepsFile
    BY <2>1, FirstIsFound DEF DescriptorInv, V!DescriptorKeepsFile
  <2> QED BY <2>2, <2>3 DEF V!PathsStay
<1> QED BY <1>1, VfsInvariant, PTL

-----------------------------------------------------------------------------
(* The layout of the disk: no write to the first sector of a file and no     *)
(* sync spoils another file or another inode.                                *)
LayoutInv ==
    /\ synced \in Nat /\ synced <= Len(inodes)
    /\ DOMAIN last \subseteq V!Inodes
    /\ V!AreasApart

LEMMA LayoutInvInit == V!Init /\ TableInv => LayoutInv
<1> SUFFICES ASSUME V!Init, TableInv PROVE LayoutInv
  OBVIOUS
<1>1. synced = 0 /\ DOMAIN last = {} /\ Len(inodes) \in Nat
  BY DEF V!Init, TableInv
<1>2. 0..synced - 1 = {}
  BY <1>1
<1> QED BY <1>1, <1>2 DEF LayoutInv, V!AreasApart

(* The first sector of a file is in its place.                               *)
LEMMA FirstSector ==
  ASSUME TableInv, DescriptorInv, NEW fd \in DOMAIN open_files,
         open_files[fd].pos = 0
  PROVE  /\ open_files[fd].inode \in V!Inodes
         /\ V!SectorOf(fd) = DataBase + open_files[fd].inode
<1> DEFINE i == open_files[fd].inode
           s == DataBase + i
<1>1. i \in V!Inodes /\ V!Inode(i).start_block = s
  BY DEF DescriptorInv, TableInv, First, V!Matches
<1>2. V!SectorOf(fd) = (s + 0) % Sectors
  BY <1>1 DEF V!SectorOf
<1>3. /\ DataBase \in Nat /\ Sectors \in Nat /\ DataBase + MaxInodes <= Sectors
      /\ MaxInodes \in Nat /\ Len(inodes) \in Nat /\ Len(inodes) <= MaxInodes
  BY NameAssumption, DiskAssumption DEF V!NameAssumption, V!DiskAssumption, TableInv
<1>4. i \in Nat /\ i < Len(inodes)
  BY <1>1, <1>3 DEF V!Inodes
<1> HIDE DEF i
<1>5. s \in 0..Sectors - 1
  BY <1>3, <1>4
<1> HIDE DEF s
<1>6. (s + 0) % Sectors = s
  BY <1>3, <1>5
<1> QED BY <1>1, <1>2, <1>6 DEF i, s

LEMMA WriteKeepsLayout ==
  ASSUME TableInv, DescriptorInv, LayoutInv, NEW fd \in DOMAIN open_files,
         NEW buffer, V!sys_write(fd, buffer)
  PROVE  LayoutInv'
<1>1. UNCHANGED <<inodes, synced>>
  BY DEF V!sys_write
<1>2. /\ SyncBase \in Nat /\ DataBase \in Nat /\ SyncBase < DataBase
      /\ Len(inodes) \in Nat /\ synced \in Nat /\ synced <= Len(inodes)
  BY DiskAssumption DEF V!DiskAssumption, TableInv, LayoutInv
<1>3. CASE open_files[fd].pos # 0
  <2>1. strayed' = TRUE /\ last' = last
    BY <1>3 DEF V!sys_write
  <2> QED BY <1>1, <2>1 DEF LayoutInv, V!AreasApart, V!Inodes
<1>4. CASE open_files[fd].pos = 0
  <2> DEFINE i == open_files[fd].inode
  <2>1. i \in V!Inodes /\ V!SectorOf(fd) = DataBase + i
    BY <1>4, FirstSector
  <2>2. /\ disk' = V!Extend(disk, DataBase + i, buffer)
        /\ last' = V!Extend(last, i, buffer) /\ strayed' = strayed
    BY <1>4, <2>1 DEF V!sys_write
  <2>3. i \in Nat
    BY <1>2, <2>1 DEF V!Inodes
  <2> HIDE DEF i
  <2>4. DOMAIN last' = DOMAIN last \cup {i} /\ DOMAIN last \subseteq V!Inodes
    BY <2>2 DEF V!Extend, LayoutInv
  <2>5. ASSUME NEW s, NEW c, V!Holds(s, c), s # DataBase + i PROVE V!Holds(s, c)'
    BY <2>2, <2>5 DEF V!Holds, V!Extend
  <2>6. ASSUME ~strayed', Len(inodes') <= DataBase - SyncBase, NEW j \in DOMAIN last'
        PROVE  V!Holds(DataBase + j, last[j])'
    <3>1. CASE j = i
      BY <2>2, <3>1 DEF V!Holds, V!Extend
    <3>2. CASE j # i
      <4>1. j \in DOMAIN last /\ j \in Nat /\ last'[j] = last[j]
        BY <1>2, <2>2, <2>4, <3>2 DEF V!Extend, V!Inodes
      <4>2. PICK c : c = last[j]
        OBVIOUS
      <4>3. V!Holds(DataBase + j, c)
        BY <1>1, <2>2, <2>6, <4>1, <4>2 DEF LayoutInv, V!AreasApart
      <4>4. DataBase + j # DataBase + i
        BY <1>2, <2>3, <3>2, <4>1
      <4>5. V!Holds(DataBase + j, c)'
        BY <2>5, <4>3, <4>4
      <4> QED BY <4>1, <4>2, <4>5 DEF V!Holds
    <3> QED BY <3>1, <3>2
  <2>7. ASSUME ~strayed', Len(inodes') <= DataBase - SyncBase, NEW k \in 0..synced - 1
        PROVE  V!Holds(SyncBase + k, V!Meta(k))'
    <3>1. V!Holds(SyncBase + k, V!Meta(k))
      BY <1>1, <2>2, <2>7 DEF LayoutInv, V!AreasApart
    <3>2. SyncBase + k # DataBase + i
      BY <1>1, <1>2, <2>3, <2>7
    <3>3. PICK m : m = V!Meta(k)
      OBVIOUS
    <3>4. V!Holds(SyncBase + k, m)'
      BY <2>5, <3>1, <3>2, <3>3
    <3> QED BY <3>3, <3>4 DEF V!Holds, V!Meta
  <2>8. DOMAIN last' \subseteq V!Inodes'
    BY <1>1, <2>1, <2>4 DEF V!Inodes
  <2>9. V!AreasApart'
    BY <1>1, <2>6, <2>7 DEF V!AreasApart
  <2> QED BY <1>1, <1>2, <2>8, <2>9 DEF LayoutInv
<1> QED BY <1>3, <1>4

LEMMA SyncKeepsLayout ==
  ASSUME TableInv, LayoutInv, NEW Failed, V!sys_sync(Failed) PROVE LayoutInv'
<1>1. UNCHANGED <<inodes, last, strayed>>
  BY DEF V!sys_sync
<1>2. /\ SyncBase \in Nat /\ DataBase \in Nat /\ SyncBase < DataBase
      /\ Len(inodes) \in Nat /\ synced \in Nat /\ synced <= Len(inodes)
      /\ DOMAIN last \subseteq V!Inodes
  BY DiskAssumption DEF V!DiskAssumption, TableInv, LayoutInv
<1> DEFINE done == V!Inodes \ Failed
<1>3. disk' = [s \in DOMAIN disk \cup {SyncBase + i : i \in done} |->
                  IF s - SyncBase \in done THEN V!Meta(s - SyncBase) ELSE disk[s]]
      /\ synced' = IF Failed = {} THEN Len(inodes) ELSE synced
  BY DEF V!sys_sync
<1>4. done \subseteq V!Inodes /\ (Failed = {} => done = V!Inodes)
  OBVIOUS
<1> HIDE DEF done
<1>5. synced' \in Nat /\ synced' <= Len(inodes')
  BY <1>1, <1>2, <1>3
<1>6. ASSUME NEW s, NEW c, V!Holds(s, c), s - SyncBase \notin done PROVE V!Holds(s, c)'
  BY <1>3, <1>6 DEF V!Holds
<1>7. ASSUME ~strayed', Len(inodes') <= DataBase - SyncBase, NEW j \in DOMAIN last'
      PROVE  V!Holds(DataBase + j, last[j])'
  <2>1. PICK c : c = last[j]
    OBVIOUS
  <2>2. V!Holds(DataBase + j, c) /\ last'[j] = c /\ j \in Nat
    BY <1>1, <1>2, <1>7, <2>1 DEF LayoutInv, V!AreasApart, V!Inodes
  <2> DEFINE s == DataBase + j
  <2>3. s - SyncBase \notin V!Inodes
    BY <1>1, <1>2, <1>7, <2>2 DEF V!Inodes
  <2>4. V!Holds(s, c)
    BY <2>2, Zenon
  <2> HIDE DEF s
  <2>5. V!Holds(s, c)'
    BY <1>4, <1>6, <2>3, <2>4
  <2> QED BY <2>2, <2>5 DEF V!Holds, s
<1>8. ASSUME ~strayed', Len(inodes') <= DataBase - SyncBase,
             NEW n \in Nat, n = synced', NEW k \in 0..n - 1
      PROVE  V!Holds(SyncBase + k, V!Meta(k))'
  <2> DEFINE s == SyncBase + k
  <2>1. k \in Nat /\ k < Len(inodes)
    <3>1. n <= Len(inodes)
      BY <1>1, <1>5, <1>8
    <3> QED BY <1>2, <3>1
  <2>2. k \in V!Inodes /\ s - SyncBase = k
    BY <1>2, <2>1 DEF V!Inodes
  <2> HIDE DEF s
  <2>3. CASE k \in done
    <3>1. s \in {SyncBase + i : i \in done}
      BY <2>3 DEF s
    <3>2. s \in DOMAIN disk' /\ disk'[s] = V!Meta(k)
      BY <1>3, <2>2, <2>3, <3>1
    <3> QED BY <3>2 DEF V!Holds, V!Meta, s
  <2>4. CASE k \notin done
    <3>1. synced' = synced
      BY <1>3, <1>4, <2>2, <2>4
    <3>2. V!Holds(s, V!Meta(k))
      BY <1>1, <1>8, <3>1 DEF LayoutInv, V!AreasApart, s
    <3>3. PICK m : m = V!Meta(k)
      OBVIOUS
    <3>4. V!Holds(s, m)'
      BY <1>6, <2>2, <2>4, <3>2, <3>3
    <3> QED BY <3>3, <3>4 DEF V!Holds, V!Meta, s
  <2> QED BY <2>3, <2>4
<1>9. ASSUME ~strayed', Len(inodes') <= DataBase - SyncBase
      PROVE  \A k \in 0..synced' - 1 : V!Holds(SyncBase + k, V!Meta(k))'
  <2>1. PICK n \in Nat : n = synced'
    BY <1>5
  <2>2. \A k \in 0..n - 1 : V!Holds(SyncBase + k, V!Meta(k))'
    BY <1>8, <1>9, <2>1
  <2> QED BY <2>1, <2>2
<1>10. V!AreasApart'
  BY <1>7, <1>9 DEF V!AreasApart
<1> QED BY <1>1, <1>2, <1>5, <1>10 DEF LayoutInv, V!Inodes

LEMMA LayoutInvStep ==
  TableInv /\ DescriptorInv /\ LayoutInv /\ [V!Next]_vfsVars => LayoutInv'
<1> SUFFICES ASSUME TableInv, DescriptorInv, LayoutInv, [V!Next]_vfsVars
             PROVE  LayoutInv'
  OBVIOUS
<1>1. ASSUME NEW path, NEW is_dir, Grown(path, is_dir),
             UNCHANGED <<disk, last, strayed, synced>>
      PROVE  LayoutInv'
  <2>1. PICK n : n = Len(inodes)
    OBVIOUS
  <2>2. inodes \in Seq(V!InodeType)
    BY DEF TableInv
  <2>3. n \in Nat /\ Len(inodes') = n + 1 /\ V!Inodes' = V!Inodes \cup {n}
    BY <1>1, <2>1, <2>2, GrownTable
  <2>4. SyncBase \in Nat /\ DataBase \in Nat
    BY DiskAssumption DEF V!DiskAssumption
  <2>5. synced' \in Nat /\ synced' <= Len(inodes')
    BY <1>1, <2>1, <2>3 DEF LayoutInv
  <2>6. DOMAIN last' \subseteq V!Inodes'
    BY <1>1, <2>3 DEF LayoutInv
  <2>7. Len(inodes') <= DataBase - SyncBase => Len(inodes) <= DataBase - SyncBase
    BY <2>1, <2>3, <2>4
  <2>8. V!AreasApart'
    BY <1>1, <2>7 DEF LayoutInv, V!AreasApart, V!Holds, V!Meta
  <2> QED BY <2>5, <2>6, <2>8 DEF LayoutInv
<1>2. CASE UNCHANGED <<inodes, disk, last, strayed, synced>>
  BY <1>2 DEF LayoutInv, V!AreasApart, V!Holds, V!Inodes, V!Meta
<1>3. ASSUME NEW path \in Paths, NEW flags \in FlagSets, V!OpenNew(path, flags)
      PROVE  LayoutInv'
  BY <1>1, <1>3 DEF V!OpenNew, Grown
<1>4. ASSUME NEW path \in Paths, V!sys_mkdir(path) PROVE LayoutInv'
  BY <1>1, <1>4 DEF V!sys_mkdir, Grown
<1> QED BY <1>2, <1>3, <1>4, WriteKeepsLayout, SyncKeepsLayout
     DEF V!Next, V!OpenExisting, V!sys_close, V!sys_lseek, V!SeekSet, V!SeekCur, vfsVars

(* vfs_write and vfs_sync: for every layout with the inodes below the files, *)
(* as long as each write went to its file's first sector and the inodes do   *)
(* not reach the files, nothing written is lost to another write or a sync.  *)
THEOREM LayoutCorrect == FilesSpec => []AreasApart
<1>1. LayoutInv => AreasApart
  BY DEF LayoutInv, AreasApart
<1> QED
  BY <1>1, TableInvInit, LayoutInvInit, LayoutInvStep, VfsInvariant, FilesParts, PTL

-----------------------------------------------------------------------------
(* The FAT32 reader.  A set of numbers with 0 and every successor is Nat,    *)
(* which is how a walk along a chain of any length is reasoned about.        *)
LEMMA SetInduction ==
  ASSUME NEW T, 0 \in T, \A n \in Nat : n \in T => n + 1 \in T
  PROVE  \A n \in Nat : n \in T
<1> DEFINE M == Nat \ T
<1>1. CASE M # {}
  <2>1. PICK x \in M : \A y \in M : x <= y
    <3> HIDE DEF M
    <3>1. M \subseteq Nat
      BY DEF M
    <3> QED BY <1>1, <3>1, LeastExists
  <2>2. x \in Nat /\ x # 0
    OBVIOUS
  <2>3. x - 1 \in Nat /\ ~(x <= x - 1) /\ (x - 1) + 1 = x
    BY <2>2
  <2>4. x - 1 \in T
    BY <2>1, <2>3
  <2> QED BY <2>3, <2>4
<1> QED BY <1>1

(* ClusterAt: the walk along a chain exists, is the same however far it      *)
(* goes, and follows a link with every step.                                 *)
Walk(fat, first, k, f) == f = [n \in 0..k |-> IF n = 0 THEN first ELSE fat[f[n - 1]]]

LEMMA WalkExists == ASSUME NEW fat, NEW first PROVE \A k \in Nat : \E f : Walk(fat, first, k, f)
<1> DEFINE T == {k \in Nat : \E f : Walk(fat, first, k, f)}
<1>1. 0 \in T
  <2> DEFINE f == [n \in 0..0 |-> first]
  <2>1. f = [n \in 0..0 |-> IF n = 0 THEN first ELSE fat[f[n - 1]]]
    OBVIOUS
  <2> QED BY <2>1 DEF Walk
<1>2. ASSUME NEW k \in Nat, k \in T PROVE k + 1 \in T
  <2>1. PICK f : Walk(fat, first, k, f)
    BY <1>2
  <2> DEFINE g == [n \in 0..k + 1 |-> IF n <= k THEN f[n] ELSE fat[f[k]]]
  <2>2. ASSUME NEW n \in 0..k + 1
        PROVE  g[n] = IF n = 0 THEN first ELSE fat[g[n - 1]]
    <3>1. CASE n = 0
      BY <2>1, <3>1 DEF Walk
    <3>2. CASE n # 0 /\ n <= k
      <4>1. n \in 0..k /\ n - 1 \in 0..k + 1 /\ n - 1 <= k
        BY <3>2
      <4>2. f[n] = fat[f[n - 1]]
        BY <2>1, <3>2, <4>1 DEF Walk
      <4> QED BY <3>2, <4>1, <4>2
    <3>3. CASE n = k + 1
      <4>1. k + 1 # 0 /\ ~(k + 1 <= k) /\ (k + 1) - 1 = k /\ k <= k /\ k \in 0..k + 1
        OBVIOUS
      <4> QED BY <3>3, <4>1
    <3> QED BY <3>1, <3>2, <3>3
  <2>3. g = [n \in 0..k + 1 |-> IF n = 0 THEN first ELSE fat[g[n - 1]]]
    BY <2>2
  <2> HIDE DEF g
  <2>4. \E h : Walk(fat, first, k + 1, h)
    BY <2>3 DEF Walk
  <2>5. k + 1 \in Nat
    OBVIOUS
  <2> QED BY <2>4, <2>5
<1> HIDE DEF T
<1>3. \A k \in Nat : k \in T
  BY <1>1, <1>2, SetInduction
<1> QED BY <1>3 DEF T

LEMMA WalksAgree ==
  ASSUME NEW fat, NEW first, NEW k \in Nat, NEW m \in Nat, NEW f, NEW g,
         Walk(fat, first, k, f), Walk(fat, first, m, g)
  PROVE  \A n \in Nat : n <= k /\ n <= m => f[n] = g[n]
<1> DEFINE T == {n \in Nat : n <= k /\ n <= m => f[n] = g[n]}
<1>1. 0 \in T
  BY DEF Walk
<1>2. ASSUME NEW n \in Nat, n \in T PROVE n + 1 \in T
  <2>1. CASE n + 1 <= k /\ n + 1 <= m
    <3>1. n <= k /\ n <= m /\ n + 1 \in 0..k /\ n + 1 \in 0..m /\ n + 1 # 0 /\ (n + 1) - 1 = n
      BY <2>1
    <3>2. f[n] = g[n]
      BY <1>2, <3>1
    <3>3. f[n + 1] = fat[f[n]] /\ g[n + 1] = fat[g[n]]
      BY <3>1 DEF Walk
    <3> QED BY <3>2, <3>3
  <2> QED BY <2>1
<1> HIDE DEF T
<1>3. \A n \in Nat : n \in T
  BY <1>1, <1>2, SetInduction
<1> QED BY <1>3 DEF T

LEMMA ClusterIsWalk ==
  ASSUME NEW fat, NEW first, NEW k \in Nat
  PROVE  \E f : Walk(fat, first, k, f) /\ ClusterAt(fat, first, k) = f[k]
<1> DEFINE W == CHOOSE f : f = [n \in 0..k |-> IF n = 0 THEN first ELSE fat[f[n - 1]]]
<1>1. \E f : f = [n \in 0..k |-> IF n = 0 THEN first ELSE fat[f[n - 1]]]
  <2>1. PICK h : Walk(fat, first, k, h)
    BY WalkExists
  <2> QED BY <2>1, Zenon DEF Walk
<1>2. W = [n \in 0..k |-> IF n = 0 THEN first ELSE fat[W[n - 1]]]
  BY <1>1
<1>3. ClusterAt(fat, first, k) = W[k]
  BY Zenon DEF ClusterAt
<1> HIDE DEF W
<1> QED BY <1>2, <1>3 DEF Walk

LEMMA ChainFirst == ASSUME NEW fat, NEW first PROVE ClusterAt(fat, first, 0) = first
<1>1. PICK f : Walk(fat, first, 0, f) /\ ClusterAt(fat, first, 0) = f[0]
  BY ClusterIsWalk
<1> QED BY <1>1 DEF Walk

LEMMA ChainNext ==
  ASSUME NEW fat, NEW first, NEW k \in Nat
  PROVE  ClusterAt(fat, first, k + 1) = fat[ClusterAt(fat, first, k)]
<1>1. PICK f : Walk(fat, first, k, f) /\ ClusterAt(fat, first, k) = f[k]
  BY ClusterIsWalk
<1>2. PICK g : Walk(fat, first, k + 1, g) /\ ClusterAt(fat, first, k + 1) = g[k + 1]
  <2>1. k + 1 \in Nat
    OBVIOUS
  <2> QED BY <2>1, ClusterIsWalk
<1>3. f[k] = g[k]
  <2>1. k + 1 \in Nat /\ k <= k /\ k <= k + 1
    OBVIOUS
  <2> QED BY <1>1, <1>2, <2>1, WalksAgree
<1>4. g[k + 1] = fat[g[k]]
  <2>1. k + 1 \in 0..k + 1 /\ k + 1 # 0 /\ (k + 1) - 1 = k
    OBVIOUS
  <2> QED BY <1>2, <2>1 DEF Walk
<1> QED BY <1>1, <1>2, <1>3, <1>4

-----------------------------------------------------------------------------
(* Positions: clusters and sectors of any size.                              *)
LEMMA MulMono ==
  ASSUME NEW a \in Int, NEW b \in Int, NEW c \in Nat, a <= b PROVE a * c <= b * c
  OBVIOUS

LEMMA DivModFacts ==
  ASSUME NEW x \in Nat, NEW c \in Nat \ {0}
  PROVE  \E k \in Nat, r \in 0..c - 1 : x \div c = k /\ x % c = r /\ x = k * c + r
<1>1. x \div c \in Nat
  OBVIOUS
<1>2. x % c \in 0..c - 1
  OBVIOUS
<1>3. PICK k \in Nat, r \in 0..c - 1 : k = x \div c /\ r = x % c
  BY <1>1, <1>2
<1>4. x = c * k + r
  BY <1>3
<1>5. x = k * c + r
  BY <1>4
<1> QED BY <1>3, <1>5

LEMMA DivIs ==
  ASSUME NEW c \in Nat \ {0}, NEW k \in Nat, NEW r \in 0..c - 1,
         NEW x \in Nat, x = k * c + r
  PROVE  x \div c = k /\ x % c = r
<1>1. PICK j \in Nat, s \in 0..c - 1 : x \div c = j /\ x % c = s /\ x = j * c + s
  BY DivModFacts
<1>2. CASE j < k
  <2>1. (j + 1) * c <= k * c
    BY <1>2, MulMono
  <2>2. (j + 1) * c = j * c + c
    OBVIOUS
  <2> QED BY <1>1, <2>1, <2>2
<1>3. CASE j > k
  <2>1. (k + 1) * c <= j * c
    BY <1>3, MulMono
  <2>2. (k + 1) * c = k * c + c
    OBVIOUS
  <2> QED BY <1>1, <2>1, <2>2
<1>4. CASE j = k
  BY <1>1, <1>4
<1> QED BY <1>2, <1>3, <1>4

(* The rest of a sector does not go past its cluster.                        *)
LEMMA SectorInCluster ==
  ASSUME NEW p \in Nat \ {0}, NEW s \in Nat \ {0}, NEW x \in Nat,
         NEW c \in Nat \ {0}, c = p * s
  PROVE  (x % c) + (s - (x % s)) <= c
<1>1. PICK k \in Nat, r \in 0..c - 1 : x \div c = k /\ x % c = r /\ x = k * c + r
  BY DivModFacts
<1>2. PICK q \in Nat, t \in 0..s - 1 : r \div s = q /\ r % s = t /\ r = q * s + t
  <2>1. r \in Nat
    OBVIOUS
  <2> QED BY <2>1, DivModFacts
<1>3. PICK m \in Nat : m = k * p + q
  OBVIOUS
<1>4. x = m * s + t
  <2>1. k * c = (k * p) * s
    OBVIOUS
  <2>2. (k * p + q) * s = (k * p) * s + q * s
    OBVIOUS
  <2>3. k * c \in Nat /\ (k * p) * s \in Nat /\ q * s \in Nat
    OBVIOUS
  <2> QED BY <1>1, <1>2, <1>3, <2>1, <2>2, <2>3
<1>5. x % s = t
  BY <1>4, DivIs
<1>6. q + 1 <= p
  <2>1. CASE p <= q
    <3>1. p * s <= q * s
      BY <2>1, MulMono
    <3>2. q * s \in Nat /\ p * s \in Nat
      OBVIOUS
    <3> QED BY <1>2, <3>1, <3>2
  <2> QED BY <2>1
<1>7. (q + 1) * s <= c /\ (q + 1) * s = q * s + s /\ q * s \in Nat
  BY <1>6, MulMono
<1>8. r + (s - t) <= c
  BY <1>2, <1>7
<1> QED BY <1>1, <1>5, <1>8

(* Bytes that do not go past a cluster are in it, and the one after them is  *)
(* in it or the first of the next.                                           *)
LEMMA WithinCluster ==
  ASSUME NEW c \in Nat \ {0}, NEW x \in Nat, NEW n \in Nat, (x % c) + n < c
  PROVE  (x + n) \div c = x \div c /\ (x + n) % c = (x % c) + n
<1>1. PICK k \in Nat, r \in 0..c - 1 : x \div c = k /\ x % c = r /\ x = k * c + r
  BY DivModFacts
<1>2. PICK y \in Nat, m \in 0..c - 1 : y = x + n /\ m = r + n
  BY <1>1
<1>3. y = k * c + m
  <2>1. k * c \in Nat
    OBVIOUS
  <2> QED BY <1>1, <1>2, <2>1
<1>4. y \div c = k /\ y % c = m
  BY <1>3, DivIs
<1> QED BY <1>1, <1>2, <1>4

LEMMA PastCluster ==
  ASSUME NEW c \in Nat \ {0}, NEW x \in Nat, NEW n \in Nat, (x % c) + n = c
  PROVE  (x + n) \div c = x \div c + 1 /\ (x + n) % c = 0
<1>1. PICK k \in Nat, r \in 0..c - 1 : x \div c = k /\ x % c = r /\ x = k * c + r
  BY DivModFacts
<1>2. PICK y \in Nat, j \in Nat : y = x + n /\ j = k + 1
  OBVIOUS
<1>3. y = j * c + 0
  <2>1. k * c \in Nat /\ (k + 1) * c = k * c + c
    OBVIOUS
  <2> QED BY <1>1, <1>2, <2>1
<1>4. y \div c = j /\ y % c = 0
  <2>1. 0 \in 0..c - 1
    OBVIOUS
  <2> QED BY <1>3, <2>1, DivIs
<1> QED BY <1>1, <1>2, <1>4

LEMMA OnOrPast ==
  ASSUME NEW c \in Nat \ {0}, NEW x \in Nat, NEW n \in Nat \ {0}, (x % c) + n <= c
  PROVE  \/ (x + n) % c = 0 /\ (x + n) \div c = x \div c + 1
         \/ (x + n) % c # 0 /\ (x + n) \div c = x \div c
<1>1. PICK m \in Nat : m = x % c
  <2>1. x % c \in Nat
    OBVIOUS
  <2> QED BY <2>1
<1>2. CASE m + n = c
  <2>1. (x % c) + n = c
    BY <1>1, <1>2
  <2> QED BY <2>1, PastCluster
<1>3. CASE m + n # c
  <2>1. m + n < c /\ m + n # 0
    <3>1. m + n <= c
      BY <1>1
    <3> QED BY <1>3, <3>1
  <2>2. (x % c) + n < c
    BY <1>1, <2>1
  <2>3. (x + n) \div c = x \div c /\ (x + n) % c = (x % c) + n
    BY <2>2, WithinCluster
  <2>4. (x + n) % c = m + n
    BY <1>1, <2>3
  <2> QED BY <2>1, <2>3, <2>4
<1> QED BY <1>2, <1>3

-----------------------------------------------------------------------------
(* The reader.                                                               *)
DescriptorOK(d) ==
    /\ d = [first |-> d.first, cur |-> d.cur, size |-> d.size, pos |-> d.pos]
    /\ d.size \in Nat /\ d.pos \in 0..d.size
    /\ d.size > 0 => Holds(vol.fat, d.first, d.size)

FilesInv == \A fd \in DOMAIN files : DescriptorOK(files[fd])

CallInv ==
    /\ call = [pc |-> call.pc, op |-> call.op, fd |-> call.fd, name |-> call.name,
               ret |-> call.ret, cluster |-> call.cluster, sec |-> call.sec,
               len |-> call.len, got |-> call.got, listed |-> call.listed,
               start |-> call.start, fault |-> call.fault]
    /\ call.pc \in {"dir", "dirfat", "data", "datafat", "done"}
    /\ call.got \in Seq(Nat \X Nat) /\ call.start \in Nat /\ call.len \in Nat

ScanInv ==
    call.pc \in {"dir", "dirfat"} =>
        /\ call.op \in {"open", "ls"} /\ call.sec \in 0..SecPerClus - 1
        /\ call.cluster \in DOMAIN vol.fat => call.cluster \in DOMAIN vol.dir

(* At a link the position is the first of a cluster, and the descriptor      *)
(* still at the cluster before it.                                           *)
ReadInv ==
    call.pc \in {"data", "datafat"} =>
        /\ call.op = "read" /\ call.fd \in DOMAIN files
        /\ Len(call.got) <= call.len
        /\ files[call.fd].pos = call.start + Len(call.got)
        /\ call.pc = "data" => /\ Len(call.got) < call.len
                               /\ files[call.fd].pos < files[call.fd].size
        /\ call.pc = "datafat" =>
              LET d == files[call.fd]
              IN  /\ d.pos % ClusSize = 0 /\ d.pos > 0 /\ d.cur \in DOMAIN vol.fat
                  /\ \E k \in Nat : /\ d.pos \div ClusSize = k + 1
                                    /\ d.cur = ClusterAt(vol.fat, d.first, k)

FatInv == /\ VolumeOK(vol) /\ FilesInv /\ CallInv /\ ScanInv /\ ReadInv
          /\ CursorOnChain /\ GotIsFile

LEMMA ClusIsNat == ClusSize \in Nat \ {0} /\ ClusSize = SecPerClus * SectorSize
  BY SizeAssumption DEF ClusSize

LEMMA ClusterRange ==
  ASSUME NEW v, VolumeOK(v), NEW c \in DOMAIN v.fat
  PROVE  c \in Nat /\ c # BAD /\ c < EOC /\ c \notin EndMarks
  BY SizeAssumption DEF VolumeOK, BAD, EndMarks

LEMMA MarksRange == BAD < EOC /\ \A c \in EndMarks : c # BAD
  BY SizeAssumption DEF BAD, EndMarks

(* Before the end of a file its chain goes on.                               *)
LEMMA ChainGoesOn ==
  ASSUME NEW fat, NEW first, NEW size \in Nat, Holds(fat, first, size),
         NEW pos \in Nat, pos < size
  PROVE  ClusterAt(fat, first, pos \div ClusSize) \in DOMAIN fat
<1>1. PICK n \in 1..Cardinality(DOMAIN fat) : Chain(fat, first, n) /\ size <= n * ClusSize
  BY DEF Holds
<1>2. PICK k \in Nat, r \in 0..ClusSize - 1 :
          pos \div ClusSize = k /\ pos % ClusSize = r /\ pos = k * ClusSize + r
  BY ClusIsNat, DivModFacts
<1>3. n \in Nat
  OBVIOUS
<1>4. k \in 0..n - 1
  <2>1. CASE n <= k
    <3>1. n * ClusSize <= k * ClusSize
      BY <1>3, <2>1, ClusIsNat, MulMono
    <3>2. n * ClusSize \in Nat /\ k * ClusSize \in Nat
      BY <1>3, ClusIsNat
    <3> QED BY <1>1, <1>2, <3>1, <3>2, ClusIsNat
  <2> QED BY <1>3, <2>1
<1> QED BY <1>1, <1>2, <1>4 DEF Chain

LEMMA MinOfTwo ==
  ASSUME NEW a \in Int, NEW b \in Int, NEW m, m = a \/ m = b, m <= a, m <= b
  PROVE  Min({a, b}) = m
<1>1. \A x \in {a, b} : (\A y \in {a, b} : x <= y) => x = m
  OBVIOUS
<1>2. m \in {a, b} /\ \A y \in {a, b} : m <= y
  OBVIOUS
<1> QED BY <1>1, <1>2 DEF Min

LEMMA MinOfThree ==
  ASSUME NEW a \in Nat \ {0}, NEW b \in Nat \ {0}, NEW c \in Nat \ {0}
  PROVE  LET m == Min({a, b, c}) IN m \in Nat \ {0} /\ m <= a /\ m <= b /\ m <= c
<1>1. \E x \in {a, b, c} : \A y \in {a, b, c} : x <= y
  OBVIOUS
<1>2. Min({a, b, c}) \in {a, b, c} /\ \A y \in {a, b, c} : Min({a, b, c}) <= y
  BY <1>1 DEF Min
<1> QED BY <1>2

LEMMA FatInvInit == Init => FatInv
<1> SUFFICES ASSUME Init PROVE FatInv
  OBVIOUS
<1>1. VolumeOK(vol)
  BY VolumeAssumption DEF Init
<1>2. DOMAIN files = {}
  BY DEF Init
<1>3. CallInv /\ ScanInv /\ ReadInv /\ call.op = "none"
  <2>1. call = NoCall
    BY DEF Init
  <2>2. call.pc = "done" /\ call.op = "none"
    BY <2>1 DEF NoCall
  <2>3. call.got = <<>> /\ call.start = 0 /\ call.len = 0
    BY <2>1 DEF NoCall
  <2>4. call.got \in Seq(Nat \X Nat)
    BY <2>3
  <2>5. call = [pc |-> call.pc, op |-> call.op, fd |-> call.fd, name |-> call.name,
               ret |-> call.ret, cluster |-> call.cluster, sec |-> call.sec,
               len |-> call.len, got |-> call.got, listed |-> call.listed,
               start |-> call.start, fault |-> call.fault]
    BY <2>1 DEF NoCall
  <2>6. CallInv
    BY <2>2, <2>3, <2>4, <2>5 DEF CallInv
  <2> QED BY <2>2, <2>6 DEF ScanInv, ReadInv
<1> QED BY <1>1, <1>2, <1>3 DEF FatInv, FilesInv, CursorOnChain, GotIsFile

Cursor(d) ==
    d.size > 0 => d.cur \in {BAD, ClusterAt(vol.fat, d.first, d.pos \div ClusSize)}

LEMMA AllCursors ==
  ASSUME FatInv, call.pc # "datafat" PROVE \A fd \in DOMAIN files : Cursor(files[fd])
  BY DEF FatInv, CursorOnChain, Cursor

(* A step to a scan, or to the end of a call that was not a read.            *)
LEMMA Quiet ==
  ASSUME FatInv, vol' = vol, CallInv', ScanInv', call'.op # "read",
         call'.pc \notin {"data", "datafat"},
         \A fd \in DOMAIN files' : DescriptorOK(files'[fd]) /\ Cursor(files'[fd])
  PROVE  FatInv'
<1>1. VolumeOK(vol)' /\ FilesInv'
  BY DEF FatInv, FilesInv, DescriptorOK
<1>2. ReadInv' /\ CursorOnChain' /\ GotIsFile'
  BY DEF ReadInv, CursorOnChain, Cursor, GotIsFile
<1> QED BY <1>1, <1>2 DEF FatInv

(* A call as a record, written out.                                          *)
Call(p, o, fd, n, r, cl, s, m, g, l, st, ft) ==
    [pc |-> p, op |-> o, fd |-> fd, name |-> n, ret |-> r, cluster |-> cl, sec |-> s,
     len |-> m, got |-> g, listed |-> l, start |-> st, fault |-> ft]

LEMMA CallIs ==
  ASSUME CallInv, NEW p, NEW o, NEW fd, NEW n, NEW r, NEW cl, NEW s, NEW m, NEW g, NEW l,
         NEW st, NEW ft, call' = Call(p, o, fd, n, r, cl, s, m, g, l, st, ft),
         p \in {"dir", "dirfat", "data", "datafat", "done"},
         g \in Seq(Nat \X Nat), st \in Nat, m \in Nat
  PROVE  CallInv'
<1>1. /\ call'.pc = p /\ call'.op = o /\ call'.fd = fd /\ call'.name = n /\ call'.ret = r
      /\ call'.cluster = cl /\ call'.sec = s /\ call'.len = m /\ call'.got = g
      /\ call'.listed = l /\ call'.start = st /\ call'.fault = ft
  BY DEF Call
<1>2. call' = [pc |-> call'.pc, op |-> call'.op, fd |-> call'.fd, name |-> call'.name,
               ret |-> call'.ret, cluster |-> call'.cluster, sec |-> call'.sec,
               len |-> call'.len, got |-> call'.got, listed |-> call'.listed,
               start |-> call'.start, fault |-> call'.fault]
  BY <1>1 DEF Call
<1> QED BY <1>1, <1>2 DEF CallInv

LEMMA CallAsRecord ==
  ASSUME CallInv
  PROVE  call = Call(call.pc, call.op, call.fd, call.name, call.ret, call.cluster, call.sec,
                     call.len, call.got, call.listed, call.start, call.fault)
  BY Zenon DEF CallInv, Call

LEMMA EmptyGot == <<>> \in Seq(Nat \X Nat) /\ Len(<<>>) = 0
  OBVIOUS

LEMMA OpenKeeps == ASSUME FatInv, NEW name, fat32_open(name) PROVE FatInv'
<1>1. PICK fd, root : /\ root = vol.root
                      /\ call' = Call("dir", "open", fd, name, 0, root, 0, 0, <<>>, <<>>, 0, FALSE)
  BY DEF fat32_open, StartScan, NoCall, Call
<1>2. call.pc = "done" /\ vol' = vol /\ files' = files
  BY DEF fat32_open
<1>3. /\ CallInv' /\ call'.pc = "dir" /\ call'.op = "open" /\ call'.sec = 0
      /\ call'.cluster = vol.root
  <2>1. CallInv /\ 0 \in Nat /\ "dir" \in {"dir", "dirfat", "data", "datafat", "done"}
    BY DEF FatInv
  <2>2. CallInv'
    BY <1>1, <2>1, CallIs, EmptyGot
  <2> QED BY <1>1, <2>2 DEF Call
<1>4. ScanInv'
  <2>1. vol.root \in DOMAIN vol.dir
    BY DEF FatInv, VolumeOK
  <2>2. 0 \in 0..SecPerClus - 1
    BY SizeAssumption
  <2> QED BY <1>2, <1>3, <2>1, <2>2 DEF ScanInv
<1>5. \A f \in DOMAIN files : DescriptorOK(files[f]) /\ Cursor(files[f])
  BY <1>2, AllCursors DEF FatInv, FilesInv
<1> QED BY <1>2, <1>3, <1>4, <1>5, Quiet

LEMMA LsKeeps == ASSUME FatInv, fat32_ls PROVE FatInv'
<1>1. PICK root : /\ root = vol.root
                  /\ call' = Call("dir", "ls", -1, "", 0, root, 0, 0, <<>>, <<>>, 0, FALSE)
  BY DEF fat32_ls, StartScan, NoCall, Call
<1>2. call.pc = "done" /\ vol' = vol /\ files' = files
  BY DEF fat32_ls
<1>3. /\ CallInv' /\ call'.pc = "dir" /\ call'.op = "ls" /\ call'.sec = 0
      /\ call'.cluster = vol.root
  <2>1. CallInv /\ 0 \in Nat /\ "dir" \in {"dir", "dirfat", "data", "datafat", "done"}
    BY DEF FatInv
  <2>2. CallInv'
    BY <1>1, <2>1, CallIs, EmptyGot
  <2> QED BY <1>1, <2>2 DEF Call
<1>4. ScanInv'
  <2>1. vol.root \in DOMAIN vol.dir
    BY DEF FatInv, VolumeOK
  <2>2. 0 \in 0..SecPerClus - 1
    BY SizeAssumption
  <2> QED BY <1>2, <1>3, <2>1, <2>2 DEF ScanInv
<1>5. \A f \in DOMAIN files : DescriptorOK(files[f]) /\ Cursor(files[f])
  BY <1>2, AllCursors DEF FatInv, FilesInv
<1> QED BY <1>2, <1>3, <1>4, <1>5, Quiet

LEMMA CloseKeeps == ASSUME FatInv, NEW fd, fat32_close(fd) PROVE FatInv'
<1>1. call' = Call("done", "none", -1, "", 0, 0, 0, 0, <<>>, <<>>, 0, FALSE)
  BY DEF fat32_close, NoCall, Call
<1>2. call.pc = "done" /\ vol' = vol
  BY DEF fat32_close
<1>3. CallInv' /\ call'.pc = "done" /\ call'.op = "none"
  <2>1. CallInv'
    BY <1>1, CallIs, EmptyGot DEF FatInv
  <2> QED BY <1>1, <2>1 DEF Call
<1>4. \A f \in DOMAIN files' : f \in DOMAIN files /\ files'[f] = files[f]
  BY DEF fat32_close, Forget
<1>5. \A f \in DOMAIN files' : DescriptorOK(files'[f]) /\ Cursor(files'[f])
  BY <1>2, <1>4, AllCursors DEF FatInv, FilesInv
<1> QED BY <1>2, <1>3, <1>5, Quiet DEF ScanInv

(* What a step of a scan does to its call.                                   *)
LEMMA ScanCall ==
  ASSUME CallInv, call.op \in {"open", "ls"}, NEW p, NEW r, NEW cl, NEW s, NEW l, NEW ft,
         p \in {"dir", "dirfat", "done"},
         call' = Call(p, call.op, call.fd, call.name, r, cl, s, call.len, call.got, l,
                      call.start, ft),
         p # "done" => s \in 0..SecPerClus - 1 /\ (cl \in DOMAIN vol.fat => cl \in DOMAIN vol.dir),
         vol' = vol
  PROVE  CallInv' /\ ScanInv' /\ call'.op # "read" /\ call'.pc \notin {"data", "datafat"}
<1>1. /\ call.got \in Seq(Nat \X Nat) /\ call.start \in Nat /\ call.len \in Nat
      /\ p \in {"dir", "dirfat", "data", "datafat", "done"}
  BY DEF CallInv
<1>2. CallInv'
  BY <1>1, CallIs
<1>3. call'.pc = p /\ call'.op = call.op /\ call'.cluster = cl /\ call'.sec = s
  BY DEF Call
<1>4. ScanInv'
  BY <1>3 DEF ScanInv
<1> QED BY <1>2, <1>3, <1>4

LEMMA NextSectorCall ==
  ASSUME CallInv, NEW l, NEW ft,
         NEW c, c = Call(call.pc, call.op, call.fd, call.name, call.ret, call.cluster,
                         call.sec, call.len, call.got, l, call.start, ft)
  PROVE  \/ /\ call.sec + 1 < SecPerClus
            /\ NextSector(c) = Call(call.pc, call.op, call.fd, call.name, call.ret,
                  call.cluster, call.sec + 1, call.len, call.got, l, call.start, ft)
         \/ NextSector(c) = Call("dirfat", call.op, call.fd, call.name, call.ret,
                  call.cluster, call.sec, call.len, call.got, l, call.start, ft)
  BY DEF NextSector, Call

LEMMA ReturnCall ==
  ASSUME NEW cl, NEW s, NEW g, NEW l, NEW ft, NEW r,
         NEW c, c = Call(call.pc, call.op, call.fd, call.name, call.ret, cl,
                         s, call.len, g, l, call.start, ft)
  PROVE  Return(c, r) = Call("done", call.op, call.fd, call.name, r,
                  cl, s, call.len, g, l, call.start, ft)
<1> DEFINE d == [c EXCEPT !.pc = "done"]
<1>1. d = Call("done", call.op, call.fd, call.name, call.ret, cl, s,
               call.len, g, l, call.start, ft)
  BY DEF Call
<1>2. Return(c, r) = [d EXCEPT !.ret = r]
  BY DEF Return
<1> HIDE DEF d
<1> QED BY <1>1, <1>2 DEF Call

LEMMA FaultCall ==
  ASSUME CallInv, NEW ft
  PROVE  [call EXCEPT !.fault = ft] =
            Call(call.pc, call.op, call.fd, call.name, call.ret, call.cluster,
                 call.sec, call.len, call.got, call.listed, call.start, ft)
  BY DEF CallInv, Call

LEMMA ListedCall ==
  ASSUME CallInv, NEW l, NEW ft,
         NEW c, c = Call(call.pc, call.op, call.fd, call.name, call.ret, call.cluster,
                         call.sec, call.len, call.got, call.listed, call.start, ft)
  PROVE  [c EXCEPT !.listed = l] =
            Call(call.pc, call.op, call.fd, call.name, call.ret, call.cluster,
                 call.sec, call.len, call.got, l, call.start, ft)
  BY DEF Call

LEMMA LeastIn == ASSUME NEW M, M \subseteq Nat, M # {} PROVE Min(M) \in M
<1>1. \E x \in M : \A y \in M : x <= y
  BY LeastExists
<1> QED BY <1>1, Zenon DEF Min

(* What fat32_open finds is an entry of the sector that it compares.         *)
LEMMA SeqDomain == ASSUME NEW T, NEW s \in Seq(T) PROVE DOMAIN s = 1..Len(s)
  OBVIOUS

LEMMA FoundIsOpen ==
  ASSUME VolumeOK(vol), NEW c \in DOMAIN vol.dir, NEW s \in 0..SecPerClus - 1, NEW name,
         NEW sector, sector = vol.dir[c][s + 1], Matching(sector, name) # {},
         NEW e, e = sector[Min(Matching(sector, name))]
  PROVE  e.size \in Nat /\ (e.size > 0 => Holds(vol.fat, e.first, e.size))
<1>1. DOMAIN vol.dir[c] = 1..SecPerClus /\ s + 1 \in 1..SecPerClus
  BY SizeAssumption DEF VolumeOK
<1>2. sector \in Range(vol.dir[c])
  BY <1>1 DEF Range
<1>3. /\ sector \in Seq(Range(sector))
      /\ \A x \in Range(sector) : /\ x.kind \in Kind /\ x.size \in Nat
                                  /\ x.kind \in Open /\ x.size > 0 => Holds(vol.fat, x.first, x.size)
  BY <1>2 DEF VolumeOK
<1>4. Matching(sector, name) \subseteq Nat
  <2>1. DOMAIN sector = 1..Len(sector) /\ Len(sector) \in Nat
    BY <1>3, SeqDomain
  <2>2. Matching(sector, name) \subseteq DOMAIN sector
    BY DEF Matching
  <2> QED BY <2>1, <2>2
<1>5. Min(Matching(sector, name)) \in Matching(sector, name)
  BY <1>4, LeastIn, Zenon
<1>6. PICK i : i \in Matching(sector, name) /\ e = sector[i]
  BY <1>5, Zenon
<1>7. e \in Range(sector) /\ e.kind \in Open
  BY <1>6 DEF Matching, Range
<1> QED BY <1>3, <1>7

LEMMA OpenSectorKeeps == ASSUME FatInv, NEW ok \in BOOLEAN, OpenSector(ok) PROVE FatInv'
<1>1. /\ call.pc = "dir" /\ call.op = "open" /\ vol' = vol /\ CallInv
      /\ call.sec \in 0..SecPerClus - 1 /\ (ok => call.cluster \in DOMAIN vol.dir)
  BY DEF OpenSector, FatInv, ScanInv, Access, OnDisk
<1>2. PICK ft, c, sector :
        /\ c = [call EXCEPT !.fault = ft]
        /\ sector = vol.dir[call.cluster][call.sec + 1]
        /\ \/ files' = files /\ call' = Return(c, -1)
           \/ /\ ok /\ Matching(sector, call.name) # {} /\ call' = Return(c, call.fd)
              /\ files' = Extend(files, call.fd, Opened(sector[Min(Matching(sector, call.name))]))
           \/ ok /\ files' = files /\ call' = NextSector(c)
  <2> DEFINE ft == Faulted(ok)
             c == [call EXCEPT !.fault = ft]
             sector == vol.dir[call.cluster][call.sec + 1]
  <2>1. \/ files' = files /\ call' = Return(c, -1)
        \/ /\ ok /\ Matching(sector, call.name) # {} /\ call' = Return(c, call.fd)
           /\ files' = Extend(files, call.fd, Opened(sector[Min(Matching(sector, call.name))]))
        \/ ok /\ files' = files /\ call' = NextSector(c)
    BY DEF OpenSector
  <2> HIDE DEF ft, c, sector
  <2>2. c = [call EXCEPT !.fault = ft] /\ sector = vol.dir[call.cluster][call.sec + 1]
    BY DEF c, sector
  <2> QED BY <2>1, <2>2
<1>3. c = Call(call.pc, call.op, call.fd, call.name, call.ret, call.cluster,
               call.sec, call.len, call.got, call.listed, call.start, ft)
  BY <1>1, <1>2, FaultCall
<1>4. \A fd \in DOMAIN files : DescriptorOK(files[fd]) /\ Cursor(files[fd])
  BY <1>1, AllCursors DEF FatInv, FilesInv
<1>5. CASE files' = files /\ call' = Return(c, -1)
  <2>1. CallInv' /\ ScanInv' /\ call'.op # "read" /\ call'.pc \notin {"data", "datafat"}
    BY <1>1, <1>3, <1>5, ReturnCall, ScanCall
  <2> QED BY <1>1, <1>4, <1>5, <2>1, Quiet
<1>6. CASE /\ ok /\ Matching(sector, call.name) # {} /\ call' = Return(c, call.fd)
           /\ files' = Extend(files, call.fd, Opened(sector[Min(Matching(sector, call.name))]))
  <2>1. CallInv' /\ ScanInv' /\ call'.op # "read" /\ call'.pc \notin {"data", "datafat"}
    BY <1>1, <1>3, <1>6, ReturnCall, ScanCall
  <2>2. PICK e : e = sector[Min(Matching(sector, call.name))]
    OBVIOUS
  <2>3. e.size \in Nat /\ (e.size > 0 => Holds(vol.fat, e.first, e.size))
    <3>1. VolumeOK(vol) /\ call.cluster \in DOMAIN vol.dir
      BY <1>1, <1>6 DEF FatInv
    <3> QED BY <1>1, <1>2, <1>6, <2>2, <3>1, FoundIsOpen
  <2>4. DescriptorOK(Opened(e)) /\ Cursor(Opened(e))
    <3>1. /\ Opened(e).first = e.first /\ Opened(e).cur = e.first
          /\ Opened(e).size = e.size /\ Opened(e).pos = 0
      BY DEF Opened
    <3>2. 0 \div ClusSize = 0
      BY ClusIsNat
    <3>3. DescriptorOK(Opened(e))
      BY <2>3, <3>1 DEF DescriptorOK, Opened
    <3> QED BY <3>1, <3>2, <3>3, ChainFirst DEF Cursor
  <2>5. \A fd \in DOMAIN files' :
            \/ fd \in DOMAIN files /\ files'[fd] = files[fd]
            \/ files'[fd] = Opened(e)
    BY <1>6, <2>2 DEF Extend
  <2>6. \A fd \in DOMAIN files' : DescriptorOK(files'[fd]) /\ Cursor(files'[fd])
    BY <1>4, <2>4, <2>5
  <2> QED BY <1>1, <2>1, <2>6, Quiet
<1>7. CASE ok /\ files' = files /\ call' = NextSector(c)
  <2>1. CallInv' /\ ScanInv' /\ call'.op # "read" /\ call'.pc \notin {"data", "datafat"}
    <3>1. CASE /\ call.sec + 1 < SecPerClus
               /\ call' = Call(call.pc, call.op, call.fd, call.name, call.ret,
                     call.cluster, call.sec + 1, call.len, call.got, call.listed, call.start, ft)
      <4>1. call.sec + 1 \in 0..SecPerClus - 1
        BY <1>1, <3>1, SizeAssumption
      <4> QED BY <1>1, <1>7, <3>1, <4>1, ScanCall
    <3>2. CASE call' = Call("dirfat", call.op, call.fd, call.name, call.ret,
                  call.cluster, call.sec, call.len, call.got, call.listed, call.start, ft)
      BY <1>1, <1>7, <3>2, ScanCall
    <3> QED BY <1>1, <1>3, <1>7, <3>1, <3>2, NextSectorCall
  <2> QED BY <1>1, <1>4, <1>7, <2>1, Quiet
<1> QED BY <1>2, <1>5, <1>6, <1>7

LEMMA LsSectorKeeps == ASSUME FatInv, NEW ok \in BOOLEAN, LsSector(ok) PROVE FatInv'
<1>1. /\ call.pc = "dir" /\ call.op = "ls" /\ vol' = vol /\ files' = files /\ CallInv
      /\ call.sec \in 0..SecPerClus - 1 /\ (ok => call.cluster \in DOMAIN vol.dir)
  BY DEF LsSector, FatInv, ScanInv, Access, OnDisk
<1>2. PICK ft, c, l, listing :
        /\ c = [call EXCEPT !.fault = ft] /\ listing = [c EXCEPT !.listed = l]
        /\ \/ call' = Return(c, -1)
           \/ call' = Return(listing, 0)
           \/ ok /\ call' = NextSector(listing)
  <2> DEFINE ft == Faulted(ok)
             c == [call EXCEPT !.fault = ft]
             l == c.listed \o Shown(Before(vol.dir[call.cluster][call.sec + 1]))
             listing == [c EXCEPT !.listed = l]
  <2>1. \/ call' = Return(c, -1)
        \/ call' = Return(listing, 0)
        \/ ok /\ call' = NextSector(listing)
    BY DEF LsSector
  <2> HIDE DEF ft, c, l, listing
  <2>2. c = [call EXCEPT !.fault = ft] /\ listing = [c EXCEPT !.listed = l]
    BY DEF c, listing
  <2> QED BY <2>1, <2>2
<1>3. /\ c = Call(call.pc, call.op, call.fd, call.name, call.ret, call.cluster,
                  call.sec, call.len, call.got, call.listed, call.start, ft)
      /\ listing = Call(call.pc, call.op, call.fd, call.name, call.ret, call.cluster,
                        call.sec, call.len, call.got, l, call.start, ft)
  BY <1>1, <1>2, FaultCall, ListedCall
<1>4. CallInv' /\ ScanInv' /\ call'.op # "read" /\ call'.pc \notin {"data", "datafat"}
  <2>1. CASE call' = Return(c, -1)
    BY <1>1, <1>3, <2>1, ReturnCall, ScanCall
  <2>2. CASE call' = Return(listing, 0)
    BY <1>1, <1>3, <2>2, ReturnCall, ScanCall
  <2>3. CASE ok /\ call' = NextSector(listing)
    <3>1. CASE /\ call.sec + 1 < SecPerClus
               /\ call' = Call(call.pc, call.op, call.fd, call.name, call.ret,
                     call.cluster, call.sec + 1, call.len, call.got, l, call.start, ft)
      <4>1. call.sec + 1 \in 0..SecPerClus - 1
        BY <1>1, <3>1, SizeAssumption
      <4> QED BY <1>1, <2>3, <3>1, <4>1, ScanCall
    <3>2. CASE call' = Call("dirfat", call.op, call.fd, call.name, call.ret,
                  call.cluster, call.sec, call.len, call.got, l, call.start, ft)
      BY <1>1, <2>3, <3>2, ScanCall
    <3> QED BY <1>1, <1>3, <2>3, <3>1, <3>2, NextSectorCall
  <2> QED BY <1>2, <2>1, <2>2, <2>3
<1>5. \A fd \in DOMAIN files : DescriptorOK(files[fd]) /\ Cursor(files[fd])
  BY <1>1, AllCursors DEF FatInv, FilesInv
<1> QED BY <1>1, <1>4, <1>5, Quiet

LEMMA LinkCall ==
  ASSUME CallInv, NEW next, NEW ft
  PROVE  [call EXCEPT !.cluster = next, !.sec = 0, !.fault = ft] =
            Call(call.pc, call.op, call.fd, call.name, call.ret, next,
                 0, call.len, call.got, call.listed, call.start, ft)
<1> DEFINE b == [call EXCEPT !.cluster = next]
           d == [b EXCEPT !.sec = 0]
<1>1. b = Call(call.pc, call.op, call.fd, call.name, call.ret, next,
               call.sec, call.len, call.got, call.listed, call.start, call.fault)
  BY CallAsRecord DEF Call
<1> HIDE DEF b
<1>2. d = Call(call.pc, call.op, call.fd, call.name, call.ret, next,
               0, call.len, call.got, call.listed, call.start, call.fault)
  BY <1>1 DEF Call
<1>3. [call EXCEPT !.cluster = next, !.sec = 0, !.fault = ft] = [d EXCEPT !.fault = ft]
  BY DEF b, d
<1> HIDE DEF d
<1> QED BY <1>2, <1>3 DEF Call

LEMMA AsDir ==
  ASSUME NEW next, NEW ft,
         NEW c, c = Call(call.pc, call.op, call.fd, call.name, call.ret, next,
                         0, call.len, call.got, call.listed, call.start, ft)
  PROVE  [c EXCEPT !.pc = "dir"] =
            Call("dir", call.op, call.fd, call.name, call.ret, next,
                 0, call.len, call.got, call.listed, call.start, ft)
  BY DEF Call

LEMMA DirLinkKeeps == ASSUME FatInv, NEW ok \in BOOLEAN, DirLink(ok) PROVE FatInv'
<1>1. /\ call.pc = "dirfat" /\ vol' = vol /\ files' = files /\ CallInv /\ VolumeOK(vol)
      /\ call.op \in {"open", "ls"} /\ (ok => call.cluster \in DOMAIN vol.dir)
  BY DEF DirLink, FatInv, ScanInv, Access, OnDisk
<1>2. PICK next, ft, c, r :
        /\ next = FatEntry(call.cluster, ok)
        /\ c = Call(call.pc, call.op, call.fd, call.name, call.ret, next,
                    0, call.len, call.got, call.listed, call.start, ft)
        /\ call' = [c EXCEPT !.pc = "dir"] \/ call' = Return(c, r)
  <2> DEFINE next == FatEntry(call.cluster, ok)
             ft == Faulted(ok)
             c == [call EXCEPT !.cluster = next, !.sec = 0, !.fault = ft]
             r == IF call.op = "ls" THEN 0 ELSE -1
  <2>1. call' = [c EXCEPT !.pc = "dir"] \/ call' = Return(c, r)
    BY DEF DirLink
  <2> HIDE DEF next, ft, r
  <2>2. next = FatEntry(call.cluster, ok)
    BY DEF next
  <2>3. c = Call(call.pc, call.op, call.fd, call.name, call.ret, next,
                 0, call.len, call.got, call.listed, call.start, ft)
    BY <1>1, LinkCall, Zenon
  <2> HIDE DEF c
  <2> QED BY <2>1, <2>2, <2>3
<1>3. next \in DOMAIN vol.fat => next \in DOMAIN vol.dir
  <2>1. CASE ok
    <3>1. next = vol.fat[call.cluster]
      BY <1>2, <2>1 DEF FatEntry
    <3>2. next \in DOMAIN vol.dir \cup EndMarks
      BY <1>1, <2>1, <3>1 DEF VolumeOK
    <3> QED BY <1>1, <3>2, ClusterRange
  <2>2. CASE ~ok
    <3>1. next = BAD
      BY <1>2, <2>2 DEF FatEntry
    <3> QED BY <1>1, <3>1, ClusterRange
  <2> QED BY <2>1, <2>2
<1>4. CallInv' /\ ScanInv' /\ call'.op # "read" /\ call'.pc \notin {"data", "datafat"}
  <2>1. 0 \in 0..SecPerClus - 1
    BY SizeAssumption
  <2>2. CASE call' = [c EXCEPT !.pc = "dir"]
    <3>1. call' = Call("dir", call.op, call.fd, call.name, call.ret, next,
                       0, call.len, call.got, call.listed, call.start, ft)
      BY <1>2, <2>2, AsDir
    <3> QED BY <1>1, <1>3, <2>1, <3>1, ScanCall
  <2>3. CASE call' = Return(c, r)
    <3>1. call' = Call("done", call.op, call.fd, call.name, r, next,
                       0, call.len, call.got, call.listed, call.start, ft)
      BY <1>2, <2>3, ReturnCall
    <3> QED BY <1>1, <3>1, ScanCall
  <2> QED BY <1>2, <2>2, <2>3
<1>5. \A fd \in DOMAIN files : DescriptorOK(files[fd]) /\ Cursor(files[fd])
  BY <1>1, AllCursors DEF FatInv, FilesInv
<1> QED BY <1>1, <1>4, <1>5, Quiet

(* The bytes got are the file's, from start on.                              *)
BytesOf(first, start, got) ==
    \A i \in DOMAIN got :
        got[i] = <<ClusterAt(vol.fat, first, (start + i - 1) \div ClusSize),
                   (start + i - 1) % ClusSize>>

(* A read under way, with its descriptor.                                    *)
Reading(c, d) ==
    /\ c = Call(c.pc, "read", c.fd, c.name, c.ret, c.cluster, c.sec, c.len, c.got,
                c.listed, c.start, c.fault)
    /\ c.len \in Nat /\ c.start \in Nat /\ c.got \in Seq(Nat \X Nat)
    /\ Len(c.got) <= c.len /\ d.pos = c.start + Len(c.got)
    /\ BytesOf(d.first, c.start, c.got)

LEMMA ReadCall ==
  ASSUME NEW d, NEW c, Reading(c, d)
  PROVE  /\ \A p : [c EXCEPT !.pc = p] =
               Call(p, "read", c.fd, c.name, c.ret, c.cluster, c.sec, c.len, c.got,
                    c.listed, c.start, c.fault)
         /\ \A r : Return(c, r) =
               Call("done", "read", c.fd, c.name, r, c.cluster, c.sec, c.len, c.got,
                    c.listed, c.start, c.fault)
<1>1. c = Call(c.pc, "read", c.fd, c.name, c.ret, c.cluster, c.sec, c.len, c.got,
               c.listed, c.start, c.fault)
  BY Zenon DEF Reading
<1>2. PICK p1, fd, n, r1, cl, s, m, g, l, st, ft :
        /\ c = Call(p1, "read", fd, n, r1, cl, s, m, g, l, st, ft)
        /\ p1 = c.pc /\ fd = c.fd /\ n = c.name /\ r1 = c.ret /\ cl = c.cluster /\ s = c.sec
        /\ m = c.len /\ g = c.got /\ l = c.listed /\ st = c.start /\ ft = c.fault
  BY <1>1
<1>3. ASSUME NEW p
      PROVE  [c EXCEPT !.pc = p] = Call(p, "read", fd, n, r1, cl, s, m, g, l, st, ft)
  <2>1. [Call(p1, "read", fd, n, r1, cl, s, m, g, l, st, ft) EXCEPT !.pc = p] =
        Call(p, "read", fd, n, r1, cl, s, m, g, l, st, ft)
    BY DEF Call
  <2> QED BY <1>2, <2>1, Zenon
<1>4. ASSUME NEW r
      PROVE  Return(c, r) = Call("done", "read", fd, n, r, cl, s, m, g, l, st, ft)
  <2>1. [Call("done", "read", fd, n, r1, cl, s, m, g, l, st, ft) EXCEPT !.ret = r] =
        Call("done", "read", fd, n, r, cl, s, m, g, l, st, ft)
    BY DEF Call
  <2> DEFINE a == [c EXCEPT !.pc = "done"]
  <2>2. a = Call("done", "read", fd, n, r1, cl, s, m, g, l, st, ft)
    BY <1>3
  <2>3. Return(c, r) = [a EXCEPT !.ret = r]
    BY DEF Return
  <2> HIDE DEF a
  <2> QED BY <2>1, <2>2, <2>3
<1>5. ASSUME NEW p, NEW r
      PROVE  Call(p, "read", fd, n, r, cl, s, m, g, l, st, ft) =
             Call(p, "read", c.fd, c.name, r, c.cluster, c.sec, c.len, c.got, c.listed,
                  c.start, c.fault)
  BY <1>2, Zenon
<1>6. ASSUME NEW p
      PROVE  [c EXCEPT !.pc = p] =
             Call(p, "read", c.fd, c.name, c.ret, c.cluster, c.sec, c.len, c.got, c.listed,
                  c.start, c.fault)
  <2>1. [c EXCEPT !.pc = p] = Call(p, "read", fd, n, c.ret, cl, s, m, g, l, st, ft)
    BY <1>2, <1>3, Zenon
  <2> QED BY <1>5, <2>1, Zenon
<1>7. ASSUME NEW r
      PROVE  Return(c, r) =
             Call("done", "read", c.fd, c.name, r, c.cluster, c.sec, c.len, c.got, c.listed,
                  c.start, c.fault)
  BY <1>4, <1>5, Zenon
<1> QED BY <1>6, <1>7, Zenon

(* What is left to show of a step that takes a read to p.                    *)
ReadsOn(c, d, p, r) ==
    /\ Reading(c, d)
    /\ vol' = vol /\ p \in {"data", "datafat", "done"}
    /\ call' = Call(p, "read", c.fd, c.name, r, c.cluster, c.sec, c.len, c.got,
                    c.listed, c.start, c.fault)
    /\ c.fd \in DOMAIN files' => files'[c.fd] = d
    /\ \A f \in DOMAIN files' :
          /\ DescriptorOK(files'[f])
          /\ ~(p = "datafat" /\ f = c.fd) => Cursor(files'[f])
    /\ ReadInv'
    /\ p = "done" /\ r # -1 => r = Len(c.got) /\ r = Min({c.len, d.size - c.start})

LEMMA ReadStep ==
  ASSUME FatInv, NEW c, NEW d, NEW p, NEW r, ReadsOn(c, d, p, r) PROVE FatInv'
<1>1. VolumeOK(vol)' /\ FilesInv'
  BY DEF FatInv, FilesInv, DescriptorOK, ReadsOn
<1>2. CallInv'
  <2>1. c.len \in Nat /\ c.start \in Nat /\ c.got \in Seq(Nat \X Nat) /\ CallInv
    BY DEF Reading, FatInv, ReadsOn
  <2>2. /\ p \in {"dir", "dirfat", "data", "datafat", "done"}
        /\ call' = Call(p, "read", c.fd, c.name, r, c.cluster, c.sec, c.len, c.got,
                        c.listed, c.start, c.fault)
    BY DEF ReadsOn
  <2> QED BY <2>1, <2>2, CallIs
<1>3. /\ call'.pc = p /\ call'.op = "read" /\ call'.fd = c.fd /\ call'.ret = r
      /\ call'.len = c.len /\ call'.got = c.got /\ call'.start = c.start
  BY DEF ReadsOn, Call
<1>4. ScanInv'
  BY <1>3 DEF ReadsOn, ScanInv
<1>5. CursorOnChain'
  BY <1>3 DEF ReadsOn, CursorOnChain, Cursor
<1>6. GotIsFile'
  <2> SUFFICES ASSUME c.fd \in DOMAIN files' PROVE GotIsFile'
    BY <1>3 DEF GotIsFile
  <2>1. files'[c.fd] = d /\ vol' = vol
    BY DEF ReadsOn
  <2>2. \A i \in DOMAIN c.got :
            c.got[i] = <<ClusterAt(vol.fat, d.first, (c.start + i - 1) \div ClusSize),
                         (c.start + i - 1) % ClusSize>>
    BY DEF ReadsOn, Reading, BytesOf
  <2>3. p = "done" /\ r # -1 => r = Len(c.got) /\ r = Min({c.len, d.size - c.start})
    BY DEF ReadsOn
  <2> QED BY <1>3, <2>1, <2>2, <2>3 DEF GotIsFile
<1>7. ReadInv'
  BY DEF ReadsOn
<1> QED BY <1>1, <1>2, <1>4, <1>5, <1>6, <1>7 DEF FatInv

(* A read with its descriptor where its position says.                       *)
Moved(c, d) ==
    /\ vol' = vol /\ Reading(c, d) /\ c.fd \in DOMAIN files' /\ files'[c.fd] = d
    /\ \A f \in DOMAIN files' : DescriptorOK(files'[f]) /\ Cursor(files'[f])

(* A read that has all there is to get returns.                              *)
LEMMA EndStep ==
  ASSUME FatInv, NEW c, NEW d, Moved(c, d),
         Len(c.got) = c.len \/ d.pos = d.size,
         call' = Return(c, Len(c.got))
  PROVE  FatInv'
<1>1. call' = Call("done", "read", c.fd, c.name, Len(c.got), c.cluster, c.sec, c.len, c.got,
                   c.listed, c.start, c.fault)
  BY ReadCall DEF Moved
<1>2. ReadInv'
  BY <1>1 DEF ReadInv, Call
<1>3. Len(c.got) = Min({c.len, d.size - c.start})
  <2>1. /\ c.len \in Nat /\ c.start \in Nat /\ Len(c.got) \in Nat
        /\ Len(c.got) <= c.len /\ d.pos = c.start + Len(c.got)
    BY DEF Moved, Reading
  <2>2. d.size \in Nat /\ d.pos <= d.size
    BY DEF Moved, DescriptorOK
  <2> DEFINE a == c.len
             b == d.size - c.start
             m == Len(c.got)
  <2>3. a \in Int /\ b \in Int /\ m \in Nat
    BY <2>1, <2>2
  <2>4. (m = a \/ m = b) /\ m <= a /\ m <= b
    BY <2>1, <2>2
  <2> HIDE DEF a, b, m
  <2>5. Min({a, b}) = m
    BY <2>3, <2>4, MinOfTwo
  <2> QED BY <2>5 DEF a, b, m
<1>4. ReadsOn(c, d, "done", Len(c.got))
  BY <1>1, <1>2, <1>3 DEF Moved, ReadsOn
<1> QED BY <1>4, ReadStep

LEMMA LoopStep ==
  ASSUME FatInv, NEW c, NEW d, Moved(c, d),
         NEW f, f.pos = d.pos, f.size = d.size,
         call' = Loop(c, f)
  PROVE  FatInv'
<1>1. CASE Len(c.got) < c.len /\ d.pos < d.size
  <2>1. call' = Call("data", "read", c.fd, c.name, c.ret, c.cluster, c.sec, c.len, c.got,
                     c.listed, c.start, c.fault)
    <3>1. call' = [c EXCEPT !.pc = "data"]
      BY <1>1 DEF Loop
    <3> QED BY <3>1, ReadCall DEF Moved
  <2>2. /\ call'.pc = "data" /\ call'.op = "read" /\ call'.fd = c.fd /\ call'.got = c.got
        /\ call'.len = c.len /\ call'.start = c.start
    BY <2>1 DEF Call
  <2>3. ReadInv'
    BY <1>1, <2>2 DEF Moved, ReadInv, Reading
  <2>4. ReadsOn(c, d, "data", c.ret)
    BY <2>1, <2>3 DEF Moved, ReadsOn
  <2> QED BY <2>4, ReadStep
<1>2. CASE ~(Len(c.got) < c.len /\ d.pos < d.size)
  <2>1. call' = Return(c, Len(c.got))
    BY <1>2 DEF Loop
  <2>2. Len(c.got) = c.len \/ d.pos = d.size
    <3>1. Len(c.got) \in Nat /\ c.len \in Nat /\ Len(c.got) <= c.len
      BY DEF Moved, Reading
    <3>2. d.size \in Nat /\ d.pos \in 0..d.size
      BY DEF Moved, DescriptorOK
    <3> QED BY <1>2, <3>1, <3>2
  <2> QED BY <2>1, <2>2, EndStep
<1> QED BY <1>1, <1>2

LEMMA NoCallIs ==
  \E n, ft : NoCall = Call("done", "none", -1, n, 0, 0, 0, 0, <<>>, <<>>, 0, ft)
  BY Zenon DEF NoCall, Call

LEMMA ReadKeeps ==
  ASSUME FatInv, NEW fd \in DOMAIN files, NEW len \in Lens, fat32_read(fd, len)
  PROVE  FatInv'
<1>1. call.pc = "done" /\ vol' = vol /\ files' = files
  BY DEF fat32_read
<1>2. files[fd].pos \in Nat /\ len \in Nat
  BY SizeAssumption DEF FatInv, FilesInv, DescriptorOK
<1>3. PICK n, ft, c : /\ c = Call("done", "read", fd, n, 0, 0, 0, len, <<>>, <<>>,
                               files[fd].pos, ft)
                   /\ call' = Loop(c, files[fd])
  <2>1. PICK n, ft : NoCall = Call("done", "none", -1, n, 0, 0, 0, 0, <<>>, <<>>, 0, ft)
    BY NoCallIs
  <2> DEFINE c == [NoCall EXCEPT !.op = "read", !.fd = fd, !.len = len,
                                 !.start = files[fd].pos]
  <2>2. call' = Loop(c, files[fd])
    BY DEF fat32_read
  <2>3. c = Call("done", "read", fd, n, 0, 0, 0, len, <<>>, <<>>, files[fd].pos, ft)
    <3> DEFINE x == [NoCall EXCEPT !.op = "read"]
               y == [x EXCEPT !.fd = fd]
               z == [y EXCEPT !.len = len]
    <3>1. x = Call("done", "read", -1, n, 0, 0, 0, 0, <<>>, <<>>, 0, ft)
      BY <2>1 DEF Call
    <3>2. c = [z EXCEPT !.start = files[fd].pos]
      OBVIOUS
    <3> HIDE DEF x, c
    <3>3. y = Call("done", "read", fd, n, 0, 0, 0, 0, <<>>, <<>>, 0, ft)
      BY <3>1 DEF Call
    <3> HIDE DEF y
    <3>4. z = Call("done", "read", fd, n, 0, 0, 0, len, <<>>, <<>>, 0, ft)
      BY <3>3 DEF Call
    <3> HIDE DEF z
    <3> QED BY <3>2, <3>4 DEF Call
  <2> HIDE DEF c
  <2> QED BY <2>2, <2>3
<1>4. Reading(c, files[fd]) /\ c.fd = fd
  <2>1. /\ c.pc = "done" /\ c.fd = fd /\ c.name = n /\ c.ret = 0 /\ c.cluster = 0 /\ c.sec = 0
        /\ c.len = len /\ c.got = <<>> /\ c.listed = <<>> /\ c.start = files[fd].pos
        /\ c.fault = ft
    BY <1>3 DEF Call
  <2>2. DOMAIN c.got = {} /\ c.got \in Seq(Nat \X Nat) /\ Len(c.got) = 0
    <3>1. DOMAIN <<>> = {}
      OBVIOUS
    <3> QED BY <2>1, <3>1, EmptyGot
  <2>3. BytesOf(files[fd].first, c.start, c.got)
    BY <2>2 DEF BytesOf
  <2>4. c = Call(c.pc, "read", c.fd, c.name, c.ret, c.cluster, c.sec, c.len, c.got,
                 c.listed, c.start, c.fault)
    BY <1>3, <2>1, Zenon
  <2> QED BY <1>2, <2>1, <2>2, <2>3, <2>4 DEF Reading
<1>5. Moved(c, files[fd])
  <2>1. \A f \in DOMAIN files : DescriptorOK(files[f]) /\ Cursor(files[f])
    BY <1>1, AllCursors DEF FatInv, FilesInv
  <2> QED BY <1>1, <1>4, <2>1 DEF Moved
<1> QED BY <1>3, <1>5, LoopStep

(* The call between two steps of a read, faulted or not.                     *)
LEMMA UnderWay ==
  ASSUME FatInv, call.pc \in {"data", "datafat"}, NEW ft,
         NEW c, c = [call EXCEPT !.fault = ft]
  PROVE  /\ call.fd \in DOMAIN files /\ Reading(c, files[call.fd])
         /\ c.fd = call.fd /\ c.got = call.got /\ c.len = call.len /\ c.start = call.start
<1>1. CallInv /\ call.op = "read" /\ call.fd \in DOMAIN files
      /\ Len(call.got) <= call.len
      /\ files[call.fd].pos = call.start + Len(call.got)
  BY DEF FatInv, ReadInv
<1>2. c = Call(call.pc, call.op, call.fd, call.name, call.ret, call.cluster,
               call.sec, call.len, call.got, call.listed, call.start, ft)
  BY <1>1, FaultCall
<1>3. /\ c.pc = call.pc /\ c.fd = call.fd /\ c.name = call.name /\ c.ret = call.ret
      /\ c.cluster = call.cluster /\ c.sec = call.sec /\ c.len = call.len
      /\ c.got = call.got /\ c.listed = call.listed /\ c.start = call.start /\ c.fault = ft
  BY <1>2 DEF Call
<1>4. c = Call(c.pc, "read", c.fd, c.name, c.ret, c.cluster, c.sec, c.len, c.got,
               c.listed, c.start, c.fault)
  BY <1>1, <1>2, <1>3, Zenon
<1>5. BytesOf(files[call.fd].first, c.start, c.got)
  BY <1>1, <1>3 DEF FatInv, GotIsFile, BytesOf
<1> QED BY <1>1, <1>3, <1>4, <1>5 DEF Reading, CallInv

LEMMA FailKeeps ==
  ASSUME FatInv, call.pc = "data", NEW ft, NEW c, c = [call EXCEPT !.fault = ft],
         vol' = vol, files' = files, call' = Return(c, -1)
  PROVE  FatInv'
<1> DEFINE d == files[call.fd]
<1>1. Reading(c, d) /\ c.fd = call.fd
  BY UnderWay
<1>2. call' = Call("done", "read", c.fd, c.name, -1, c.cluster, c.sec, c.len, c.got,
                   c.listed, c.start, c.fault)
  BY <1>1, ReadCall
<1>3. call'.pc = "done"
  BY <1>2 DEF Call
<1>4. ReadInv'
  BY <1>3 DEF ReadInv
<1>5. \A f \in DOMAIN files : DescriptorOK(files[f]) /\ Cursor(files[f])
  BY AllCursors DEF FatInv, FilesInv
<1>6. ReadsOn(c, d, "done", -1)
  BY <1>1, <1>2, <1>4, <1>5 DEF ReadsOn
<1> QED BY <1>6, ReadStep

LEMMA Joined ==
  ASSUME NEW T, NEW g \in Seq(T), NEW h \in Seq(T)
  PROVE  /\ g \o h \in Seq(T) /\ Len(g \o h) = Len(g) + Len(h)
         /\ \A i \in 1..Len(g) : (g \o h)[i] = g[i]
         /\ \A j \in 1..Len(h) : (g \o h)[Len(g) + j] = h[j]
  OBVIOUS

LEMMA BytesAre ==
  ASSUME NEW d, NEW n \in Nat, d.cur \in Nat, d.pos % ClusSize \in Nat
  PROVE  \E g : /\ g = Bytes(d, n) /\ g \in Seq(Nat \X Nat) /\ Len(g) = n
                /\ \A j \in 1..n : g[j] = <<d.cur, (d.pos % ClusSize) + j - 1>>
<1>1. PICK x \in Nat : x = d.pos % ClusSize
  OBVIOUS
<1>2. PICK g : g = [j \in 1..n |-> <<d.cur, x + j - 1>>]
  OBVIOUS
<1>3. \A j \in 1..n : <<d.cur, x + j - 1>> \in Nat \X Nat
  OBVIOUS
<1>4. /\ g \in Seq(Nat \X Nat) /\ Len(g) = n
      /\ \A j \in 1..n : g[j] = <<d.cur, x + j - 1>>
  BY <1>2, <1>3
<1>5. g = Bytes(d, n)
  BY <1>1, <1>2 DEF Bytes
<1>6. \A j \in 1..n : g[j] = <<d.cur, (d.pos % ClusSize) + j - 1>>
  BY <1>1, <1>4
<1> QED BY <1>4, <1>5, <1>6, Zenon

(* A call with more bytes.                                                   *)
WithBytes(c, y) == [c EXCEPT !.got = y]

LEMMA GotCall ==
  ASSUME NEW c, NEW d, Reading(c, d), NEW y
  PROVE  \E b : /\ b = WithBytes(c, y)
                /\ b = Call(b.pc, "read", b.fd, b.name, b.ret, b.cluster, b.sec, b.len, b.got,
                            b.listed, b.start, b.fault)
                /\ b.fd = c.fd /\ b.len = c.len /\ b.got = y /\ b.start = c.start
<1>0. PICK b : b = WithBytes(c, y)
  OBVIOUS
<1>1. c = Call(c.pc, "read", c.fd, c.name, c.ret, c.cluster, c.sec, c.len, c.got,
               c.listed, c.start, c.fault)
  BY Zenon DEF Reading
<1>2. PICK p, fd, nm, r, cl, s, m, h, l, st, ft :
        /\ c = Call(p, "read", fd, nm, r, cl, s, m, h, l, st, ft)
        /\ fd = c.fd /\ m = c.len /\ st = c.start
  BY <1>1
<1>3. [Call(p, "read", fd, nm, r, cl, s, m, h, l, st, ft) EXCEPT !.got = y] =
      Call(p, "read", fd, nm, r, cl, s, m, y, l, st, ft)
  BY DEF Call
<1>4. b = Call(p, "read", fd, nm, r, cl, s, m, y, l, st, ft)
  BY <1>0, <1>2, <1>3, Zenon DEF WithBytes
<1>5. \A z : z = Call(p, "read", fd, nm, r, cl, s, m, y, l, st, ft) =>
        /\ z.pc = p /\ z.fd = fd /\ z.name = nm /\ z.ret = r /\ z.cluster = cl /\ z.sec = s
        /\ z.len = m /\ z.got = y /\ z.listed = l /\ z.start = st /\ z.fault = ft
  BY DEF Call
<1>6. /\ b.pc = p /\ b.fd = fd /\ b.name = nm /\ b.ret = r /\ b.cluster = cl /\ b.sec = s
      /\ b.len = m /\ b.got = y /\ b.listed = l /\ b.start = st /\ b.fault = ft
  BY <1>4, <1>5, Zenon
<1>7. b = Call(b.pc, "read", b.fd, b.name, b.ret, b.cluster, b.sec, b.len, b.got,
               b.listed, b.start, b.fault)
  BY <1>4, <1>6, Zenon
<1>8. b.fd = c.fd /\ b.len = c.len /\ b.got = y /\ b.start = c.start
  BY <1>2, <1>6, Zenon
<1> QED BY <1>0, <1>7, <1>8, Zenon

(* A copy that stays in its cluster.                                         *)
LEMMA CopiedBytes ==
  ASSUME NEW d, NEW start \in Nat, NEW got \in Seq(Nat \X Nat),
         BytesOf(d.first, start, got), d.pos = start + Len(got), d.cur \in Nat,
         d.cur = ClusterAt(vol.fat, d.first, d.pos \div ClusSize),
         NEW n \in Nat, (d.pos % ClusSize) + n <= ClusSize
  PROVE  BytesOf(d.first, start, got \o Bytes(d, n))
<1>1. Len(got) \in Nat /\ d.pos \in Nat
  OBVIOUS
<1>2. PICK x \in Nat : x = d.pos % ClusSize /\ x + n <= ClusSize
  <2>1. d.pos % ClusSize \in Nat
    BY <1>1, ClusIsNat
  <2> QED BY <2>1
<1>3. PICK g : /\ g = Bytes(d, n) /\ g \in Seq(Nat \X Nat) /\ Len(g) = n
               /\ \A j \in 1..n : g[j] = <<d.cur, (d.pos % ClusSize) + j - 1>>
  <2>1. d.pos % ClusSize \in Nat
    BY <1>2
  <2> QED BY <2>1, BytesAre, Zenon
<1>4. /\ g \in Seq(Nat \X Nat) /\ Len(g) = n
      /\ \A j \in 1..n : g[j] = <<d.cur, x + j - 1>>
  BY <1>2, <1>3
<1>5. PICK h : h = got \o g
  OBVIOUS
<1>6. /\ h \in Seq(Nat \X Nat) /\ Len(h) = Len(got) + n
      /\ \A i \in 1..Len(got) : h[i] = got[i]
      /\ \A j \in 1..n : h[Len(got) + j] = g[j]
  <2> DEFINE T == Nat \X Nat
  <2>1. got \in Seq(T) /\ g \in Seq(T)
    BY <1>4
  <2> HIDE DEF T
  <2>2. /\ h \in Seq(T) /\ Len(h) = Len(got) + Len(g)
        /\ \A i \in 1..Len(got) : h[i] = got[i]
        /\ \A j \in 1..Len(g) : h[Len(got) + j] = g[j]
    BY <1>5, <2>1, Joined
  <2> QED BY <1>4, <2>2 DEF T
<1>7. ASSUME NEW i \in 1..Len(got) + n
      PROVE  h[i] = <<ClusterAt(vol.fat, d.first, (start + i - 1) \div ClusSize),
                      (start + i - 1) % ClusSize>>
  <2>1. CASE i <= Len(got)
    <3>1. i \in 1..Len(got)
      BY <1>1, <2>1
    <3>2. i \in DOMAIN got
      BY <3>1, SeqDomain
    <3>3. h[i] = got[i]
      BY <1>6, <3>1
    <3> QED BY <3>2, <3>3 DEF BytesOf
  <2>2. CASE i > Len(got)
    <3>1. PICK j \in 1..n, m \in Nat : i = Len(got) + j /\ m = j - 1
      <4>1. i - Len(got) \in 1..n
        BY <1>1, <2>2
      <4>2. i = Len(got) + (i - Len(got)) /\ (i - Len(got)) - 1 \in Nat
        BY <1>1, <4>1
      <4> QED BY <4>1, <4>2
    <3>2. h[i] = <<d.cur, x + m>>
      <4>1. h[i] = g[j] /\ g[j] = <<d.cur, x + j - 1>> /\ x + j - 1 = x + m
        BY <1>4, <1>6, <3>1
      <4> QED BY <4>1
    <3>3. start + i - 1 = d.pos + m
      BY <1>1, <3>1
    <3>4. x + m < ClusSize
      <4>1. m < n /\ x + n <= ClusSize /\ m \in Nat /\ x \in Nat /\ n \in Nat
        BY <1>2, <3>1
      <4>2. ClusSize \in Nat
        BY ClusIsNat
      <4> QED BY <4>1, <4>2
    <3>5. (d.pos + m) \div ClusSize = d.pos \div ClusSize /\ (d.pos + m) % ClusSize = x + m
      <4>1. (d.pos % ClusSize) + m < ClusSize
        BY <1>2, <3>4
      <4>2. /\ (d.pos + m) \div ClusSize = d.pos \div ClusSize
            /\ (d.pos + m) % ClusSize = (d.pos % ClusSize) + m
        BY <1>1, <4>1, ClusIsNat, WithinCluster
      <4> QED BY <1>2, <4>2
    <3> QED BY <3>2, <3>3, <3>5
  <2>3. i <= Len(got) \/ i > Len(got)
    BY <1>1
  <2> QED BY <2>1, <2>2, <2>3, Zenon
<1>8. DOMAIN h = 1..Len(got) + n
  BY <1>6
<1>9. BytesOf(d.first, start, h)
  BY <1>7, <1>8 DEF BytesOf
<1> QED BY <1>3, <1>5, <1>9

(* A sector is read, and what is asked for of it is copied.                  *)
LEMMA CopyIs ==
  ASSUME FatInv, NEW ok \in BOOLEAN, ReadSector(ok), ok
  PROVE  LET d == files[call.fd]
             n == ToCopy(d)
         IN  /\ n \in Nat \ {0} /\ d.pos + n <= d.size /\ Len(call.got) + n <= call.len
             /\ (d.pos % ClusSize) + n <= ClusSize
             /\ d.cur \in DOMAIN vol.fat
             /\ d.cur = ClusterAt(vol.fat, d.first, d.pos \div ClusSize)
<1> DEFINE d == files[call.fd]
<1>1. call.pc = "data" /\ OnDisk(d.cur)
  BY DEF ReadSector, Access
<1>2. /\ call.fd \in DOMAIN files /\ Len(call.got) < call.len /\ d.pos < d.size
      /\ call.len \in Nat /\ Len(call.got) \in Nat
  BY <1>1 DEF FatInv, ReadInv, CallInv
<1>3. d.size \in Nat /\ d.pos \in Nat
  BY <1>2 DEF FatInv, FilesInv, DescriptorOK
<1>4. PICK a, b, c : a = SectorSize - (d.pos % SectorSize) /\ b = call.len - Len(call.got)
                     /\ c = d.size - d.pos
  OBVIOUS
<1>5. a \in Nat \ {0} /\ b \in Nat \ {0} /\ c \in Nat \ {0}
  <2>1. SectorSize \in Nat \ {0}
    BY SizeAssumption
  <2>2. PICK r \in 0..SectorSize - 1 : r = d.pos % SectorSize
    <3>1. d.pos % SectorSize \in 0..SectorSize - 1
      BY <1>3, <2>1
    <3> QED BY <3>1
  <2>3. a = SectorSize - r
    BY <1>4, <2>2
  <2>4. a \in Nat \ {0}
    BY <2>1, <2>2, <2>3
  <2>5. b \in Nat \ {0}
    <3>1. b = call.len - Len(call.got)
      BY <1>4
    <3> QED BY <1>2, <3>1
  <2>6. c \in Nat \ {0}
    <3>1. c = d.size - d.pos
      BY <1>4
    <3> QED BY <1>2, <1>3, <3>1
  <2> QED BY <2>4, <2>5, <2>6
<1>6. PICK n : n = Min({a, b, c})
  OBVIOUS
<1>7. n \in Nat \ {0} /\ n <= a /\ n <= b /\ n <= c
  BY <1>5, <1>6, MinOfThree
<1>8. n = ToCopy(d)
  BY <1>4, <1>6 DEF ToCopy
<1>9. d.pos + n <= d.size /\ Len(call.got) + n <= call.len
  <2>1. c = d.size - d.pos /\ b = call.len - Len(call.got)
    BY <1>4
  <2>2. d.pos + n <= d.size
    BY <1>3, <1>7, <2>1
  <2>3. Len(call.got) + n <= call.len
    BY <1>2, <1>7, <2>1
  <2> QED BY <2>2, <2>3
<1>10. (d.pos % ClusSize) + n <= ClusSize
  <2>1. (d.pos % ClusSize) + a <= ClusSize
    BY <1>3, <1>4, ClusIsNat, SizeAssumption, SectorInCluster
  <2>2. d.pos % ClusSize \in Nat /\ ClusSize \in Nat
    BY <1>3, ClusIsNat
  <2>3. PICK x \in Nat : x = d.pos % ClusSize
    BY <2>2
  <2>4. x + a <= ClusSize /\ n <= a /\ n \in Nat /\ a \in Nat
    BY <1>5, <1>7, <2>1, <2>3
  <2>5. x + n <= ClusSize
    BY <2>2, <2>3, <2>4
  <2> QED BY <2>3, <2>5
<1>11. d.cur = ClusterAt(vol.fat, d.first, d.pos \div ClusSize)
  <2>1. Cursor(d)
    BY <1>1, <1>2, AllCursors
  <2>2. d.cur # BAD
    BY <1>1, ClusterRange DEF OnDisk, FatInv
  <2> QED BY <1>2, <1>3, <2>1, <2>2 DEF Cursor
<1> HIDE DEF d
<1>12. d.cur \in DOMAIN vol.fat
  BY <1>1 DEF OnDisk
<1>13. /\ ToCopy(d) \in Nat \ {0} /\ d.pos + ToCopy(d) <= d.size
       /\ Len(call.got) + ToCopy(d) <= call.len /\ (d.pos % ClusSize) + ToCopy(d) <= ClusSize
  BY <1>7, <1>8, <1>9, <1>10, Zenon
<1> QED BY <1>11, <1>12, <1>13 DEF d

(* A descriptor with its position moved on.                                  *)
LEMMA MovedOn ==
  ASSUME FilesInv, NEW fd \in DOMAIN files, NEW n, files' = Copied(fd, n)
  PROVE  /\ DOMAIN files' = DOMAIN files
         /\ files'[fd] = [first |-> files[fd].first, cur |-> files[fd].cur,
                          size |-> files[fd].size, pos |-> files[fd].pos + n]
         /\ \A f \in DOMAIN files : f # fd => files'[f] = files[f]
<1>1. files' = [files EXCEPT ![fd] = [files[fd] EXCEPT !.pos = files[fd].pos + n]]
  BY DEF Copied
<1>2. files[fd] = [first |-> files[fd].first, cur |-> files[fd].cur,
                   size |-> files[fd].size, pos |-> files[fd].pos]
  BY Zenon DEF FilesInv, DescriptorOK
<1>3. [files[fd] EXCEPT !.pos = files[fd].pos + n] =
      [first |-> files[fd].first, cur |-> files[fd].cur,
       size |-> files[fd].size, pos |-> files[fd].pos + n]
  BY <1>2
<1> QED BY <1>1, <1>3

LEMMA ReadSectorKeeps == ASSUME FatInv, NEW ok \in BOOLEAN, ReadSector(ok) PROVE FatInv'
<1>1. call.pc = "data" /\ vol' = vol
  BY DEF ReadSector
<1>2. PICK ft, c : ft = Faulted(ok) /\ c = [call EXCEPT !.fault = ft]
  OBVIOUS
<1>3. PICK d : d = files[call.fd]
  OBVIOUS
<1>4. /\ call.fd \in DOMAIN files /\ Reading(c, d) /\ c.fd = call.fd
      /\ c.got = call.got /\ c.len = call.len /\ c.start = call.start
  BY <1>1, <1>2, <1>3, UnderWay
<1>5. CASE ~ok
  <2>1. files' = files /\ call' = Return(c, -1)
    BY <1>2, <1>5 DEF ReadSector
  <2> QED BY <1>1, <1>2, <2>1, FailKeeps
<1>6. CASE ok
  <2>1. PICK n, y : n = ToCopy(d) /\ y = c.got \o Bytes(d, n)
    OBVIOUS
  <2>2. PICK b :
           /\ b = WithBytes(c, y)
           /\ b = Call(b.pc, "read", b.fd, b.name, b.ret, b.cluster, b.sec, b.len, b.got,
                       b.listed, b.start, b.fault)
           /\ b.fd = c.fd /\ b.len = c.len /\ b.got = y /\ b.start = c.start
    BY <1>4, GotCall
  <2>3. files' = Copied(call.fd, n) /\ call' = AfterCopy(b, files'[call.fd])
    BY <1>2, <1>3, <1>6, <2>1, <2>2 DEF ReadSector, WithBytes
  <2>4. /\ n \in Nat \ {0} /\ d.pos + n <= d.size /\ Len(c.got) + n <= c.len
        /\ (d.pos % ClusSize) + n <= ClusSize
        /\ d.cur \in DOMAIN vol.fat
        /\ d.cur = ClusterAt(vol.fat, d.first, d.pos \div ClusSize)
    BY <1>3, <1>4, <1>6, <2>1, CopyIs
  <2>5. DescriptorOK(d) /\ FilesInv /\ VolumeOK(vol)
    BY <1>3, <1>4 DEF FatInv, FilesInv
  <2>6. d.cur \in Nat
    BY <2>4, <2>5, ClusterRange
  <2>7. /\ c.start \in Nat /\ c.got \in Seq(Nat \X Nat) /\ d.pos = c.start + Len(c.got)
        /\ BytesOf(d.first, c.start, c.got) /\ c.len \in Nat /\ Len(c.got) \in Nat
    BY <1>4 DEF Reading
  <2>8. BytesOf(d.first, c.start, y)
    BY <2>1, <2>4, <2>6, <2>7, CopiedBytes
  <2>9. y \in Seq(Nat \X Nat) /\ Len(y) = Len(c.got) + n
    <3>1. d.pos % ClusSize \in Nat
      <4>1. d.pos \in Nat
        BY <2>7
      <4> QED BY <4>1, ClusIsNat
    <3>2. n \in Nat
      BY <2>4
    <3>3. PICK g : g = Bytes(d, n) /\ g \in Seq(Nat \X Nat) /\ Len(g) = n
      BY <2>6, <3>1, <3>2, BytesAre, Zenon
    <3> DEFINE T == Nat \X Nat
    <3>4. c.got \in Seq(T) /\ g \in Seq(T) /\ y = c.got \o g
      BY <2>1, <2>7, <3>3
    <3> HIDE DEF T
    <3>5. y \in Seq(T) /\ Len(y) = Len(c.got) + Len(g)
      BY <3>4, Joined
    <3> QED BY <3>3, <3>5 DEF T
  <2>10. PICK e : e = [first |-> d.first, cur |-> d.cur, size |-> d.size, pos |-> d.pos + n]
    OBVIOUS
  <2>11. e.first = d.first /\ e.cur = d.cur /\ e.size = d.size /\ e.pos = d.pos + n
    BY <2>10
  <2>12. /\ DOMAIN files' = DOMAIN files /\ files'[call.fd] = e
         /\ \A f \in DOMAIN files : f # call.fd => files'[f] = files[f]
    BY <1>3, <1>4, <2>3, <2>5, <2>10, MovedOn
  <2>13. Reading(b, e)
    <3>1. Len(y) <= c.len /\ e.pos = c.start + Len(y)
      BY <2>4, <2>7, <2>9, <2>11
    <3> QED BY <2>7, <2>8, <2>9, <2>11, <2>2, <3>1 DEF Reading
  <2>14. DescriptorOK(e)
    <3>1. e = [first |-> e.first, cur |-> e.cur, size |-> e.size, pos |-> e.pos]
      BY <2>10, <2>11, Zenon
    <3>2. e.size \in Nat /\ e.pos \in 0..e.size
      BY <2>4, <2>5, <2>11 DEF DescriptorOK
    <3>3. e.size > 0 => Holds(vol.fat, e.first, e.size)
      BY <2>5, <2>11 DEF DescriptorOK
    <3> QED BY <3>1, <3>2, <3>3 DEF DescriptorOK
  <2>15. \A f \in DOMAIN files' : /\ DescriptorOK(files'[f])
                                  /\ f # call.fd => Cursor(files'[f])
    <3>1. \A f \in DOMAIN files : DescriptorOK(files[f]) /\ Cursor(files[f])
      BY <1>1, AllCursors DEF FatInv, FilesInv
    <3> QED BY <2>12, <2>14, <3>1
  <2>16. d.pos \in Nat /\ e.pos \in Nat /\ ClusSize \in Nat \ {0} /\ e.pos > 0
    BY <2>4, <2>7, <2>11, ClusIsNat
  <2>17. \/ /\ (d.pos + n) % ClusSize = 0
            /\ (d.pos + n) \div ClusSize = d.pos \div ClusSize + 1
         \/ /\ (d.pos + n) % ClusSize # 0
            /\ (d.pos + n) \div ClusSize = d.pos \div ClusSize
    BY <2>4, <2>16, OnOrPast
  <2>18. CASE e.pos % ClusSize = 0
    <3>1. call' = [b EXCEPT !.pc = "datafat"]
      BY <2>3, <2>12, <2>18 DEF AfterCopy
    <3>2. call' = Call("datafat", "read", b.fd, b.name, b.ret, b.cluster, b.sec, b.len,
                       b.got, b.listed, b.start, b.fault)
      BY <2>13, <3>1, ReadCall
    <3>3. /\ call'.pc = "datafat" /\ call'.op = "read" /\ call'.fd = b.fd
          /\ call'.len = b.len /\ call'.got = b.got /\ call'.start = b.start
      BY <3>2 DEF Call
    <3>4. PICK k \in Nat : k = d.pos \div ClusSize
      BY <2>16
    <3>5. e.pos \div ClusSize = k + 1
      <4>1. (d.pos + n) \div ClusSize = d.pos \div ClusSize + 1
        BY <2>11, <2>17, <2>18
      <4> QED BY <2>11, <3>4, <4>1
    <3>6. e.cur \in DOMAIN vol.fat /\ e.cur = ClusterAt(vol.fat, e.first, k)
      BY <2>4, <2>11, <3>4
    <3>7. Len(b.got) <= b.len /\ e.pos = b.start + Len(b.got)
      BY <2>13 DEF Reading
    <3>8. ReadInv'
      <4>1. files'[call'.fd] = e /\ call'.fd \in DOMAIN files' /\ vol' = vol
        BY <1>1, <1>4, <2>12, <2>2, <3>3
      <4> QED BY <2>16, <2>18, <3>3, <3>5, <3>6, <3>7, <4>1 DEF ReadInv
    <3>9. ReadsOn(b, e, "datafat", b.ret)
      <4>1. b.fd = call.fd
        BY <1>4, <2>2
      <4>2. \A f \in DOMAIN files' :
              DescriptorOK(files'[f]) /\ (~("datafat" = "datafat" /\ f = b.fd) => Cursor(files'[f]))
        BY <2>15, <4>1
      <4> QED BY <1>1, <2>12, <2>13, <3>2, <3>8, <4>1, <4>2 DEF ReadsOn
    <3> QED BY <3>9, ReadStep
  <2>19. CASE e.pos % ClusSize # 0
    <3>1. call' = Loop(b, e)
      BY <2>3, <2>12, <2>19 DEF AfterCopy
    <3>2. Cursor(e)
      <4>1. (d.pos + n) \div ClusSize = d.pos \div ClusSize
        BY <2>11, <2>17, <2>19
      <4>2. e.cur = ClusterAt(vol.fat, e.first, e.pos \div ClusSize)
        BY <2>4, <2>11, <4>1
      <4> QED BY <4>2 DEF Cursor
    <3>3. b.fd = call.fd /\ call.fd \in DOMAIN files'
      BY <1>4, <2>12, <2>2
    <3>4. \A f \in DOMAIN files' : DescriptorOK(files'[f]) /\ Cursor(files'[f])
      BY <2>12, <2>15, <3>2
    <3>5. Moved(b, e)
      BY <1>1, <2>12, <2>13, <3>3, <3>4 DEF Moved
    <3> QED BY <3>1, <3>5, LoopStep
  <2> QED BY <2>18, <2>19
<1> QED BY <1>5, <1>6

(* A descriptor with its cluster changed.                                    *)
LEMMA Linked ==
  ASSUME FilesInv, NEW fd \in DOMAIN files, NEW n,
         files' = [files EXCEPT ![fd].cur = n]
  PROVE  /\ DOMAIN files' = DOMAIN files
         /\ files'[fd] = [first |-> files[fd].first, cur |-> n,
                          size |-> files[fd].size, pos |-> files[fd].pos]
         /\ \A f \in DOMAIN files : f # fd => files'[f] = files[f]
<1>1. files' = [files EXCEPT ![fd] = [files[fd] EXCEPT !.cur = n]]
  OBVIOUS
<1>2. files[fd] = [first |-> files[fd].first, cur |-> files[fd].cur,
                   size |-> files[fd].size, pos |-> files[fd].pos]
  BY Zenon DEF FilesInv, DescriptorOK
<1>3. [files[fd] EXCEPT !.cur = n] =
      [first |-> files[fd].first, cur |-> n, size |-> files[fd].size, pos |-> files[fd].pos]
  BY <1>2
<1> QED BY <1>1, <1>3

LEMMA ReadLinkKeeps == ASSUME FatInv, NEW ok \in BOOLEAN, ReadLink(ok) PROVE FatInv'
<1>1. call.pc = "datafat" /\ vol' = vol
  BY DEF ReadLink
<1>2. PICK ft, c : ft = Faulted(ok) /\ c = [call EXCEPT !.fault = ft]
  OBVIOUS
<1>3. PICK d, n : d = files[call.fd] /\ n = FatEntry(d.cur, ok)
  OBVIOUS
<1>4. /\ call.fd \in DOMAIN files /\ Reading(c, d) /\ c.fd = call.fd
      /\ c.got = call.got /\ c.len = call.len /\ c.start = call.start
  BY <1>1, <1>2, <1>3, UnderWay
<1>5. /\ files' = [files EXCEPT ![call.fd].cur = n]
      /\ call' = IF n >= EOC THEN Return(c, Len(c.got)) ELSE Loop(c, d)
  BY <1>2, <1>3 DEF ReadLink
<1>6. PICK k \in Nat : /\ d.pos \div ClusSize = k + 1 /\ d.cur \in DOMAIN vol.fat
                       /\ d.cur = ClusterAt(vol.fat, d.first, k)
  BY <1>1, <1>3 DEF FatInv, ReadInv
<1>7. DescriptorOK(d) /\ FilesInv /\ VolumeOK(vol)
  BY <1>3, <1>4 DEF FatInv, FilesInv
<1>8. n = BAD \/ n = ClusterAt(vol.fat, d.first, d.pos \div ClusSize)
  <2>1. ClusterAt(vol.fat, d.first, k + 1) = vol.fat[d.cur]
    BY <1>6, ChainNext
  <2>2. n = BAD \/ n = vol.fat[d.cur]
    BY <1>3 DEF FatEntry
  <2> QED BY <1>6, <2>1, <2>2
<1>9. PICK e : e = [first |-> d.first, cur |-> n, size |-> d.size, pos |-> d.pos]
  OBVIOUS
<1>10. e.first = d.first /\ e.cur = n /\ e.size = d.size /\ e.pos = d.pos
  BY <1>9
<1>11. /\ DOMAIN files' = DOMAIN files /\ files'[call.fd] = e
       /\ \A f \in DOMAIN files : f # call.fd => files'[f] = files[f]
  <2>1. files' = [files EXCEPT ![call.fd].cur = n]
    BY <1>5
  <2>2. /\ DOMAIN files' = DOMAIN files
        /\ files'[call.fd] = [first |-> files[call.fd].first, cur |-> n,
                              size |-> files[call.fd].size, pos |-> files[call.fd].pos]
        /\ \A f \in DOMAIN files : f # call.fd => files'[f] = files[f]
    BY <1>4, <1>7, <2>1, Linked
  <2> QED BY <1>3, <1>9, <2>2
<1>12. DescriptorOK(e) /\ Cursor(e)
  <2>1. e = [first |-> e.first, cur |-> e.cur, size |-> e.size, pos |-> e.pos]
    BY <1>9, <1>10, Zenon
  <2>2. /\ e.size \in Nat /\ e.pos \in 0..e.size
        /\ e.size > 0 => Holds(vol.fat, e.first, e.size)
    BY <1>7, <1>10 DEF DescriptorOK
  <2> QED BY <1>8, <1>10, <2>1, <2>2 DEF DescriptorOK, Cursor
<1>13. Reading(c, e)
  BY <1>4, <1>10 DEF Reading
<1>14. Moved(c, e)
  <2>1. \A f \in DOMAIN files : /\ DescriptorOK(files[f])
                                /\ f # call.fd => Cursor(files[f])
    BY <1>1 DEF FatInv, FilesInv, CursorOnChain, Cursor
  <2>2. \A f \in DOMAIN files' : DescriptorOK(files'[f]) /\ Cursor(files'[f])
    BY <1>11, <1>12, <2>1
  <2> QED BY <1>1, <1>4, <1>11, <1>13, <2>2 DEF Moved
<1>15. CASE n >= EOC
  <2>1. d.pos = d.size
    <3>1. d.pos \in Nat /\ d.size \in Nat /\ d.pos <= d.size
      BY <1>7 DEF DescriptorOK
    <3>2. CASE d.pos < d.size
      <4>1. Holds(vol.fat, d.first, d.size)
        BY <1>7, <3>1, <3>2 DEF DescriptorOK
      <4>2. ClusterAt(vol.fat, d.first, d.pos \div ClusSize) \in DOMAIN vol.fat
        BY <3>1, <3>2, <4>1, ChainGoesOn
      <4>3. BAD \in Int /\ EOC \in Nat /\ BAD < EOC
        BY SizeAssumption DEF BAD
      <4>4. n \in Int /\ n < EOC
        BY <1>7, <1>8, <4>2, <4>3, ClusterRange
      <4> QED BY <1>15, <4>3, <4>4
    <3> QED BY <3>1, <3>2
  <2>2. call' = Return(c, Len(c.got))
    BY <1>5, <1>15
  <2> QED BY <1>10, <1>14, <2>1, <2>2, EndStep
<1>16. CASE ~(n >= EOC)
  <2>1. call' = Loop(c, d) /\ d.pos = e.pos /\ d.size = e.size
    BY <1>5, <1>10, <1>16
  <2> QED BY <1>14, <2>1, LoopStep
<1> QED BY <1>15, <1>16

-----------------------------------------------------------------------------
LEMMA FatInvStep == ASSUME FatInv, [Next]_vars PROVE FatInv'
<1>1. ASSUME NEW name \in Names, fat32_open(name) PROVE FatInv'
  BY <1>1, OpenKeeps
<1>2. CASE fat32_ls
  BY <1>2, LsKeeps
<1>3. ASSUME NEW fd \in DOMAIN files, NEW len \in Lens, fat32_read(fd, len) PROVE FatInv'
  BY <1>3, ReadKeeps
<1>4. ASSUME NEW fd \in DOMAIN files, fat32_close(fd) PROVE FatInv'
  BY <1>4, CloseKeeps
<1>5. ASSUME NEW ok \in BOOLEAN, OpenSector(ok) PROVE FatInv'
  BY <1>5, OpenSectorKeeps
<1>6. ASSUME NEW ok \in BOOLEAN, LsSector(ok) PROVE FatInv'
  BY <1>6, LsSectorKeeps
<1>7. ASSUME NEW ok \in BOOLEAN, DirLink(ok) PROVE FatInv'
  BY <1>7, DirLinkKeeps
<1>8. ASSUME NEW ok \in BOOLEAN, ReadSector(ok) PROVE FatInv'
  BY <1>8, ReadSectorKeeps
<1>9. ASSUME NEW ok \in BOOLEAN, ReadLink(ok) PROVE FatInv'
  BY <1>9, ReadLinkKeeps
<1>10. CASE UNCHANGED vars
  BY <1>10 DEF vars, FatInv, FilesInv, DescriptorOK, CallInv, ScanInv, ReadInv,
               CursorOnChain, GotIsFile
<1> QED BY <1>1, <1>2, <1>3, <1>4, <1>5, <1>6, <1>7, <1>8, <1>9, <1>10 DEF Next, Step

(* fat32_open, _ls, _read and _close: on every well-formed volume, for every *)
(* size of sectors and clusters and whatever accesses fail, every byte that  *)
(* a read delivers is the file's, a read that succeeds has all there is, and *)
(* the cursor of every descriptor stays where its position is.               *)
THEOREM ReadCorrect == FilesSpec => []ReadIsFile
<1>1. FilesInit => FatInv
  BY FatInvInit DEF FilesInit
<1>2. FatInv /\ [FilesNext]_filesVars => FatInv'
  BY FatInvStep DEF FilesNext, FatStep, VfsStep, VefStep, ProgramStep, filesVars
<1>3. FatInv => ReadIsFile
  BY DEF FatInv, ReadIsFile
<1> QED BY <1>1, <1>2, <1>3, PTL DEF FilesSpec

-----------------------------------------------------------------------------
(* FlattenSeq: its partial results, which a function gives from 0 on.        *)
Joins(T, s, f) ==
    /\ f \in [0..Len(s) -> Seq(T)] /\ f[0] = <<>>
    /\ \A i \in 1..Len(s) : f[i] = f[i - 1] \o s[i]

LEMMA JoinsExist == ASSUME NEW T, NEW s \in Seq(Seq(T)) PROVE \E f : Joins(T, s, f)
<1> DEFINE Upto(k) == \E f \in [0..k -> Seq(T)] :
                         f[0] = <<>> /\ \A i \in 1..k : f[i] = f[i - 1] \o s[i]
           R == {k \in Nat : k <= Len(s) => Upto(k)}
<1>1. 0 \in R
  <2> DEFINE f == [i \in 0..0 |-> <<>>]
  <2>1. f \in [0..0 -> Seq(T)] /\ f[0] = <<>> /\ \A i \in 1..0 : f[i] = f[i - 1] \o s[i]
    OBVIOUS
  <2> QED BY <2>1
<1>2. ASSUME NEW k \in Nat, k \in R PROVE k + 1 \in R
  <2> HIDE DEF Upto
  <2>0. k + 1 \in Nat /\ (k + 1 <= Len(s) => k <= Len(s))
    OBVIOUS
  <2>1. SUFFICES ASSUME k + 1 <= Len(s) PROVE Upto(k + 1)
    BY <2>0
  <2>2. Upto(k)
    BY <1>2, <2>0, <2>1
  <2> USE DEF Upto
  <2>3. PICK f \in [0..k -> Seq(T)] : f[0] = <<>> /\ \A i \in 1..k : f[i] = f[i - 1] \o s[i]
    BY <2>2
  <2> DEFINE g == [i \in 0..k + 1 |-> IF i <= k THEN f[i] ELSE f[k] \o s[k + 1]]
  <2>4. s[k + 1] \in Seq(T) /\ k \in 0..k
    <3>1. k + 1 \in 1..Len(s)
      BY <2>1
    <3> QED BY <3>1
  <2>5. f[k] \o s[k + 1] \in Seq(T)
    BY <2>4
  <2>6. g \in [0..k + 1 -> Seq(T)]
    BY <2>5
  <2>7. g[0] = <<>>
    BY <2>3
  <2>8. ASSUME NEW i \in 1..k + 1 PROVE g[i] = g[i - 1] \o s[i]
    <3>1. i - 1 \in 0..k + 1 /\ i - 1 <= k /\ i \in 0..k + 1
      OBVIOUS
    <3>2. CASE i <= k
      <4>1. i \in 1..k
        BY <3>2
      <4> QED BY <2>3, <3>1, <3>2, <4>1
    <3>3. CASE i = k + 1
      <4>1. ~(i <= k) /\ i - 1 = k
        BY <3>3
      <4> QED BY <3>1, <3>3, <4>1
    <3>4. i <= k \/ i = k + 1
      OBVIOUS
    <3> QED BY <3>2, <3>3, <3>4
  <2> HIDE DEF g
  <2> QED BY <2>6, <2>7, <2>8
<1> HIDE DEF R
<1>3. \A k \in Nat : k \in R
  BY <1>1, <1>2, SetInduction
<1>4. Len(s) \in Nat /\ Len(s) <= Len(s)
  OBVIOUS
<1>5. Upto(Len(s))
  BY <1>3, <1>4 DEF R
<1> QED BY <1>5 DEF Joins

LEMMA FlattenIs ==
  ASSUME NEW T, NEW s \in Seq(Seq(T)), NEW f, Joins(T, s, f)
  PROVE  FlattenSeq(s) = f[Len(s)] /\ FlattenSeq(s) \in Seq(T)
<1> DEFINE body(g) == [i \in 1..Len(s) |-> IF i = 1 THEN s[i] ELSE g[i - 1] \o s[i]]
           F == CHOOSE g : g = [i \in 1..Len(s) |-> IF i = 1 THEN s[i] ELSE g[i - 1] \o s[i]]
<1>1. Len(s) \in Nat
  OBVIOUS
<1>2. CASE Len(s) = 0
  <2>1. FlattenSeq(s) = s /\ s = <<>>
    BY <1>2 DEF FlattenSeq
  <2>2. f[Len(s)] = <<>>
    BY <1>2 DEF Joins
  <2>3. <<>> \in Seq(T)
    OBVIOUS
  <2> QED BY <2>1, <2>2, <2>3
<1>3. CASE Len(s) # 0
  <2>1. FlattenSeq(s) = F[Len(s)]
    BY <1>3, Zenon DEF FlattenSeq
  <2>2. \E g : g = [i \in 1..Len(s) |-> IF i = 1 THEN s[i] ELSE g[i - 1] \o s[i]]
    <3> DEFINE g == [i \in 1..Len(s) |-> f[i]]
    <3>1. ASSUME NEW i \in 1..Len(s)
          PROVE  g[i] = IF i = 1 THEN s[i] ELSE g[i - 1] \o s[i]
      <4>1. f[i] = f[i - 1] \o s[i] /\ s[i] \in Seq(T)
        BY DEF Joins
      <4>2. CASE i = 1
        <5>1. f[i - 1] = <<>>
          BY <4>2 DEF Joins
        <5>2. <<>> \o s[i] = s[i]
          BY <4>1
        <5> QED BY <4>1, <4>2, <5>1, <5>2
      <4>3. CASE i # 1
        <5>1. i - 1 \in 1..Len(s)
          BY <4>3
        <5> QED BY <4>1, <4>3, <5>1
      <4> QED BY <4>2, <4>3
    <3>2. g = [i \in 1..Len(s) |-> IF i = 1 THEN s[i] ELSE g[i - 1] \o s[i]]
      BY <3>1
    <3> QED BY <3>2, Zenon
  <2>3. F = [i \in 1..Len(s) |-> IF i = 1 THEN s[i] ELSE F[i - 1] \o s[i]]
    BY <2>2
  <2> HIDE DEF F
  <2> DEFINE R == {n \in Nat : n \in 1..Len(s) => F[n] = f[n]}
  <2>4. 0 \in R
    OBVIOUS
  <2>5. ASSUME NEW n \in Nat, n \in R PROVE n + 1 \in R
    <3>1. SUFFICES ASSUME n + 1 \in 1..Len(s) PROVE F[n + 1] = f[n + 1]
      OBVIOUS
    <3>2. f[n + 1] = f[n] \o s[n + 1] /\ s[n + 1] \in Seq(T)
      <4>1. (n + 1) - 1 = n
        OBVIOUS
      <4>2. f[n + 1] = f[(n + 1) - 1] \o s[n + 1]
        BY <3>1 DEF Joins
      <4>3. s[n + 1] \in Seq(T)
        BY <3>1
      <4> QED BY <4>1, <4>2, <4>3
    <3>3. CASE n = 0
      <4>1. F[n + 1] = s[n + 1]
        BY <2>3, <3>1, <3>3
      <4>2. f[n] = <<>>
        BY <3>3 DEF Joins
      <4>3. <<>> \o s[n + 1] = s[n + 1]
        BY <3>2
      <4> QED BY <3>2, <4>1, <4>2, <4>3
    <3>4. CASE n # 0
      <4>1. n \in 1..Len(s) /\ n + 1 # 1 /\ (n + 1) - 1 = n
        BY <3>1, <3>4
      <4>2. F[n] = f[n]
        BY <2>5, <4>1
      <4>3. F[n + 1] = F[n] \o s[n + 1]
        BY <2>3, <3>1, <4>1
      <4> QED BY <3>2, <4>2, <4>3
    <3> QED BY <3>3, <3>4
  <2> HIDE DEF R
  <2>6. \A n \in Nat : n \in R
    BY <2>4, <2>5, SetInduction
  <2>7. F[Len(s)] = f[Len(s)]
    BY <1>1, <1>3, <2>6 DEF R
  <2>8. f[Len(s)] \in Seq(T)
    BY <1>1 DEF Joins
  <2> QED BY <2>1, <2>7, <2>8
<1> QED BY <1>2, <1>3

LEMMA ConcatAssoc ==
  ASSUME NEW T
  PROVE  \A x, y, z \in Seq(T) : (x \o y) \o z = x \o (y \o z)
  OBVIOUS

(* The flattening of a concatenation, of one sequence, and of none.          *)
LEMMA FlattenConcat ==
  ASSUME NEW T, NEW a \in Seq(Seq(T)), NEW b \in Seq(Seq(T))
  PROVE  FlattenSeq(a \o b) = FlattenSeq(a) \o FlattenSeq(b)
<1>1. a \o b \in Seq(Seq(T)) /\ Len(a \o b) = Len(a) + Len(b)
      /\ Len(a) \in Nat /\ Len(b) \in Nat
  OBVIOUS
<1>2. PICK f : Joins(T, a, f)
  BY JoinsExist
<1>3. PICK g : Joins(T, b, g)
  BY JoinsExist
<1>4. PICK h : Joins(T, a \o b, h)
  BY <1>1, JoinsExist
<1>5. \A i \in 1..Len(a) : (a \o b)[i] = a[i]
  OBVIOUS
<1>6. \A j \in 1..Len(b) : (a \o b)[Len(a) + j] = b[j]
  OBVIOUS
<1> DEFINE R == {n \in Nat : n <= Len(a) => h[n] = f[n]}
           S1 == {n \in Nat : n <= Len(b) => h[Len(a) + n] = f[Len(a)] \o g[n]}
<1>7. 0 \in R
  BY <1>2, <1>4 DEF Joins
<1>8. ASSUME NEW n \in Nat, n \in R PROVE n + 1 \in R
  <2>1. SUFFICES ASSUME n + 1 <= Len(a) PROVE h[n + 1] = f[n + 1]
    OBVIOUS
  <2>2. n + 1 \in 1..Len(a) /\ n + 1 \in 1..Len(a \o b) /\ (n + 1) - 1 = n /\ n <= Len(a)
    BY <1>1, <2>1
  <2>3. h[n + 1] = h[n] \o (a \o b)[n + 1]
    BY <1>4, <2>2 DEF Joins
  <2>4. f[n + 1] = f[n] \o a[n + 1]
    BY <1>2, <2>2 DEF Joins
  <2> QED BY <1>5, <1>8, <2>2, <2>3, <2>4
<1> HIDE DEF R
<1>9. \A n \in Nat : n \in R
  BY <1>7, <1>8, SetInduction
<1>10. h[Len(a)] = f[Len(a)] /\ f[Len(a)] \in Seq(T)
  BY <1>1, <1>2, <1>9 DEF R, Joins
<1>11. 0 \in S1
  <2>1. g[0] = <<>>
    BY <1>3 DEF Joins
  <2>2. f[Len(a)] \o <<>> = f[Len(a)]
    BY <1>10
  <2>3. Len(a) + 0 = Len(a)
    BY <1>1
  <2> QED BY <1>10, <2>1, <2>2, <2>3
<1>12. ASSUME NEW n \in Nat, n \in S1 PROVE n + 1 \in S1
  <2>0. n + 1 \in Nat
    OBVIOUS
  <2>1. SUFFICES ASSUME n + 1 <= Len(b) PROVE h[Len(a) + (n + 1)] = f[Len(a)] \o g[n + 1]
    BY <2>0, Zenon
  <2>2. /\ n + 1 \in 1..Len(b) /\ Len(a) + (n + 1) \in 1..Len(a \o b)
        /\ (n + 1) - 1 = n /\ n <= Len(b) /\ (Len(a) + (n + 1)) - 1 = Len(a) + n
    BY <1>1, <2>1
  <2>3. h[Len(a) + (n + 1)] = h[Len(a) + n] \o b[n + 1]
    BY <1>4, <1>6, <2>2 DEF Joins
  <2>4. g[n + 1] = g[n] \o b[n + 1]
    BY <1>3, <2>2 DEF Joins
  <2>5. h[Len(a) + n] = f[Len(a)] \o g[n]
    BY <1>12, <2>2
  <2>6. g[n] \in Seq(T) /\ b[n + 1] \in Seq(T)
    <3>1. n \in 0..Len(b)
      BY <1>1, <2>2
    <3>2. g[n] \in Seq(T)
      BY <1>3, <3>1 DEF Joins
    <3> QED BY <2>2, <3>2
  <2>7. (f[Len(a)] \o g[n]) \o b[n + 1] = f[Len(a)] \o (g[n] \o b[n + 1])
    <3> DEFINE u == f[Len(a)]
               v == g[n]
               w == b[n + 1]
    <3>1. u \in Seq(T) /\ v \in Seq(T) /\ w \in Seq(T)
      BY <1>10, <2>6
    <3> HIDE DEF u, v, w
    <3>2. (u \o v) \o w = u \o (v \o w)
      BY <3>1, ConcatAssoc
    <3> QED BY <3>2 DEF u, v, w
  <2> QED BY <2>3, <2>4, <2>5, <2>7
<1> HIDE DEF S1
<1>13. \A n \in Nat : n \in S1
  BY <1>11, <1>12, SetInduction
<1>14. h[Len(a) + Len(b)] = f[Len(a)] \o g[Len(b)]
  <2>1. Len(b) <= Len(b)
    BY <1>1
  <2> QED BY <1>1, <1>13, <2>1, Zenon DEF S1
<1>15. FlattenSeq(a \o b) = h[Len(a \o b)]
  BY <1>1, <1>4, FlattenIs
<1> QED BY <1>1, <1>2, <1>3, <1>14, <1>15, FlattenIs

LEMMA FlattenOne ==
  ASSUME NEW T, NEW x \in Seq(T)
  PROVE  FlattenSeq(<<x>>) = x /\ FlattenSeq(<<>>) = <<>>
<1>1. <<x>> \in Seq(Seq(T)) /\ Len(<<x>>) = 1 /\ <<x>>[1] = x
  OBVIOUS
<1>2. PICK f : Joins(T, <<x>>, f)
  BY <1>1, JoinsExist
<1>3. f[1] = <<>> \o x
  <2>1. 1 \in 1..Len(<<x>>) /\ 1 - 1 = 0
    BY <1>1
  <2>2. f[1] = f[1 - 1] \o <<x>>[1] /\ f[0] = <<>>
    BY <1>2, <2>1 DEF Joins
  <2> QED BY <1>1, <2>1, <2>2
<1>4. <<>> \o x = x
  OBVIOUS
<1>5. FlattenSeq(<<x>>) = x
  BY <1>1, <1>2, <1>3, <1>4, FlattenIs
<1>6. FlattenSeq(<<>>) = <<>>
  BY DEF FlattenSeq
<1> QED BY <1>5, <1>6

LEMMA SeqSame ==
  ASSUME NEW T, NEW s \in Seq(T), NEW t \in Seq(T), Len(s) = Len(t),
         \A i \in 1..Len(s) : s[i] = t[i]
  PROVE  s = t
  OBVIOUS

(* Shown goes through a concatenation piece by piece.                        *)
Picked(entries) == [i \in DOMAIN entries |->
    IF entries[i].kind \in {"file", "dir"} THEN <<entries[i]>> ELSE <<>>]

LEMMA PickedIs ==
  ASSUME NEW T, NEW s \in Seq(T)
  PROVE  /\ Picked(s) \in Seq(Seq(T)) /\ Len(Picked(s)) = Len(s) /\ Shown(s) = FlattenSeq(Picked(s))
         /\ \A i \in 1..Len(s) :
               Picked(s)[i] = IF s[i].kind \in {"file", "dir"} THEN <<s[i]>> ELSE <<>>
<1>1. DOMAIN s = 1..Len(s) /\ Len(s) \in Nat
  OBVIOUS
<1>2. \A i \in 1..Len(s) : s[i] \in T
  OBVIOUS
<1>3. \A i \in 1..Len(s) : <<s[i]>> \in Seq(T) /\ <<>> \in Seq(T)
  BY <1>2
<1>4. Picked(s) \in [1..Len(s) -> Seq(T)]
  BY <1>1, <1>3 DEF Picked
<1>5. Picked(s) \in Seq(Seq(T)) /\ Len(Picked(s)) = Len(s)
  BY <1>1, <1>4
<1>6. Shown(s) = FlattenSeq(Picked(s))
  BY DEF Shown, Picked
<1> QED BY <1>1, <1>5, <1>6 DEF Picked

LEMMA ShownConcat ==
  ASSUME NEW T, NEW a \in Seq(T), NEW b \in Seq(T)
  PROVE  Shown(a \o b) = Shown(a) \o Shown(b)
<1>1. a \o b \in Seq(T) /\ Len(a \o b) = Len(a) + Len(b)
  OBVIOUS
<1> DEFINE p == Picked(a)
           q == Picked(b)
           r == Picked(a \o b)
<1>2. p \in Seq(Seq(T)) /\ Len(p) = Len(a) /\ q \in Seq(Seq(T)) /\ Len(q) = Len(b)
      /\ r \in Seq(Seq(T)) /\ Len(r) = Len(a \o b)
  BY <1>1, PickedIs
<1>0. /\ \A j \in 1..Len(a) : p[j] = IF a[j].kind \in {"file", "dir"} THEN <<a[j]>> ELSE <<>>
      /\ \A j \in 1..Len(b) : q[j] = IF b[j].kind \in {"file", "dir"} THEN <<b[j]>> ELSE <<>>
      /\ \A j \in 1..Len(a \o b) :
           r[j] = IF (a \o b)[j].kind \in {"file", "dir"} THEN <<(a \o b)[j]>> ELSE <<>>
  BY <1>1, PickedIs
<1>5. Shown(a \o b) = FlattenSeq(r) /\ Shown(a) = FlattenSeq(p) /\ Shown(b) = FlattenSeq(q)
  BY <1>1, PickedIs
<1> HIDE DEF p, q, r
<1>7. /\ p \o q \in Seq(Seq(T)) /\ Len(p \o q) = Len(p) + Len(q)
      /\ \A i \in 1..Len(p) : (p \o q)[i] = p[i]
      /\ \A j \in 1..Len(q) : (p \o q)[Len(p) + j] = q[j]
  <2> DEFINE U == Seq(T)
  <2>1. p \in Seq(U) /\ q \in Seq(U)
    BY <1>2
  <2> HIDE DEF U
  <2>2. /\ p \o q \in Seq(U) /\ Len(p \o q) = Len(p) + Len(q)
        /\ \A i \in 1..Len(p) : (p \o q)[i] = p[i]
        /\ \A j \in 1..Len(q) : (p \o q)[Len(p) + j] = q[j]
    BY <2>1, Joined
  <2> QED BY <2>2 DEF U
<1>3. p \o q \in Seq(Seq(T)) /\ Len(p \o q) = Len(r)
  BY <1>1, <1>2, <1>7
<1>4. ASSUME NEW i \in 1..Len(r) PROVE r[i] = (p \o q)[i]
  <2>1. CASE i <= Len(a)
    <3>1. i \in 1..Len(a) /\ i \in 1..Len(a \o b)
      BY <1>2, <2>1
    <3>2. (a \o b)[i] = a[i] /\ (p \o q)[i] = p[i]
      BY <1>2, <1>7, <3>1
    <3> QED BY <1>0, <3>1, <3>2
  <2>2. CASE i > Len(a)
    <3>1. PICK j \in 1..Len(b) : i = Len(a) + j
      <4>1. i - Len(a) \in 1..Len(b) /\ i = Len(a) + (i - Len(a))
        BY <1>1, <1>2, <2>2
      <4> QED BY <4>1
    <3>2. (a \o b)[i] = b[j]
      BY <3>1
    <3>4. (p \o q)[i] = q[j]
      <4>1. j \in 1..Len(q) /\ i = Len(p) + j
        BY <1>2, <3>1
      <4> HIDE <3>1
      <4> QED BY <1>7, <4>1
    <3>3. i \in 1..Len(a \o b)
      BY <1>2
    <3> QED BY <1>0, <3>1, <3>2, <3>3, <3>4
  <2>3. i <= Len(a) \/ i > Len(a)
    BY <1>2
  <2> QED BY <2>1, <2>2, <2>3, Zenon
<1>6. r = p \o q
  <2> DEFINE pq == p \o q
  <2>1. pq \in Seq(Seq(T)) /\ Len(r) = Len(pq) /\ \A i \in 1..Len(r) : r[i] = pq[i]
    BY <1>3, <1>4
  <2> HIDE DEF pq
  <2>2. r = pq
    BY <1>2, <2>1, SeqSame
  <2> QED BY <2>2 DEF pq
<1> QED BY <1>2, <1>5, <1>6, FlattenConcat

LEMMA ShownNone == Shown(<<>>) = <<>>
  BY DEF Shown, FlattenSeq

(* The entries up to the first free one are a prefix, as long as can be.     *)
Upto(s, k) == /\ k \in 0..Len(s) /\ Before(s) = SubSeq(s, 1, k)
              /\ \A j \in 1..k : s[j].kind # "end"
              /\ k < Len(s) => s[k + 1].kind = "end"

LEMMA BeforeIs ==
  ASSUME NEW T, NEW s \in Seq(T) PROVE \E k \in 0..Len(s) : Upto(s, k)
<1> DEFINE I == {i \in 1..Len(s) : s[i].kind = "end"}
           end == IF I # {} THEN Min(I) ELSE 0
<1>1. Before(s) = IF end = 0 THEN s ELSE SubSeq(s, 1, end - 1)
  BY DEF Before, SelectInSeq
<1>2. Len(s) \in Nat /\ I \subseteq Nat
  OBVIOUS
<1>3. CASE I = {}
  <2>1. Before(s) = s
    BY <1>1, <1>3
  <2>2. SubSeq(s, 1, Len(s)) = s
    OBVIOUS
  <2>3. \A j \in 1..Len(s) : s[j].kind # "end"
    BY <1>3
  <2>4. Len(s) \in 0..Len(s) /\ ~(Len(s) < Len(s))
    BY <1>2
  <2>5. Upto(s, Len(s))
    BY <2>1, <2>2, <2>3, <2>4 DEF Upto
  <2> QED BY <2>4, <2>5, Zenon
<1>4. CASE I # {}
  <2>1. PICK m \in I : \A y \in I : m <= y
    <3> HIDE DEF I
    <3> QED BY <1>2, <1>4, LeastExists
  <2>2. Min(I) = m
    <3>1. \A x \in I : (\A y \in I : x <= y) => x = m
      BY <1>2, <2>1
    <3> HIDE DEF I
    <3> QED BY <2>1, <3>1 DEF Min
  <2>3. m \in 1..Len(s) /\ s[m].kind = "end"
    OBVIOUS
  <2>4. Before(s) = SubSeq(s, 1, m - 1)
    <3>1. end = m
      BY <1>4, <2>2
    <3> HIDE DEF end
    <3> QED BY <1>1, <2>3, <3>1
  <2>5. ASSUME NEW j \in 1..m - 1 PROVE s[j].kind # "end"
    <3>1. j \in 1..Len(s) /\ ~(m <= j)
      BY <1>2, <2>3
    <3> QED BY <2>1, <3>1
  <2>6. m - 1 \in 0..Len(s) /\ (m - 1) + 1 = m
    BY <1>2, <2>3
  <2> QED BY <2>3, <2>4, <2>5, <2>6 DEF Upto
<1> QED BY <1>3, <1>4

LEMMA BeforeUpto ==
  ASSUME NEW T, NEW s \in Seq(T), NEW k \in 0..Len(s),
         \A j \in 1..k : s[j].kind # "end", k < Len(s) => s[k + 1].kind = "end"
  PROVE  Before(s) = SubSeq(s, 1, k)
<1>1. PICK m \in 0..Len(s) : Upto(s, m)
  BY BeforeIs
<1>2. Len(s) \in Nat
  OBVIOUS
<1>3. ~(m < k)
  <2>1. ASSUME m < k PROVE FALSE
    <3>1. m + 1 \in 1..k /\ m < Len(s)
      BY <1>2, <2>1
    <3> QED BY <1>1, <3>1 DEF Upto
  <2> QED BY <2>1
<1>4. ~(k < m)
  <2>1. ASSUME k < m PROVE FALSE
    <3>1. k + 1 \in 1..m /\ k < Len(s)
      BY <1>2, <2>1
    <3> QED BY <1>1, <3>1 DEF Upto
  <2> QED BY <2>1
<1>5. m = k
  BY <1>2, <1>3, <1>4
<1> QED BY <1>1, <1>5 DEF Upto

(* No free entry.                                                            *)
Endless(s) == \A j \in 1..Len(s) : s[j].kind # "end"

(* A free entry in the middle piece: what is before it.                      *)
LEMMA BeforeInMiddle ==
  ASSUME NEW T, NEW a \in Seq(T), NEW b \in Seq(T), NEW c \in Seq(T),
         Endless(a), NEW k \in 0..Len(b), Upto(b, k), k < Len(b)
  PROVE  Before((a \o b) \o c) = a \o SubSeq(b, 1, k)
<1> DEFINE s == (a \o b) \o c
           m == Len(a) + k
<1>1. /\ s \in Seq(T) /\ Len(s) = (Len(a) + Len(b)) + Len(c)
      /\ Len(a) \in Nat /\ Len(b) \in Nat /\ Len(c) \in Nat
  OBVIOUS
<1>2. \A j \in 1..Len(a) : s[j] = a[j]
  OBVIOUS
<1>3. \A j \in 1..Len(b) : s[Len(a) + j] = b[j]
  OBVIOUS
<1> HIDE DEF s
<1>4. m \in 0..Len(s) /\ m < Len(s) /\ m + 1 = Len(a) + (k + 1) /\ k + 1 \in 1..Len(b)
  BY <1>1
<1>5. ASSUME NEW j \in 1..m PROVE s[j].kind # "end"
  <2>1. CASE j <= Len(a)
    <3>1. j \in 1..Len(a)
      BY <1>1, <2>1
    <3> QED BY <1>2, <3>1 DEF Endless
  <2>2. CASE j > Len(a)
    <3>1. PICK i \in 1..k : j = Len(a) + i
      <4>1. j - Len(a) \in 1..k /\ j = Len(a) + (j - Len(a))
        BY <1>1, <2>2
      <4> QED BY <4>1
    <3>2. i \in 1..Len(b)
      BY <1>1
    <3> QED BY <1>3, <3>1, <3>2 DEF Upto
  <2> QED BY <1>1, <2>1, <2>2
<1>6. s[m + 1].kind = "end"
  BY <1>3, <1>4 DEF Upto
<1>7. Before(s) = SubSeq(s, 1, m)
  BY <1>1, <1>4, <1>5, <1>6, BeforeUpto
<1>8. SubSeq(s, 1, m) = a \o SubSeq(b, 1, k)
  <2> DEFINE u == SubSeq(s, 1, m)
             v == SubSeq(b, 1, k)
             w == a \o v
  <2>1. u \in Seq(T) /\ Len(u) = m /\ \A j \in 1..m : u[j] = s[j]
    BY <1>1, <1>4
  <2>2. v \in Seq(T) /\ Len(v) = k /\ \A j \in 1..k : v[j] = b[j]
    BY <1>1
  <2> HIDE DEF u, v
  <2>3. w \in Seq(T) /\ Len(w) = m
    <3>1. w \in Seq(T) /\ Len(w) = Len(a) + Len(v)
      BY <2>2, Joined
    <3> QED BY <2>2, <3>1
  <2>4. ASSUME NEW j \in 1..m PROVE u[j] = w[j]
    <3>1. CASE j <= Len(a)
      <4>1. j \in 1..Len(a)
        BY <1>1, <3>1
      <4>2. w[j] = a[j]
        BY <1>1, <2>2, <4>1
      <4> QED BY <1>2, <2>1, <4>1, <4>2
    <3>2. CASE j > Len(a)
      <4>1. PICK i \in 1..k : j = Len(a) + i
        <5>1. j - Len(a) \in 1..k /\ j = Len(a) + (j - Len(a))
          BY <1>1, <3>2
        <5> QED BY <5>1
      <4>2. i \in 1..Len(b)
        BY <1>1
      <4>3. w[j] = v[i]
        BY <1>1, <2>2, <4>1
      <4> QED BY <1>3, <2>1, <2>2, <4>1, <4>2, <4>3
    <3>3. j <= Len(a) \/ j > Len(a)
      BY <1>1
    <3> QED BY <3>1, <3>2, <3>3, Zenon
  <2> HIDE DEF w
  <2>5. u = w
    BY <2>1, <2>3, <2>4, SeqSame
  <2> QED BY <2>5 DEF u, v, w
<1> QED BY <1>7, <1>8 DEF s

(* The directory: its clusters, its sectors, and the entries in them.        *)
Clusters == CHOOSE n \in 1..Cardinality(DOMAIN vol.fat) : Chain(vol.fat, vol.root, n)
SectorCount == Clusters * SecPerClus
Entries == UNION {UNION {Range(sector) : sector \in Range(vol.dir[c])} : c \in DOMAIN vol.dir}
Seen(n) == FlattenSeq([i \in 1..n |-> Sector(i)])

LEMMA ClustersAre ==
  ASSUME VolumeOK(vol) PROVE Clusters \in Nat \ {0} /\ Chain(vol.fat, vol.root, Clusters)
<1>1. \E n \in 1..Cardinality(DOMAIN vol.fat) : Chain(vol.fat, vol.root, n)
  BY DEF VolumeOK, Holds
<1>2. /\ Clusters \in 1..Cardinality(DOMAIN vol.fat)
      /\ Chain(vol.fat, vol.root, Clusters)
  BY <1>1, Zenon DEF Clusters
<1>3. \A m : 1..m \subseteq Nat \ {0}
  OBVIOUS
<1> QED BY <1>2, <1>3

LEMMA ChainInDir ==
  ASSUME VolumeOK(vol)
  PROVE  \A k \in Nat : k < Clusters => ClusterAt(vol.fat, vol.root, k) \in DOMAIN vol.dir
<1> DEFINE at(k) == ClusterAt(vol.fat, vol.root, k)
           R == {k \in Nat : k < Clusters => at(k) \in DOMAIN vol.dir}
<1>1. 0 \in R
  BY ChainFirst DEF VolumeOK
<1>2. ASSUME NEW k \in Nat, k \in R PROVE k + 1 \in R
  <2>0. k + 1 \in Nat
    OBVIOUS
  <2>1. SUFFICES ASSUME k + 1 < Clusters PROVE at(k + 1) \in DOMAIN vol.dir
    BY <2>0, Zenon
  <2>2. k < Clusters /\ k + 1 \in 0..Clusters - 1
    BY <2>1, ClustersAre
  <2>3. at(k) \in DOMAIN vol.dir
    BY <1>2, <2>2
  <2>4. at(k + 1) = vol.fat[at(k)]
    BY ChainNext
  <2>5. at(k + 1) \in DOMAIN vol.dir \cup EndMarks
    BY <2>3, <2>4 DEF VolumeOK
  <2>6. at(k + 1) \in DOMAIN vol.fat
    BY <2>2, ClustersAre DEF Chain
  <2> HIDE DEF at
  <2> QED BY <2>5, <2>6, ClusterRange
<1> HIDE DEF R
<1>3. \A k \in Nat : k \in R
  BY <1>1, <1>2, SetInduction
<1> QED BY <1>3 DEF R

LEMMA SectorOfDir ==
  ASSUME VolumeOK(vol), NEW c \in DOMAIN vol.dir, NEW s \in 0..SecPerClus - 1
  PROVE  vol.dir[c][s + 1] \in Seq(Entries)
<1>1. DOMAIN vol.dir[c] = 1..SecPerClus /\ s + 1 \in 1..SecPerClus
  BY SizeAssumption DEF VolumeOK
<1>2. PICK sector : sector = vol.dir[c][s + 1]
  OBVIOUS
<1>3. sector \in Range(vol.dir[c])
  BY <1>1, <1>2 DEF Range
<1>4. sector \in Seq(Range(sector))
  BY <1>3 DEF VolumeOK
<1>5. Range(sector) \subseteq Entries
  BY <1>3 DEF Entries
<1>6. sector \in Seq(Entries)
  BY <1>4, <1>5
<1> QED BY <1>2, <1>6

LEMMA SectorIs ==
  ASSUME VolumeOK(vol), NEW k \in Nat, k < Clusters, NEW s \in 0..SecPerClus - 1,
         NEW n, n = k * SecPerClus + s
  PROVE  /\ n \in Nat /\ n < SectorCount
         /\ Sector(n + 1) = vol.dir[ClusterAt(vol.fat, vol.root, k)][s + 1]
<1>1. SecPerClus \in Nat \ {0} /\ Clusters \in Nat
  BY SizeAssumption, ClustersAre
<1>2. n \in Nat
  BY <1>1
<1>3. n \div SecPerClus = k /\ n % SecPerClus = s
  BY <1>1, <1>2, DivIs
<1>4. (n + 1) - 1 = n
  BY <1>2
<1>5. Sector(n + 1) = vol.dir[ClusterAt(vol.fat, vol.root, k)][s + 1]
  BY <1>3, <1>4 DEF Sector
<1>6. n < SectorCount
  <2>1. (k + 1) * SecPerClus <= SectorCount
    BY <1>1, MulMono DEF SectorCount
  <2>2. (k + 1) * SecPerClus = k * SecPerClus + SecPerClus
    BY <1>1
  <2>3. k * SecPerClus \in Nat /\ SectorCount \in Nat
    BY <1>1 DEF SectorCount
  <2> QED BY <1>1, <2>1, <2>2, <2>3
<1> QED BY <1>2, <1>5, <1>6

LEMMA SectorIsSeq ==
  ASSUME VolumeOK(vol), NEW n \in Nat, n < SectorCount PROVE Sector(n + 1) \in Seq(Entries)
<1>1. SecPerClus \in Nat \ {0} /\ Clusters \in Nat
  BY SizeAssumption, ClustersAre
<1>2. PICK k \in Nat, s \in 0..SecPerClus - 1 :
          n \div SecPerClus = k /\ n % SecPerClus = s /\ n = k * SecPerClus + s
  BY <1>1, DivModFacts
<1>3. k < Clusters
  <2>1. CASE Clusters <= k
    <3>1. Clusters * SecPerClus <= k * SecPerClus
      BY <1>1, <2>1, MulMono
    <3>2. Clusters * SecPerClus \in Nat /\ k * SecPerClus \in Nat
      BY <1>1
    <3> QED BY <1>2, <3>1, <3>2 DEF SectorCount
  <2> QED BY <1>1, <2>1
<1>4. Sector(n + 1) = vol.dir[ClusterAt(vol.fat, vol.root, k)][s + 1]
  BY <1>2, <1>3, SectorIs
<1> QED BY <1>3, <1>4, ChainInDir, SectorOfDir

(* What has been seen grows by a sector, and the rest follows it.            *)
SectorList(m, n) == [i \in 1..n |-> Sector(m + i)]

LEMMA SectorListIs ==
  ASSUME VolumeOK(vol), NEW m \in Nat, NEW n \in Nat, m + n <= SectorCount
  PROVE  SectorList(m, n) \in Seq(Seq(Entries)) /\ Len(SectorList(m, n)) = n
<1>1. ASSUME NEW i \in 1..n PROVE Sector(m + i) \in Seq(Entries)
  <2>1. SectorCount \in Nat
    BY SizeAssumption, ClustersAre DEF SectorCount
  <2>2. m + (i - 1) \in Nat /\ m + (i - 1) < SectorCount /\ (m + (i - 1)) + 1 = m + i
    BY <2>1
  <2>3. Sector((m + (i - 1)) + 1) \in Seq(Entries)
    BY <2>2, SectorIsSeq
  <2> QED BY <2>2, <2>3
<1>2. SectorList(m, n) \in [1..n -> Seq(Entries)]
  BY <1>1 DEF SectorList
<1> QED BY <1>2

LEMMA SeenNext ==
  ASSUME VolumeOK(vol), NEW n \in Nat, n < SectorCount
  PROVE  /\ Seen(n) \in Seq(Entries) /\ Sector(n + 1) \in Seq(Entries)
         /\ Seen(n + 1) = Seen(n) \o Sector(n + 1)
<1>0. SectorCount \in Nat
  BY SizeAssumption, ClustersAre DEF SectorCount
<1>1. Sector(n + 1) \in Seq(Entries)
  BY SectorIsSeq
<1> DEFINE U == Seq(Entries)
           a == [i \in 1..n |-> Sector(i)]
           b == <<Sector(n + 1)>>
           c == [i \in 1..n + 1 |-> Sector(i)]
<1>2. a \in Seq(U) /\ Len(a) = n
  <2>1. \A i \in 1..n : 0 + i = i
    OBVIOUS
  <2>2. a = SectorList(0, n)
    BY <2>1 DEF SectorList
  <2>3. 0 + n <= SectorCount /\ 0 \in Nat
    BY <1>0
  <2> QED BY <2>2, <2>3, SectorListIs
<1>3. c \in Seq(U) /\ Len(c) = n + 1
  <2>1. \A i \in 1..n + 1 : 0 + i = i
    OBVIOUS
  <2>2. c = SectorList(0, n + 1)
    BY <2>1 DEF SectorList
  <2>3. 0 + (n + 1) <= SectorCount /\ 0 \in Nat /\ n + 1 \in Nat
    BY <1>0
  <2> QED BY <2>2, <2>3, SectorListIs
<1>4. b \in Seq(U) /\ Len(b) = 1 /\ b[1] = Sector(n + 1)
  BY <1>1
<1>5. \A i \in 1..n + 1 : c[i] = IF i <= n THEN a[i] ELSE b[1]
  OBVIOUS
<1>6. Seen(n) = FlattenSeq(a) /\ Seen(n + 1) = FlattenSeq(c)
  BY DEF Seen
<1>7. Seen(n) \in Seq(Entries)
  BY <1>2, <1>6, JoinsExist, FlattenIs
<1>8. FlattenSeq(b) = Sector(n + 1)
  BY <1>1, FlattenOne
<1> HIDE DEF a, b, c
<1>9. c = a \o b
  <2> DEFINE ab == a \o b
  <2>1. U = U
    OBVIOUS
  <2> HIDE DEF U
  <2>2. /\ ab \in Seq(U) /\ Len(ab) = Len(a) + Len(b)
        /\ \A i \in 1..Len(a) : ab[i] = a[i]
        /\ \A j \in 1..Len(b) : ab[Len(a) + j] = b[j]
    BY <1>2, <1>4, Joined
  <2> HIDE DEF ab
  <2>3. ASSUME NEW i \in 1..Len(c) PROVE c[i] = ab[i]
    <3>1. CASE i <= n
      <4>1. i \in 1..Len(a) /\ i \in 1..n + 1
        BY <1>2, <3>1
      <4> QED BY <1>5, <2>2, <3>1, <4>1
    <3>2. CASE i = n + 1
      <4>1. 1 \in 1..Len(b) /\ i = Len(a) + 1 /\ ~(i <= n) /\ i \in 1..n + 1
        BY <1>2, <1>4, <3>2
      <4> QED BY <1>5, <2>2, <4>1
    <3>3. i <= n \/ i = n + 1
      BY <1>3
    <3> QED BY <3>1, <3>2, <3>3, Zenon
  <2>4. Len(c) = Len(ab)
    BY <1>2, <1>3, <1>4, <2>2
  <2>5. c = ab
    BY <1>3, <2>2, <2>3, <2>4, SeqSame
  <2> QED BY <2>5 DEF ab
<1>10. FlattenSeq(c) = FlattenSeq(a) \o FlattenSeq(b)
  BY <1>2, <1>4, <1>9, FlattenConcat
<1> QED BY <1>1, <1>6, <1>7, <1>8, <1>10

LEMMA SeenIs ==
  ASSUME VolumeOK(vol), NEW n \in Nat, n <= SectorCount
  PROVE  Seen(n) = FlattenSeq(SectorList(0, n)) /\ Seen(n) \in Seq(Entries)
<1>1. SectorList(0, n) = [i \in 1..n |-> Sector(i)]
  <2>1. \A i \in 1..n : 0 + i = i
    OBVIOUS
  <2> QED BY <2>1 DEF SectorList
<1>2. SectorList(0, n) \in Seq(Seq(Entries))
  <2>1. 0 + n <= SectorCount /\ 0 \in Nat
    OBVIOUS
  <2> QED BY <2>1, SectorListIs
<1>3. FlattenSeq(SectorList(0, n)) \in Seq(Entries)
  BY <1>2, JoinsExist, FlattenIs
<1> QED BY <1>1, <1>3 DEF Seen

LEMMA SeenRest ==
  ASSUME VolumeOK(vol), NEW n \in Nat, n <= SectorCount
  PROVE  \E rest \in Seq(Entries) : Seen(SectorCount) = Seen(n) \o rest
<1>0. SectorCount \in Nat /\ SectorCount - n \in Nat
  BY SizeAssumption, ClustersAre DEF SectorCount
<1> DEFINE m == SectorCount - n
           a == SectorList(0, n)
           b == SectorList(n, m)
           c == SectorList(0, SectorCount)
           U == Seq(Entries)
<1>1. a \in Seq(U) /\ Len(a) = n
  <2>1. 0 + n <= SectorCount /\ 0 \in Nat
    OBVIOUS
  <2> QED BY <2>1, SectorListIs
<1>2. b \in Seq(U) /\ Len(b) = m
  <2>1. n + m <= SectorCount /\ m \in Nat
    BY <1>0
  <2> QED BY <2>1, SectorListIs
<1>3. c \in Seq(U) /\ Len(c) = SectorCount
  <2>1. 0 + SectorCount <= SectorCount /\ 0 \in Nat
    BY <1>0
  <2> QED BY <1>0, <2>1, SectorListIs
<1>4. ASSUME NEW i \in 1..SectorCount
      PROVE  c[i] = IF i <= n THEN a[i] ELSE b[i - n]
  <2>1. 0 + i = i
    OBVIOUS
  <2>2. CASE i <= n
    BY <2>1, <2>2 DEF SectorList
  <2>3. CASE ~(i <= n)
    <3>1. i - n \in 1..m /\ n + (i - n) = i
      BY <1>0, <2>3
    <3> HIDE DEF m
    <3> QED BY <2>1, <2>3, <3>1 DEF SectorList
  <2> QED BY <2>2, <2>3
<1>5. Seen(n) = FlattenSeq(a) /\ Seen(SectorCount) = FlattenSeq(c)
  BY <1>0, SeenIs
<1>6. FlattenSeq(b) \in Seq(Entries)
  BY <1>2, JoinsExist, FlattenIs
<1>7. n + m = SectorCount /\ m \in Nat
  BY <1>0
<1> HIDE DEF a, b, c, m
<1>8. c = a \o b
  <2> DEFINE ab == a \o b
  <2>1. a \in Seq(U) /\ b \in Seq(U) /\ c \in Seq(U)
    BY <1>1, <1>2, <1>3
  <2>0. Len(a) = n /\ Len(b) = m /\ Len(c) = SectorCount
    BY <1>1, <1>2, <1>3
  <2> HIDE DEF U
  <2>2. /\ ab \in Seq(U) /\ Len(ab) = Len(a) + Len(b)
        /\ \A i \in 1..Len(a) : ab[i] = a[i]
        /\ \A j \in 1..Len(b) : ab[Len(a) + j] = b[j]
    BY <2>1, Joined
  <2> HIDE DEF ab
  <2>3. ASSUME NEW i \in 1..Len(c) PROVE c[i] = ab[i]
    <3>1. CASE i <= n
      <4>1. i \in 1..Len(a) /\ i \in 1..SectorCount
        BY <2>0, <1>7, <3>1
      <4> QED BY <1>4, <2>2, <3>1, <4>1
    <3>2. CASE ~(i <= n)
      <4>1. i - n \in 1..Len(b) /\ i = Len(a) + (i - n) /\ i \in 1..SectorCount
        BY <2>0, <1>7, <3>2
      <4> QED BY <1>4, <2>2, <3>2, <4>1
    <3> QED BY <3>1, <3>2
  <2>4. Len(c) = Len(ab)
    BY <2>0, <1>7, <2>2
  <2>5. c = ab
    BY <2>1, <2>2, <2>3, <2>4, SeqSame
  <2> QED BY <2>5 DEF ab
<1>9. FlattenSeq(c) = FlattenSeq(a) \o FlattenSeq(b)
  BY <1>1, <1>2, <1>8, FlattenConcat
<1> QED BY <1>5, <1>6, <1>9

LEMMA DirectoryIs == Directory = Before(Seen(SectorCount))
  BY DEF Directory, Seen, SectorCount, Clusters

LEMMA EndsIs == ASSUME NEW T, NEW s \in Seq(T) PROVE Ends(s) <=> ~Endless(s)
<1>1. DOMAIN s = 1..Len(s)
  OBVIOUS
<1> QED BY <1>1 DEF Ends, Endless, Range

LEMMA Split ==
  ASSUME VolumeOK(vol), NEW n \in Nat, n < SectorCount
  PROVE  \E rest \in Seq(Entries) :
            /\ Seen(SectorCount) = (Seen(n) \o Sector(n + 1)) \o rest
            /\ Seen(n) \in Seq(Entries) /\ Sector(n + 1) \in Seq(Entries)
<1>1. n + 1 <= SectorCount /\ n + 1 \in Nat
  BY SizeAssumption, ClustersAre DEF SectorCount
<1> QED BY <1>1, SeenNext, SeenRest

(* A match in sector n + 1 is the directory's first of the name.             *)
LEMMA FoundInSector ==
  ASSUME NEW a \in Seq(Entries), NEW b \in Seq(Entries), NEW c \in Seq(Entries), NEW name,
         Endless(a), Named(a, name) = {}, Matching(b, name) # {},
         NEW d, d = Before((a \o b) \o c)
  PROVE  /\ Named(d, name) # {}
         /\ d[Min(Named(d, name))] = b[Min(Matching(b, name))]
<1> DEFINE s == (a \o b) \o c
<1>1. /\ s \in Seq(Entries) /\ Len(s) = (Len(a) + Len(b)) + Len(c)
      /\ Len(a) \in Nat /\ Len(b) \in Nat /\ Len(c) \in Nat
  OBVIOUS
<1>2. \A j \in 1..Len(a) : s[j] = a[j]
  OBVIOUS
<1>3. \A j \in 1..Len(b) : s[Len(a) + j] = b[j]
  OBVIOUS
<1> HIDE DEF s
<1>4. DOMAIN a = 1..Len(a) /\ DOMAIN b = 1..Len(b)
  OBVIOUS
<1>5. Matching(b, name) \subseteq Nat /\ Matching(b, name) \subseteq 1..Len(b)
  BY <1>1, <1>4 DEF Matching
<1>6. PICK i \in Matching(b, name) : \A j \in Matching(b, name) : i <= j
  BY <1>5, LeastExists
<1>7. Min(Matching(b, name)) = i
  <2>1. \A x \in Matching(b, name) : (\A y \in Matching(b, name) : x <= y) => x = i
    BY <1>5, <1>6
  <2> QED BY <1>6, <2>1 DEF Min
<1>8. /\ i \in 1..Len(b) /\ b[i].kind \in Open /\ b[i].name = name
      /\ \A j \in 1..i : b[j].kind # "end"
  BY <1>4, <1>6 DEF Matching
<1>9. PICK p : p = Len(a) + i
  OBVIOUS
<1>10. p \in 1..Len(s) /\ s[p] = b[i]
  <2>1. s[Len(a) + i] = b[i]
    BY <1>3, <1>8
  <2>2. Len(a) + i \in 1..Len(s)
    BY <1>1, <1>8
  <2> QED BY <1>9, <2>1, <2>2
<1>11. ASSUME NEW q \in 1..p PROVE s[q].kind # "end"
  <2>1. CASE q <= Len(a)
    <3>1. q \in 1..Len(a)
      BY <1>1, <2>1
    <3> QED BY <1>2, <3>1 DEF Endless
  <2>2. CASE q > Len(a)
    <3>1. q - Len(a) \in 1..i /\ q - Len(a) \in 1..Len(b) /\ q = Len(a) + (q - Len(a))
      BY <1>1, <1>8, <1>9, <2>2
    <3> QED BY <1>3, <1>8, <3>1
  <2>3. q <= Len(a) \/ q > Len(a)
    BY <1>1
  <2> QED BY <2>1, <2>2, <2>3, Zenon
<1>12. PICK k \in 0..Len(s) : Upto(s, k)
  BY <1>1, BeforeIs
<1>13. p <= k
  <2>1. ASSUME k < p PROVE FALSE
    <3>1. k + 1 \in 1..p /\ k < Len(s)
      BY <1>10, <2>1
    <3> QED BY <1>11, <1>12, <3>1 DEF Upto
  <2> QED BY <1>10, <2>1
<1>14. d = SubSeq(s, 1, k)
  BY <1>12 DEF Upto, s
<1>15. DOMAIN d = 1..k /\ \A q \in 1..k : d[q] = s[q]
  BY <1>1, <1>14
<1>16. p \in Named(d, name)
  <2>1. p \in 1..k
    BY <1>10, <1>13
  <2> QED BY <1>8, <1>10, <1>15, <2>1 DEF Named
<1>17. ASSUME NEW q \in Named(d, name) PROVE p <= q
  <2>1. q \in 1..k /\ s[q].kind \in Open /\ s[q].name = name
    BY <1>15 DEF Named
  <2>2. SUFFICES ASSUME q < p PROVE FALSE
    BY <1>10, <2>1
  <2>3. CASE q <= Len(a)
    <3>1. q \in 1..Len(a)
      BY <1>1, <2>1, <2>3
    <3>2. q \in Named(a, name)
      BY <1>2, <1>4, <2>1, <3>1 DEF Named
    <3> QED BY <3>2
  <2>4. CASE q > Len(a)
    <3>1. PICK j : j = q - Len(a)
      OBVIOUS
    <3>2. j \in 1..i /\ j \in 1..Len(b) /\ q = Len(a) + j /\ j < i
      <4>1. Len(a) \in Nat /\ Len(b) \in Nat /\ i \in 1..Len(b) /\ q \in Int
        BY <1>1, <1>8, <2>1
      <4>2. q < Len(a) + i /\ q > Len(a) /\ j = q - Len(a)
        BY <1>9, <2>2, <2>4, <3>1
      <4> QED BY <4>1, <4>2
    <3>3. b[j].kind \in Open /\ b[j].name = name
      BY <1>3, <2>1, <3>2
    <3>4. \A x \in 1..j : b[x].kind # "end"
      <4>1. \A x \in 1..j : x \in 1..i
        BY <3>2, <1>8
      <4> QED BY <1>8, <4>1
    <3>5. j \in Matching(b, name)
      BY <1>4, <3>2, <3>3, <3>4 DEF Matching
    <3>6. i <= j
      BY <1>6, <3>5
    <3> QED BY <1>8, <3>2, <3>6
  <2>5. q <= Len(a) \/ q > Len(a)
    BY <1>1, <2>1
  <2> QED BY <2>3, <2>4, <2>5, Zenon
<1>18. Min(Named(d, name)) = p
  <2>1. Named(d, name) \subseteq Nat
    BY <1>15 DEF Named
  <2>2. \A x \in Named(d, name) : (\A y \in Named(d, name) : x <= y) => x = p
    BY <1>16, <1>17, <2>1
  <2> QED BY <1>16, <1>17, <2>2 DEF Min
<1>19. d[p] = b[i]
  BY <1>10, <1>13, <1>15
<1> QED BY <1>7, <1>16, <1>18, <1>19

(* A sector without one, whole or up to a free entry, adds none.             *)
LEMMA NoneInSector ==
  ASSUME NEW T, NEW a \in Seq(T), NEW b \in Seq(T), NEW name,
         Named(a, name) = {}, Matching(b, name) = {},
         NEW k \in 0..Len(b), \A j \in 1..k : b[j].kind # "end"
  PROVE  Named(a \o SubSeq(b, 1, k), name) = {}
<1> DEFINE v == SubSeq(b, 1, k)
           w == a \o v
<1>1. Len(b) \in Nat /\ Len(a) \in Nat /\ DOMAIN a = 1..Len(a) /\ DOMAIN b = 1..Len(b)
  OBVIOUS
<1>2. v \in Seq(T) /\ Len(v) = k /\ \A j \in 1..k : v[j] = b[j]
  BY <1>1
<1> HIDE DEF v
<1>3. /\ DOMAIN w = 1..Len(a) + k
      /\ \A j \in 1..Len(a) : w[j] = a[j]
      /\ \A j \in 1..k : w[Len(a) + j] = v[j]
  BY <1>1, <1>2
<1> HIDE DEF w
<1>4. ASSUME NEW q \in Named(w, name) PROVE FALSE
  <2>1. q \in 1..Len(a) + k /\ w[q].kind \in Open /\ w[q].name = name
    BY <1>3 DEF Named
  <2>2. CASE q <= Len(a)
    <3>1. q \in 1..Len(a)
      BY <1>1, <2>1, <2>2
    <3>2. q \in Named(a, name)
      BY <1>1, <1>3, <2>1, <3>1 DEF Named
    <3> QED BY <3>2
  <2>3. CASE q > Len(a)
    <3>1. PICK j \in 1..k : q = Len(a) + j
      <4>1. q - Len(a) \in 1..k /\ q = Len(a) + (q - Len(a))
        BY <1>1, <2>1, <2>3
      <4> QED BY <4>1
    <3>2. j \in 1..Len(b) /\ 1..j \subseteq 1..k
      BY <1>1
    <3>3. w[q] = b[j]
      BY <1>2, <1>3, <3>1
    <3>4. j \in Matching(b, name)
      BY <1>1, <2>1, <3>2, <3>3 DEF Matching
    <3> QED BY <3>4
  <2>4. q <= Len(a) \/ q > Len(a)
    BY <1>1, <2>1
  <2> QED BY <2>2, <2>3, <2>4, Zenon
<1> QED BY <1>4 DEF w, v

(* Where the scan of a call stands: it has passed the first n sectors.       *)
Passed(c, n) ==
    /\ n \in Nat /\ n <= SectorCount /\ Endless(Seen(n))
    /\ c.op = "open" => Named(Seen(n), c.name) = {}
    /\ c.op = "ls" => c.listed = Shown(Seen(n))

ScanAt(c) ==
    \/ c.pc = "dir" /\ c.cluster \notin DOMAIN vol.fat
    \/ \E k \in Nat : /\ k < Clusters /\ c.cluster = ClusterAt(vol.fat, vol.root, k)
                      /\ c.pc = "dir" => Passed(c, k * SecPerClus + c.sec)
                      /\ c.pc = "dirfat" => Passed(c, (k + 1) * SecPerClus)

Claimed(c) == c.op = "open" => c.fd # -1

DirInv == call.pc \in {"dir", "dirfat"} => ScanAt(call) /\ Claimed(call)

LEMMA CountIsNat == ASSUME VolumeOK(vol) PROVE SectorCount \in Nat
  BY SizeAssumption, ClustersAre DEF SectorCount

LEMMA WholeSeq == ASSUME NEW T, NEW s \in Seq(T) PROVE SubSeq(s, 1, Len(s)) = s
  OBVIOUS

LEMMA EndlessConcat ==
  ASSUME NEW T, NEW a \in Seq(T), NEW b \in Seq(T), Endless(a), Endless(b)
  PROVE  Endless(a \o b)
<1> DEFINE s == a \o b
<1>1. /\ Len(s) = Len(a) + Len(b) /\ Len(a) \in Nat /\ Len(b) \in Nat
      /\ \A j \in 1..Len(a) : s[j] = a[j]
      /\ \A j \in 1..Len(b) : s[Len(a) + j] = b[j]
  OBVIOUS
<1> HIDE DEF s
<1>2. ASSUME NEW j \in 1..Len(s) PROVE s[j].kind # "end"
  <2>1. CASE j <= Len(a)
    <3>1. j \in 1..Len(a)
      BY <1>1, <2>1
    <3> QED BY <1>1, <3>1 DEF Endless
  <2>2. CASE j > Len(a)
    <3>1. j - Len(a) \in 1..Len(b) /\ Len(a) + (j - Len(a)) = j
      BY <1>1, <2>2
    <3>2. s[j] = b[j - Len(a)]
      BY <1>1, <3>1
    <3> QED BY <3>1, <3>2 DEF Endless
  <2>3. j <= Len(a) \/ j > Len(a)
    BY <1>1
  <2> QED BY <2>1, <2>2, <2>3, Zenon
<1> QED BY <1>2 DEF Endless, s

LEMMA EndlessBefore ==
  ASSUME NEW T, NEW s \in Seq(T), Endless(s) PROVE Before(s) = s
<1>1. Len(s) \in 0..Len(s) /\ ~(Len(s) < Len(s))
  OBVIOUS
<1>2. Before(s) = SubSeq(s, 1, Len(s))
  BY <1>1, BeforeUpto DEF Endless
<1> QED BY <1>2, WholeSeq

(* A sector without a free entry, and without the name, is passed.           *)
LEMMA PassesSector ==
  ASSUME VolumeOK(vol), NEW n \in Nat, n < SectorCount, NEW c, Passed(c, n),
         NEW b, b = Sector(n + 1), Endless(b),
         NEW d, d.op = c.op, d.name = c.name,
         c.op = "open" => Matching(b, c.name) = {},
         c.op = "ls" => d.listed = c.listed \o Shown(Before(b))
  PROVE  Passed(d, n + 1)
<1> DEFINE a == Seen(n)
<1>1. a \in Seq(Entries) /\ b \in Seq(Entries) /\ Seen(n + 1) = a \o b
  BY SeenNext
<1>2. n + 1 \in Nat /\ n + 1 <= SectorCount
  BY CountIsNat
<1>3. Endless(a) /\ (c.op = "open" => Named(a, c.name) = {})
      /\ (c.op = "ls" => c.listed = Shown(a))
  BY DEF Passed
<1> HIDE DEF a
<1>4. Endless(Seen(n + 1))
  BY <1>1, <1>3, EndlessConcat
<1>5. ASSUME d.op = "open" PROVE Named(Seen(n + 1), d.name) = {}
  <2>1. Len(b) \in 0..Len(b) /\ \A j \in 1..Len(b) : b[j].kind # "end"
    BY <1>1 DEF Endless
  <2>2. Named(a \o SubSeq(b, 1, Len(b)), c.name) = {}
    BY <1>1, <1>3, <1>5, <2>1, NoneInSector
  <2>3. SubSeq(b, 1, Len(b)) = b
    BY <1>1, WholeSeq
  <2> QED BY <1>1, <2>2, <2>3
<1>6. ASSUME d.op = "ls" PROVE d.listed = Shown(Seen(n + 1))
  <2>1. Before(b) = b
    BY <1>1, EndlessBefore
  <2>2. Shown(a \o b) = Shown(a) \o Shown(b)
    BY <1>1, ShownConcat
  <2> QED BY <1>1, <1>3, <1>6, <2>1, <2>2
<1> QED BY <1>2, <1>4, <1>5, <1>6 DEF Passed

(* A sector with a free entry is the last of the directory.                  *)
LEMMA LastSector ==
  ASSUME VolumeOK(vol), NEW n \in Nat, n < SectorCount, NEW c, Passed(c, n),
         NEW b, b = Sector(n + 1), ~Endless(b)
  PROVE  /\ c.op = "ls" => Shown(Directory) = c.listed \o Shown(Before(b))
         /\ c.op = "open" /\ Matching(b, c.name) = {} => Named(Directory, c.name) = {}
<1> DEFINE a == Seen(n)
<1>1. PICK rest \in Seq(Entries) : Seen(SectorCount) = (a \o b) \o rest
  BY Split
<1>2. a \in Seq(Entries) /\ b \in Seq(Entries)
  BY SeenNext
<1>3. Endless(a) /\ (c.op = "open" => Named(a, c.name) = {})
      /\ (c.op = "ls" => c.listed = Shown(a))
  BY DEF Passed
<1> HIDE DEF a
<1>4. PICK k \in 0..Len(b) : Upto(b, k)
  BY <1>2, BeforeIs
<1>5. Len(b) \in Nat /\ k < Len(b)
  <2>1. Len(b) \in Nat
    BY <1>2
  <2>2. CASE k = Len(b)
    BY <1>4, <2>2 DEF Upto, Endless
  <2> QED BY <2>1, <2>2
<1>6. Directory = a \o SubSeq(b, 1, k)
  <2>1. Before((a \o b) \o rest) = a \o SubSeq(b, 1, k)
    BY <1>2, <1>3, <1>4, <1>5, BeforeInMiddle
  <2> QED BY <1>1, <2>1, DirectoryIs
<1>7. Before(b) = SubSeq(b, 1, k)
  BY <1>4 DEF Upto
<1>8. ASSUME c.op = "ls" PROVE Shown(Directory) = c.listed \o Shown(Before(b))
  <2>1. SubSeq(b, 1, k) \in Seq(Entries)
    BY <1>2, <1>5
  <2>2. Shown(a \o SubSeq(b, 1, k)) = Shown(a) \o Shown(SubSeq(b, 1, k))
    BY <1>2, <2>1, ShownConcat
  <2> QED BY <1>3, <1>6, <1>7, <1>8, <2>2
<1>9. ASSUME c.op = "open", Matching(b, c.name) = {} PROVE Named(Directory, c.name) = {}
  <2>1. \A j \in 1..k : b[j].kind # "end"
    BY <1>4 DEF Upto
  <2> QED BY <1>2, <1>3, <1>6, <1>9, <2>1, NoneInSector
<1> QED BY <1>8, <1>9

(* The sector a scan stands at is the next of the directory.                 *)
LEMMA AtSector ==
  ASSUME FatInv, DirInv, call.pc = "dir", call.cluster \in DOMAIN vol.fat,
         call.sec \in 0..SecPerClus - 1
  PROVE  \E k \in Nat, n \in Nat :
            /\ k < Clusters /\ n < SectorCount /\ n = k * SecPerClus + call.sec
            /\ call.cluster = ClusterAt(vol.fat, vol.root, k) /\ Passed(call, n)
            /\ Sector(n + 1) = vol.dir[call.cluster][call.sec + 1]
<1>1. PICK k \in Nat : /\ k < Clusters /\ call.cluster = ClusterAt(vol.fat, vol.root, k)
                       /\ Passed(call, k * SecPerClus + call.sec)
  BY DEF DirInv, ScanAt
<1>2. PICK n : n = k * SecPerClus + call.sec
  OBVIOUS
<1>3. VolumeOK(vol)
  BY DEF FatInv
<1>4. /\ n \in Nat /\ n < SectorCount
      /\ Sector(n + 1) = vol.dir[ClusterAt(vol.fat, vol.root, k)][call.sec + 1]
  BY <1>1, <1>2, <1>3, SectorIs
<1> QED BY <1>1, <1>2, <1>4

(* The next sector: of the same cluster, or past its last.                   *)
LEMMA ScanGoesOn ==
  ASSUME VolumeOK(vol), NEW k \in Nat, k < Clusters, NEW n, n = k * SecPerClus + call.sec,
         call.sec \in 0..SecPerClus - 1,
         call.cluster = ClusterAt(vol.fat, vol.root, k),
         NEW d, Passed(d, n + 1), d.cluster = call.cluster,
         \/ d.pc = "dir" /\ d.sec = call.sec + 1
         \/ d.pc = "dirfat" /\ ~(call.sec + 1 < SecPerClus)
  PROVE  ScanAt(d)
<1>1. SecPerClus \in Nat \ {0} /\ k * SecPerClus \in Nat /\ call.sec \in Nat
  BY SizeAssumption
<1>2. CASE d.pc = "dir" /\ d.sec = call.sec + 1
  <2>1. k * SecPerClus + d.sec = n + 1
    BY <1>1, <1>2
  <2>2. d.pc = "dir" => Passed(d, k * SecPerClus + d.sec)
    BY <2>1
  <2> QED BY <1>2, <2>2 DEF ScanAt
<1>3. CASE d.pc = "dirfat" /\ ~(call.sec + 1 < SecPerClus)
  <2>1. (k + 1) * SecPerClus = k * SecPerClus + SecPerClus
    BY <1>1
  <2>2. (k + 1) * SecPerClus = n + 1
    BY <1>1, <1>3, <2>1
  <2>3. d.pc = "dirfat" => Passed(d, (k + 1) * SecPerClus)
    BY <2>2
  <2> QED BY <1>3, <2>3 DEF ScanAt
<1> QED BY <1>2, <1>3

(* The definitions above depend on the volume only, which never changes.     *)
LEMMA SameDirectory ==
  ASSUME vol' = vol
  PROVE  /\ Directory' = Directory
         /\ ScanAt(call') /\ Claimed(call') => DirInv'
<1>1. \A n : Sector(n)' = Sector(n)
  BY DEF Sector
<1>2. Clusters' = Clusters
  BY DEF Clusters
<1>3. SectorCount' = SectorCount
  BY <1>2 DEF SectorCount
<1>4. \A n : Seen(n)' = Seen(n)
  BY DEF Seen, Sector
<1>5. Directory' = Directory
  BY DEF Directory, Sector
<1>6. \A n : Passed(call, n)' <=> Passed(call', n)
  BY <1>3, <1>4 DEF Passed
<1>7. ScanAt(call)' <=> ScanAt(call')
  BY <1>2, <1>6 DEF ScanAt
<1> QED BY <1>5, <1>7 DEF DirInv, Claimed

(* The fields of a call that is written out.                                 *)
LEMMA CallFields ==
  ASSUME NEW p, NEW o, NEW fd, NEW n, NEW r, NEW cl, NEW s, NEW m, NEW g, NEW l, NEW st, NEW ft,
         NEW d, d = Call(p, o, fd, n, r, cl, s, m, g, l, st, ft)
  PROVE  /\ d.pc = p /\ d.op = o /\ d.fd = fd /\ d.name = n /\ d.ret = r /\ d.cluster = cl
         /\ d.sec = s /\ d.listed = l /\ d.fault = ft
  BY DEF Call

(* A call of another kind, or one that still scans, has no answer to check.  *)
LEMMA NoAnswer ==
  ASSUME call'.pc # "done" \/ call'.op \notin {"open", "ls"} PROVE OpenFindsFirst' /\ ListedAll'
  BY DEF OpenFindsFirst, ListedAll

LEMMA ScanStarts ==
  ASSUME VolumeOK(vol), NEW d, d.pc = "dir", d.cluster = vol.root, d.sec = 0, d.listed = <<>>
  PROVE  ScanAt(d)
<1>1. SecPerClus \in Nat \ {0} /\ Clusters \in Nat \ {0} /\ SectorCount \in Nat
  BY SizeAssumption, ClustersAre, CountIsNat
<1>2. Seen(0) = <<>>
  BY DEF Seen, FlattenSeq
<1>3. Passed(d, 0)
  <2>1. Named(<<>>, d.name) = {} /\ Endless(<<>>)
    BY DEF Named, Endless
  <2> QED BY <1>1, <1>2, <2>1, ShownNone DEF Passed
<1>4. 0 * SecPerClus + d.sec = 0 /\ 0 < Clusters /\ 0 \in Nat
  BY <1>1
<1>5. d.cluster = ClusterAt(vol.fat, vol.root, 0)
  BY ChainFirst
<1>6. d.pc = "dir" => Passed(d, 0 * SecPerClus + d.sec)
  BY <1>3, <1>4
<1>7. d.pc # "dirfat"
  OBVIOUS
<1> QED BY <1>4, <1>5, <1>6, <1>7, Zenon DEF ScanAt

(* The descriptor an open claims is one of the table.                        *)
LEMMA OpenClaims == ASSUME NEW name, fat32_open(name) PROVE call'.fd # -1
<1> DEFINE free == (0..MaxFiles - 1) \ DOMAIN files
<1>1. free # {} /\ free \subseteq Nat /\ call'.fd = Min(free)
  BY DEF fat32_open, StartScan, NoCall
<1>2. Min(free) \in free
  BY <1>1, LeastIn
<1> QED BY <1>1, <1>2

DirKept == DirInv' /\ OpenFindsFirst' /\ ListedAll'

LEMMA StartKeepsDir ==
  ASSUME VolumeOK(vol), vol' = vol, NEW op, NEW fd, NEW nm, op = "open" => fd # -1,
         NEW root, root = vol.root,
         NEW ft, call' = Call("dir", op, fd, nm, 0, root, 0, 0, <<>>, <<>>, 0, ft)
  PROVE  DirKept
<1>1. /\ call'.pc = "dir" /\ call'.op = op /\ call'.fd = fd /\ call'.cluster = vol.root
      /\ call'.sec = 0 /\ call'.listed = <<>>
  BY DEF Call
<1>2. ScanAt(call') /\ Claimed(call')
  BY <1>1, ScanStarts DEF Claimed
<1>3. DirInv'
  BY <1>2, SameDirectory
<1> QED BY <1>1, <1>3, NoAnswer DEF DirKept

LEMMA OpenKeepsDir == ASSUME FatInv, NEW name, fat32_open(name) PROVE DirKept
<1>1. PICK fd, root : /\ root = vol.root
                      /\ call' = Call("dir", "open", fd, name, 0, root, 0, 0, <<>>, <<>>, 0, FALSE)
  BY DEF fat32_open, StartScan, NoCall, Call
<1>2. vol' = vol
  BY DEF fat32_open
<1>3. fd # -1
  BY <1>1, OpenClaims DEF Call
<1> QED BY <1>1, <1>2, <1>3, StartKeepsDir DEF FatInv

LEMMA LsKeepsDir == ASSUME FatInv, fat32_ls PROVE DirKept
<1>1. PICK n, ft : NoCall = Call("done", "none", -1, n, 0, 0, 0, 0, <<>>, <<>>, 0, ft)
  BY NoCallIs
<1>2. PICK root : root = vol.root
  OBVIOUS
<1>3. call' = Call("dir", "ls", -1, n, 0, root, 0, 0, <<>>, <<>>, 0, ft)
  BY <1>1, <1>2 DEF fat32_ls, StartScan, Call
<1>4. vol' = vol
  BY DEF fat32_ls
<1> QED BY <1>2, <1>3, <1>4, StartKeepsDir DEF FatInv

LEMMA NextSectorFields ==
  ASSUME CallInv, call.pc = "dir", NEW l, NEW ft,
         NEW c, c = Call(call.pc, call.op, call.fd, call.name, call.ret, call.cluster,
                         call.sec, call.len, call.got, l, call.start, ft),
         NEW d, d = NextSector(c)
  PROVE  /\ d.op = call.op /\ d.fd = call.fd /\ d.name = call.name
         /\ d.cluster = call.cluster /\ d.listed = l
         /\ \/ d.pc = "dir" /\ d.sec = call.sec + 1
            \/ d.pc = "dirfat" /\ ~(call.sec + 1 < SecPerClus)
<1>0. c.sec = call.sec
  BY CallFields
<1>1. CASE call.sec + 1 < SecPerClus
  <2>1. d = [c EXCEPT !.sec = @ + 1]
    BY <1>0, <1>1 DEF NextSector
  <2> QED BY <2>1 DEF Call
<1>2. CASE ~(call.sec + 1 < SecPerClus)
  <2>1. d = [c EXCEPT !.pc = "dirfat"]
    BY <1>0, <1>2 DEF NextSector
  <2> QED BY <1>2, <2>1 DEF Call
<1> QED BY <1>1, <1>2

LEMMA OpenSectorKeepsDir ==
  ASSUME FatInv, DirInv, NEW ok \in BOOLEAN, OpenSector(ok) PROVE DirKept
<1>1. /\ call.pc = "dir" /\ call.op = "open" /\ vol' = vol /\ CallInv /\ VolumeOK(vol)
      /\ call.sec \in 0..SecPerClus - 1 /\ (ok => call.cluster \in DOMAIN vol.fat)
  BY DEF OpenSector, FatInv, ScanInv, Access, OnDisk
<1>2. PICK ft, c, b :
        /\ c = [call EXCEPT !.fault = ft] /\ (~ok => ft)
        /\ b = vol.dir[call.cluster][call.sec + 1]
        /\ \/ ~ok /\ call' = Return(c, -1)
           \/ /\ ok /\ Matching(b, call.name) # {} /\ call' = Return(c, call.fd)
              /\ files' = Extend(files, call.fd, Opened(b[Min(Matching(b, call.name))]))
           \/ ok /\ Matching(b, call.name) = {} /\ Ends(b) /\ call' = Return(c, -1)
           \/ ok /\ Matching(b, call.name) = {} /\ ~Ends(b) /\ call' = NextSector(c)
  <2> DEFINE ft == Faulted(ok)
             c == [call EXCEPT !.fault = ft]
             b == vol.dir[call.cluster][call.sec + 1]
  <2>1. \/ ~ok /\ call' = Return(c, -1)
        \/ /\ ok /\ Matching(b, call.name) # {} /\ call' = Return(c, call.fd)
           /\ files' = Extend(files, call.fd, Opened(b[Min(Matching(b, call.name))]))
        \/ ok /\ Matching(b, call.name) = {} /\ Ends(b) /\ call' = Return(c, -1)
        \/ ok /\ Matching(b, call.name) = {} /\ ~Ends(b) /\ call' = NextSector(c)
    BY DEF OpenSector
  <2>2. ~ok => ft
    BY DEF Faulted
  <2> HIDE DEF ft, c, b
  <2>3. c = [call EXCEPT !.fault = ft] /\ b = vol.dir[call.cluster][call.sec + 1]
    BY DEF c, b
  <2> QED BY <2>1, <2>2, <2>3
<1>3. c = Call(call.pc, call.op, call.fd, call.name, call.ret, call.cluster,
               call.sec, call.len, call.got, call.listed, call.start, ft)
  BY <1>1, <1>2, FaultCall
<1>4. ASSUME NEW r, call' = Return(c, r)
      PROVE  /\ call'.pc = "done" /\ call'.op = "open" /\ call'.name = call.name
             /\ call'.ret = r /\ call'.fault = ft
  <2>1. call' = Call("done", call.op, call.fd, call.name, r, call.cluster,
               call.sec, call.len, call.got, call.listed, call.start, ft)
    BY <1>3, <1>4, ReturnCall
  <2> QED BY <1>1, <2>1, CallFields
<1>5. ASSUME call'.pc = "done", call'.op = "open" PROVE DirInv' /\ ListedAll'
  BY <1>5 DEF DirInv, ListedAll
<1>6. CASE ~ok /\ call' = Return(c, -1)
  <2>1. OpenFindsFirst'
    BY <1>2, <1>4, <1>6 DEF OpenFindsFirst
  <2> QED BY <1>4, <1>5, <1>6, <2>1 DEF DirKept
<1>7. ASSUME ok
      PROVE  \E k \in Nat, n \in Nat :
                /\ k < Clusters /\ n < SectorCount /\ n = k * SecPerClus + call.sec
                /\ call.cluster = ClusterAt(vol.fat, vol.root, k) /\ Passed(call, n)
                /\ Sector(n + 1) = b
  BY <1>1, <1>2, <1>7, AtSector
<1>8. CASE /\ ok /\ Matching(b, call.name) # {} /\ call' = Return(c, call.fd)
           /\ files' = Extend(files, call.fd, Opened(b[Min(Matching(b, call.name))]))
  <2>1. PICK n \in Nat : n < SectorCount /\ Passed(call, n) /\ Sector(n + 1) = b
    BY <1>7, <1>8
  <2>2. PICK rest \in Seq(Entries) :
            /\ Seen(SectorCount) = (Seen(n) \o b) \o rest
            /\ Seen(n) \in Seq(Entries) /\ b \in Seq(Entries)
    BY <1>1, <2>1, Split
  <2>3. /\ Named(Directory, call.name) # {}
        /\ Directory[Min(Named(Directory, call.name))] = b[Min(Matching(b, call.name))]
    <3>1. PICK a, d, nm : a = Seen(n) /\ d = Directory /\ nm = call.name
      OBVIOUS
    <3>2. Endless(a) /\ Named(a, nm) = {} /\ Matching(b, nm) # {}
      BY <1>1, <1>8, <2>1, <3>1 DEF Passed
    <3>3. a \in Seq(Entries) /\ d = Before((a \o b) \o rest)
      BY <2>2, <3>1, DirectoryIs
    <3>4. b \in Seq(Entries) /\ rest \in Seq(Entries)
      BY <2>2
    <3>5. Named(d, nm) # {} /\ d[Min(Named(d, nm))] = b[Min(Matching(b, nm))]
      BY <3>2, <3>3, <3>4, FoundInSector
    <3> QED BY <3>1, <3>5
  <2>4. PICK e : e = b[Min(Matching(b, call.name))]
    OBVIOUS
  <2>5. call.fd \in DOMAIN files' /\ files'[call.fd].first = e.first
    <3>1. call.fd \in DOMAIN files' /\ files'[call.fd] = Opened(e)
      BY <1>8, <2>4 DEF Extend
    <3> QED BY <3>1 DEF Opened
  <2>6. /\ call'.ret = call.fd /\ call'.name = call.name /\ call'.pc = "done" /\ call'.op = "open"
        /\ Directory' = Directory /\ call.fd # -1
    BY <1>1, <1>4, <1>8, SameDirectory DEF DirInv, Claimed
  <2>7. OpenFindsFirst'
    <3> DEFINE found == Named(Directory, call.name)
    <3>1. found # {} /\ files'[call'.ret].first = Directory[Min(found)].first
      BY <2>3, <2>4, <2>5, <2>6
    <3>2. Named(Directory, call.name)' = found
      BY <2>6 DEF Named
    <3> HIDE DEF found
    <3> QED BY <2>6, <3>1, <3>2 DEF OpenFindsFirst
  <2> QED BY <1>4, <1>5, <1>8, <2>7 DEF DirKept
<1>9. CASE ok /\ Matching(b, call.name) = {} /\ Ends(b) /\ call' = Return(c, -1)
  <2>1. PICK n \in Nat : n < SectorCount /\ Passed(call, n) /\ Sector(n + 1) = b
    BY <1>7, <1>9
  <2>2. b \in Seq(Entries)
    BY <1>1, <2>1, SeenNext
  <2>3. ~Endless(b)
    BY <1>9, <2>2, EndsIs
  <2>4. Named(Directory, call.name) = {}
    BY <1>1, <1>9, <2>1, <2>3, LastSector
  <2>5. /\ call'.ret = -1 /\ call'.name = call.name /\ call'.pc = "done" /\ call'.op = "open"
        /\ Directory' = Directory
    BY <1>1, <1>4, <1>9, SameDirectory
  <2>6. Named(Directory, call.name)' = {}
    BY <2>4, <2>5 DEF Named
  <2>7. OpenFindsFirst'
    BY <2>5, <2>6 DEF OpenFindsFirst
  <2> QED BY <1>5, <2>5, <2>7 DEF DirKept
<1>10. CASE ok /\ Matching(b, call.name) = {} /\ ~Ends(b) /\ call' = NextSector(c)
  <2>1. PICK k \in Nat, n \in Nat :
                /\ k < Clusters /\ n < SectorCount /\ n = k * SecPerClus + call.sec
                /\ call.cluster = ClusterAt(vol.fat, vol.root, k) /\ Passed(call, n)
                /\ Sector(n + 1) = b
    BY <1>7, <1>10
  <2>2. b \in Seq(Entries)
    BY <1>1, <2>1, SeenNext
  <2>3. Endless(b)
    BY <1>10, <2>2, EndsIs
  <2>4. /\ call'.op = call.op /\ call'.fd = call.fd /\ call'.name = call.name
        /\ call'.cluster = call.cluster
        /\ \/ call'.pc = "dir" /\ call'.sec = call.sec + 1
           \/ call'.pc = "dirfat" /\ ~(call.sec + 1 < SecPerClus)
    BY <1>1, <1>3, <1>10, NextSectorFields
  <2>5. Passed(call', n + 1)
    BY <1>1, <1>10, <2>1, <2>3, <2>4, PassesSector
  <2>6. ScanAt(call')
    BY <1>1, <2>1, <2>4, <2>5, ScanGoesOn
  <2>7. DirInv'
    BY <1>1, <2>4, <2>6, SameDirectory DEF DirInv, Claimed
  <2>8. call'.pc # "done"
    BY <2>4
  <2> QED BY <2>7, <2>8, NoAnswer DEF DirKept
<1> QED BY <1>2, <1>6, <1>8, <1>9, <1>10

LEMMA LsSectorKeepsDir ==
  ASSUME FatInv, DirInv, NEW ok \in BOOLEAN, LsSector(ok) PROVE DirKept
<1>1. /\ call.pc = "dir" /\ call.op = "ls" /\ vol' = vol /\ CallInv /\ VolumeOK(vol)
      /\ call.sec \in 0..SecPerClus - 1 /\ (ok => call.cluster \in DOMAIN vol.fat)
  BY DEF LsSector, FatInv, ScanInv, Access, OnDisk
<1>2. PICK ft, c, b, l, listing :
        /\ c = [call EXCEPT !.fault = ft]
        /\ b = vol.dir[call.cluster][call.sec + 1]
        /\ l = call.listed \o Shown(Before(b)) /\ listing = [c EXCEPT !.listed = l]
        /\ \/ call' = Return(c, -1)
           \/ ok /\ Ends(b) /\ call' = Return(listing, 0)
           \/ ok /\ ~Ends(b) /\ call' = NextSector(listing)
  <2> DEFINE ft == Faulted(ok)
             c == [call EXCEPT !.fault = ft]
             b == vol.dir[call.cluster][call.sec + 1]
             l == c.listed \o Shown(Before(b))
             listing == [c EXCEPT !.listed = l]
  <2>0. c.listed = call.listed
    BY <1>1, FaultCall, CallFields
  <2>1. \/ call' = Return(c, -1)
        \/ ok /\ Ends(b) /\ call' = Return(listing, 0)
        \/ ok /\ ~Ends(b) /\ call' = NextSector(listing)
    BY DEF LsSector
  <2> HIDE DEF ft, c, b, l, listing
  <2>2. /\ c = [call EXCEPT !.fault = ft] /\ b = vol.dir[call.cluster][call.sec + 1]
        /\ l = c.listed \o Shown(Before(b)) /\ listing = [c EXCEPT !.listed = l]
    BY DEF c, b, l, listing
  <2>3. l = call.listed \o Shown(Before(b))
    BY <2>0, <2>2, Zenon
  <2> QED BY <2>1, <2>2, <2>3, Zenon
<1>3. c = Call(call.pc, call.op, call.fd, call.name, call.ret, call.cluster,
               call.sec, call.len, call.got, call.listed, call.start, ft)
  <2>1. c = [call EXCEPT !.fault = ft]
    BY <1>2, Zenon
  <2> QED BY <1>1, <2>1, FaultCall
<1>4. listing = Call(call.pc, call.op, call.fd, call.name, call.ret, call.cluster,
                     call.sec, call.len, call.got, l, call.start, ft)
  <2>1. listing = [c EXCEPT !.listed = l]
    BY <1>2, Zenon
  <2> QED BY <1>1, <1>3, <2>1, ListedCall
<1>5. ASSUME call'.pc = "done", call'.op = "ls" PROVE DirInv' /\ OpenFindsFirst'
  BY <1>5 DEF DirInv, OpenFindsFirst
<1>6. CASE call' = Return(c, -1)
  <2>1. call' = Call("done", call.op, call.fd, call.name, -1, call.cluster,
               call.sec, call.len, call.got, call.listed, call.start, ft)
    BY <1>3, <1>6, ReturnCall
  <2>2. call'.pc = "done" /\ call'.op = "ls" /\ call'.ret = -1
    BY <1>1, <2>1, CallFields
  <2>3. ListedAll'
    BY <2>2 DEF ListedAll
  <2> QED BY <1>5, <2>2, <2>3 DEF DirKept
<1>7. ASSUME ok
      PROVE  \E k \in Nat, n \in Nat :
                /\ k < Clusters /\ n < SectorCount /\ n = k * SecPerClus + call.sec
                /\ call.cluster = ClusterAt(vol.fat, vol.root, k) /\ Passed(call, n)
                /\ Sector(n + 1) = b
  <2>1. b = vol.dir[call.cluster][call.sec + 1]
    BY <1>2, Zenon
  <2> QED BY <1>1, <1>7, <2>1, AtSector
<1>8. CASE ok /\ Ends(b) /\ call' = Return(listing, 0)
  <2>1. PICK n \in Nat : n < SectorCount /\ Passed(call, n) /\ Sector(n + 1) = b
    BY <1>7, <1>8
  <2>2. b \in Seq(Entries)
    BY <1>1, <2>1, SeenNext
  <2>3. ~Endless(b)
    BY <1>8, <2>2, EndsIs
  <2>4. Shown(Directory) = l
    <3>1. l = call.listed \o Shown(Before(b))
      BY <1>2, Zenon
    <3> QED BY <1>1, <2>1, <2>3, <3>1, LastSector
  <2>5. call' = Call("done", call.op, call.fd, call.name, 0, call.cluster,
               call.sec, call.len, call.got, l, call.start, ft)
    BY <1>4, <1>8, ReturnCall
  <2>6. call'.pc = "done" /\ call'.op = "ls" /\ call'.listed = l
    BY <1>1, <2>5, CallFields
  <2>7. Directory' = Directory
    BY <1>1, SameDirectory
  <2>8. ListedAll'
    BY <2>4, <2>6, <2>7 DEF ListedAll, Shown
  <2> QED BY <1>5, <2>6, <2>8 DEF DirKept
<1>9. CASE ok /\ ~Ends(b) /\ call' = NextSector(listing)
  <2>1. PICK k \in Nat, n \in Nat :
                /\ k < Clusters /\ n < SectorCount /\ n = k * SecPerClus + call.sec
                /\ call.cluster = ClusterAt(vol.fat, vol.root, k) /\ Passed(call, n)
                /\ Sector(n + 1) = b
    BY <1>7, <1>9
  <2>2. b \in Seq(Entries)
    BY <1>1, <2>1, SeenNext
  <2>3. Endless(b)
    BY <1>9, <2>2, EndsIs
  <2>4. /\ call'.op = call.op /\ call'.fd = call.fd /\ call'.name = call.name
        /\ call'.cluster = call.cluster
        /\ call'.listed = l
        /\ \/ call'.pc = "dir" /\ call'.sec = call.sec + 1
           \/ call'.pc = "dirfat" /\ ~(call.sec + 1 < SecPerClus)
    BY <1>1, <1>4, <1>9, NextSectorFields
  <2>5. Passed(call', n + 1)
    <3>1. l = call.listed \o Shown(Before(b))
      BY <1>2, Zenon
    <3> QED BY <1>1, <1>9, <2>1, <2>3, <2>4, <3>1, PassesSector
  <2>6. ScanAt(call')
    BY <1>1, <2>1, <2>4, <2>5, ScanGoesOn
  <2>7. DirInv'
    BY <1>1, <2>4, <2>6, SameDirectory DEF DirInv, Claimed
  <2>8. call'.pc # "done"
    BY <2>4
  <2> QED BY <2>7, <2>8, NoAnswer DEF DirKept
<1>10. \/ call' = Return(c, -1)
       \/ ok /\ Ends(b) /\ call' = Return(listing, 0)
       \/ ok /\ ~Ends(b) /\ call' = NextSector(listing)
  BY <1>2, Zenon
<1> QED BY <1>6, <1>8, <1>9, <1>10

(* At the last link of the chain all of the directory has been passed.       *)
LEMMA AllPassed ==
  ASSUME VolumeOK(vol), NEW c, Passed(c, SectorCount)
  PROVE  /\ c.op = "open" => Named(Directory, c.name) = {}
         /\ c.op = "ls" => c.listed = Shown(Directory)
<1>1. Seen(SectorCount) \in Seq(Entries)
  <2>1. SectorCount \in Nat /\ SectorCount <= SectorCount
    BY CountIsNat
  <2> QED BY <2>1, SeenIs
<1>2. Directory = Seen(SectorCount)
  BY <1>1, DirectoryIs, EndlessBefore DEF Passed
<1> QED BY <1>2 DEF Passed

(* What a link leads to.                                                     *)
LEMMA LinkLeads ==
  ASSUME VolumeOK(vol), NEW k \in Nat, k < Clusters,
         NEW next, next = vol.fat[ClusterAt(vol.fat, vol.root, k)]
  PROVE  \/ k + 1 < Clusters /\ next = ClusterAt(vol.fat, vol.root, k + 1) /\ next < EOC
         \/ k + 1 = Clusters /\ next \notin DOMAIN vol.fat
<1>1. Clusters \in Nat /\ Chain(vol.fat, vol.root, Clusters)
  BY ClustersAre
<1>2. next = ClusterAt(vol.fat, vol.root, k + 1)
  BY ChainNext
<1>3. CASE k + 1 < Clusters
  <2>1. k + 1 \in 0..Clusters - 1
    BY <1>1, <1>3
  <2>2. next \in DOMAIN vol.fat
    BY <1>1, <1>2, <2>1 DEF Chain
  <2> QED BY <1>2, <1>3, <2>2, ClusterRange
<1>4. CASE k + 1 = Clusters
  <2>1. next \in EndMarks
    BY <1>1, <1>2, <1>4 DEF Chain
  <2> QED BY <1>4, <2>1, ClusterRange
<1>5. k + 1 < Clusters \/ k + 1 = Clusters
  BY <1>1
<1> QED BY <1>3, <1>4, <1>5, Zenon

LEMMA DirLinkKeepsDir ==
  ASSUME FatInv, DirInv, NEW ok \in BOOLEAN, DirLink(ok) PROVE DirKept
<1>1. /\ call.pc = "dirfat" /\ vol' = vol /\ CallInv /\ VolumeOK(vol)
      /\ call.op \in {"open", "ls"}
  BY DEF DirLink, FatInv, ScanInv
<1>2. PICK next, ft, c, r :
        /\ next = FatEntry(call.cluster, ok)
        /\ c = Call(call.pc, call.op, call.fd, call.name, call.ret, next,
                    0, call.len, call.got, call.listed, call.start, ft)
        /\ \/ call' = [c EXCEPT !.pc = "dir"]
           \/ ~(next < EOC) /\ call' = Return(c, r)
        /\ r = IF call.op = "ls" THEN 0 ELSE -1
  <2> DEFINE next == FatEntry(call.cluster, ok)
             ft == Faulted(ok)
             c == [call EXCEPT !.cluster = next, !.sec = 0, !.fault = ft]
             r == IF call.op = "ls" THEN 0 ELSE -1
  <2>1. \/ call' = [c EXCEPT !.pc = "dir"]
        \/ ~(next < EOC) /\ call' = Return(c, r)
    BY DEF DirLink
  <2>4. r = IF call.op = "ls" THEN 0 ELSE -1
    OBVIOUS
  <2> HIDE DEF next, ft, r
  <2>2. next = FatEntry(call.cluster, ok)
    BY DEF next
  <2>3. c = Call(call.pc, call.op, call.fd, call.name, call.ret, next,
                 0, call.len, call.got, call.listed, call.start, ft)
    BY <1>1, LinkCall, Zenon
  <2> HIDE DEF c
  <2> QED BY <2>1, <2>2, <2>3, <2>4
<1>3. PICK k \in Nat : /\ k < Clusters /\ call.cluster = ClusterAt(vol.fat, vol.root, k)
                       /\ Passed(call, (k + 1) * SecPerClus)
  BY <1>1 DEF DirInv, ScanAt
<1>4. Claimed(call)
  BY <1>1 DEF DirInv
<1>5. \/ k + 1 < Clusters /\ next = ClusterAt(vol.fat, vol.root, k + 1) /\ next < EOC
      \/ next \notin DOMAIN vol.fat /\ (next < EOC \/ k + 1 = Clusters)
  <2>1. CASE ok
    <3>1. next = vol.fat[ClusterAt(vol.fat, vol.root, k)]
      BY <1>2, <1>3, <2>1 DEF FatEntry
    <3> QED BY <1>1, <1>3, <3>1, LinkLeads
  <2>2. CASE ~ok
    <3>1. next = BAD
      BY <1>2, <2>2 DEF FatEntry
    <3> QED BY <1>1, <3>1, ClusterRange, MarksRange
  <2> QED BY <2>1, <2>2
<1>6. CASE call' = [c EXCEPT !.pc = "dir"] /\ (k + 1 < Clusters \/ next \notin DOMAIN vol.fat)
  <2>1. call' = Call("dir", call.op, call.fd, call.name, call.ret, next,
                     0, call.len, call.got, call.listed, call.start, ft)
    BY <1>2, <1>6, AsDir
  <2>2. /\ call'.pc = "dir" /\ call'.op = call.op /\ call'.fd = call.fd /\ call'.name = call.name
        /\ call'.cluster = next /\ call'.sec = 0 /\ call'.listed = call.listed
    BY <2>1 DEF Call
  <2>3. ScanAt(call')
    <3>1. CASE next \notin DOMAIN vol.fat
      BY <2>2, <3>1 DEF ScanAt
    <3>2. CASE next \in DOMAIN vol.fat
      <4>1. k + 1 < Clusters /\ next = ClusterAt(vol.fat, vol.root, k + 1)
        BY <1>5, <3>2
      <4>2. k + 1 \in Nat /\ (k + 1) * SecPerClus + call'.sec = (k + 1) * SecPerClus
        BY <2>2, SizeAssumption
      <4>3. Passed(call', (k + 1) * SecPerClus + call'.sec)
        BY <1>3, <2>2, <4>2 DEF Passed
      <4>4. call'.pc # "dirfat" /\ call'.cluster = ClusterAt(vol.fat, vol.root, k + 1)
        BY <2>2, <4>1
      <4> QED BY <4>1, <4>2, <4>3, <4>4, Zenon DEF ScanAt
    <3> QED BY <3>1, <3>2
  <2>4. Claimed(call')
    BY <1>4, <2>2 DEF Claimed
  <2> QED BY <1>1, <2>2, <2>3, <2>4, SameDirectory, NoAnswer DEF DirKept
<1>7. CASE k + 1 = Clusters /\ call' = Return(c, r)
  <2>1. call' = Call("done", call.op, call.fd, call.name, r, next,
                     0, call.len, call.got, call.listed, call.start, ft)
    BY <1>2, <1>7, ReturnCall
  <2>2. /\ call'.pc = "done" /\ call'.op = call.op /\ call'.name = call.name
        /\ call'.ret = r /\ call'.listed = call.listed
    BY <2>1 DEF Call
  <2>3. Passed(call, SectorCount)
    BY <1>3, <1>7 DEF SectorCount
  <2>4. /\ call.op = "open" => Named(Directory, call.name) = {}
        /\ call.op = "ls" => call.listed = Shown(Directory)
    BY <1>1, <2>3, AllPassed
  <2>5. Directory' = Directory
    BY <1>1, SameDirectory
  <2>6. OpenFindsFirst'
    <3>1. CASE call.op = "open"
      <4>1. Named(Directory, call.name)' = {} /\ call'.ret = -1
        BY <1>2, <2>2, <2>4, <2>5, <3>1 DEF Named
      <4> QED BY <4>1 DEF OpenFindsFirst
    <3>2. CASE call.op = "ls"
      BY <2>2, <3>2 DEF OpenFindsFirst
    <3> QED BY <1>1, <3>1, <3>2
  <2>7. ListedAll'
    BY <2>2, <2>4, <2>5 DEF ListedAll, Shown
  <2>8. DirInv'
    BY <2>2 DEF DirInv
  <2> QED BY <2>6, <2>7, <2>8 DEF DirKept
<1> QED BY <1>2, <1>5, <1>6, <1>7

(* A read or a close has neither a scan nor an answer.                       *)
HasOp(c, o) == "op" \in DOMAIN c /\ c.op = o

LEMMA HasOpKept ==
  ASSUME NEW c, NEW o, HasOp(c, o)
  PROVE  /\ \A p : HasOp([c EXCEPT !.pc = p], o)
         /\ \A ft : HasOp([c EXCEPT !.fault = ft], o)
         /\ \A g : HasOp([c EXCEPT !.got = g], o)
         /\ \A r : HasOp(Return(c, r), o)
         /\ \A f : HasOp(Loop(c, f), o)
         /\ \A f : HasOp(AfterCopy(c, f), o)
<1>1. \A p, ft, g : /\ HasOp([c EXCEPT !.pc = p], o) /\ HasOp([c EXCEPT !.fault = ft], o)
                    /\ HasOp([c EXCEPT !.got = g], o)
  BY DEF HasOp
<1>2. \A r : HasOp(Return(c, r), o)
  BY DEF HasOp, Return
<1>3. \A f : HasOp(Loop(c, f), o)
  <2> TAKE f
  <2>1. Loop(c, f) = [c EXCEPT !.pc = "data"] \/ Loop(c, f) = Return(c, Len(c.got))
    BY DEF Loop
  <2> QED BY <1>1, <1>2, <2>1
<1>4. \A f : HasOp(AfterCopy(c, f), o)
  <2> TAKE f
  <2>1. AfterCopy(c, f) = [c EXCEPT !.pc = "datafat"] \/ AfterCopy(c, f) = Loop(c, f)
    BY DEF AfterCopy
  <2> QED BY <1>1, <1>3, <2>1
<1> QED BY <1>1, <1>2, <1>3, <1>4

LEMMA ReadHasOp == ASSUME NEW fd, NEW len, fat32_read(fd, len) PROVE call'.op = "read"
<1>1. PICK c : /\ c = [NoCall EXCEPT !.op = "read", !.fd = fd, !.len = len,
                                      !.start = files[fd].pos]
               /\ call' = Loop(c, files[fd])
  BY Zenon DEF fat32_read
<1>2. PICK nm, ft : NoCall = Call("done", "none", -1, nm, 0, 0, 0, 0, <<>>, <<>>, 0, ft)
  BY NoCallIs
<1>3. HasOp(c, "read")
  BY <1>1, <1>2 DEF HasOp, Call
<1>4. HasOp(call', "read")
  BY <1>1, <1>3, HasOpKept
<1> QED BY <1>4 DEF HasOp

LEMMA UnderWayHasOp ==
  ASSUME FatInv, call.pc \in {"data", "datafat"}, NEW ft,
         NEW c, c = [call EXCEPT !.fault = ft]
  PROVE  HasOp(c, "read")
<1>1. HasOp(call, "read")
  BY DEF FatInv, ReadInv, CallInv, HasOp
<1> QED BY <1>1, HasOpKept

LEMMA SectorHasOp ==
  ASSUME FatInv, NEW ok \in BOOLEAN, ReadSector(ok) PROVE call'.op = "read"
<1>1. PICK ft, c : ft = Faulted(ok) /\ c = [call EXCEPT !.fault = ft]
  OBVIOUS
<1>2. HasOp(c, "read")
  <2>1. call.pc = "data"
    BY DEF ReadSector
  <2> QED BY <1>1, <2>1, UnderWayHasOp
<1>3. \/ call' = Return(c, -1)
      \/ \E y, f : call' = AfterCopy(WithBytes(c, y), f)
  <2>1. CASE ~ok
    BY <1>1, <2>1 DEF ReadSector
  <2>2. CASE ok
    <3>1. PICK d, n, y : d = files[call.fd] /\ n = ToCopy(d) /\ y = c.got \o Bytes(d, n)
      OBVIOUS
    <3>2. call' = AfterCopy(WithBytes(c, y), files'[call.fd])
      BY <1>1, <2>2, <3>1 DEF ReadSector, WithBytes
    <3> QED BY <3>2
  <2> QED BY <2>1, <2>2
<1>4. HasOp(call', "read")
  <2>1. \A y : HasOp(WithBytes(c, y), "read")
    BY <1>2, HasOpKept DEF WithBytes
  <2>2. ASSUME NEW y, NEW f, call' = AfterCopy(WithBytes(c, y), f) PROVE HasOp(call', "read")
    <3>1. PICK b : b = WithBytes(c, y)
      OBVIOUS
    <3> QED BY <2>1, <2>2, <3>1, HasOpKept
  <2> QED BY <1>2, <1>3, <2>2, HasOpKept
<1> QED BY <1>4 DEF HasOp

LEMMA LinkHasOp == ASSUME FatInv, NEW ok \in BOOLEAN, ReadLink(ok) PROVE call'.op = "read"
<1>1. PICK ft, c : ft = Faulted(ok) /\ c = [call EXCEPT !.fault = ft]
  OBVIOUS
<1>2. HasOp(c, "read")
  <2>1. call.pc = "datafat"
    BY DEF ReadLink
  <2> QED BY <1>1, <2>1, UnderWayHasOp
<1>3. PICK d, n : d = files[call.fd] /\ n = FatEntry(d.cur, ok)
  OBVIOUS
<1>4. call' = Return(c, Len(c.got)) \/ call' = Loop(c, d)
  BY <1>1, <1>3 DEF ReadLink
<1>5. HasOp(call', "read")
  BY <1>2, <1>4, HasOpKept
<1> QED BY <1>5 DEF HasOp

LEMMA DirStep ==
  ASSUME FatInv, FatInv', DirInv, OpenFindsFirst, ListedAll, [Next]_vars PROVE DirKept
<1>1. CASE \E name \in Names : fat32_open(name)
  BY <1>1, OpenKeepsDir
<1>2. CASE fat32_ls
  BY <1>2, LsKeepsDir
<1>3. CASE \/ \E fd \in DOMAIN files, len \in Lens : fat32_read(fd, len)
           \/ \E ok \in BOOLEAN : ReadSector(ok) \/ ReadLink(ok)
  <2>1. call'.op = "read"
    BY <1>3, ReadHasOp, SectorHasOp, LinkHasOp
  <2>2. call'.pc \notin {"dir", "dirfat"}
    BY <2>1 DEF FatInv, ScanInv
  <2>3. DirInv'
    BY <2>2 DEF DirInv
  <2> QED BY <2>1, <2>3, NoAnswer DEF DirKept
<1>4. CASE \E fd \in DOMAIN files : fat32_close(fd)
  <2>1. call'.op = "none" /\ call'.pc = "done"
    BY <1>4, NoCallIs DEF fat32_close, Call
  <2>2. DirInv'
    BY <2>1 DEF DirInv
  <2> QED BY <2>1, <2>2, NoAnswer DEF DirKept
<1>5. CASE \E ok \in BOOLEAN : OpenSector(ok)
  BY <1>5, OpenSectorKeepsDir
<1>6. CASE \E ok \in BOOLEAN : LsSector(ok)
  BY <1>6, LsSectorKeepsDir
<1>7. CASE \E ok \in BOOLEAN : DirLink(ok)
  BY <1>7, DirLinkKeepsDir
<1>8. CASE UNCHANGED vars
  <2>1. vol' = vol /\ files' = files /\ call' = call
    BY <1>8 DEF vars
  <2>2. Directory' = Directory
    BY <2>1, SameDirectory
  <2>3. DirInv'
    BY <2>1, SameDirectory DEF DirInv
  <2>4. OpenFindsFirst' /\ ListedAll'
    BY <2>1, <2>2 DEF OpenFindsFirst, ListedAll, Named, Shown
  <2> QED BY <2>3, <2>4 DEF DirKept
<1> QED BY <1>1, <1>2, <1>3, <1>4, <1>5, <1>6, <1>7, <1>8 DEF Next, Step

(* fat32_open and fat32_list over any well-formed volume: open finds the     *)
(* first entry of the name wherever it is and misses it only after a failed  *)
(* access, and a listing that reports success is the whole directory.        *)
THEOREM DirectoryCorrect == FilesSpec => []DirectoryIsSeen
<1> DEFINE Inv == FatInv /\ DirInv /\ OpenFindsFirst /\ ListedAll
<1>1. FilesInit => Inv
  <2> SUFFICES ASSUME FilesInit PROVE Inv
    OBVIOUS
  <2>1. Init
    BY DEF FilesInit
  <2>2. call.pc = "done" /\ call.op = "none"
    BY <2>1, NoCallIs DEF Init, Call
  <2>3. FatInv
    BY <2>1, FatInvInit
  <2> QED BY <2>2, <2>3 DEF DirInv, OpenFindsFirst, ListedAll
<1>2. Inv /\ [FilesNext]_filesVars => Inv'
  <2> SUFFICES ASSUME Inv, [FilesNext]_filesVars PROVE Inv'
    OBVIOUS
  <2>1. [Next]_vars
    BY DEF FilesNext, FatStep, VfsStep, VefStep, ProgramStep, filesVars
  <2>2. FatInv'
    BY <2>1, FatInvStep
  <2> QED BY <2>1, <2>2, DirStep DEF DirKept
<1>3. Inv => DirectoryIsSeen
  BY DEF DirectoryIsSeen
<1> HIDE DEF Inv
<1> QED BY <1>1, <1>2, <1>3, PTL DEF FilesSpec

-----------------------------------------------------------------------------
(* Stdio.  Division cuts towards zero, so that the remainder has the sign of *)
(* the number.                                                               *)
Bases == {10, 16}

LEMMA QuotientIs ==
  ASSUME NEW b \in Bases, NEW n \in Int
  PROVE  /\ S!Quotient(n, b) \in Int /\ S!Remainder(n, b) \in Int
         /\ n = b * S!Quotient(n, b) + S!Remainder(n, b)
         /\ n > 0 => /\ S!Quotient(n, b) \in 0 .. n - 1
                     /\ S!Remainder(n, b) \in 0 .. b - 1
         /\ n < 0 => /\ S!Quotient(n, b) \in n + 1 .. 0
                     /\ S!Remainder(n, b) \in -(b - 1) .. 0
<1>1. CASE b = 10
  BY <1>1 DEF S!Quotient, S!Remainder
<1>2. CASE b = 16
  BY <1>2 DEF S!Quotient, S!Remainder
<1> QED BY <1>1, <1>2 DEF Bases

(* What the recursion of Digits defines on a set of numbers: there is such a *)
(* function, by induction on the greatest of the numbers.                    *)
IsDigits(f, D, b) ==
    f = [k \in D |-> IF k = 0 THEN <<>>
                     ELSE Append(f[S!Quotient(k, b)], S!Remainder(k, b))]

LEMMA DigitsGrow ==
  ASSUME NEW b \in Bases, NEW m \in Nat, NEW f, IsDigits(f, -m .. m, b)
  PROVE  \E g : IsDigits(g, -(m + 1) .. m + 1, b)
<1> DEFINE D == -m .. m
           E == -(m + 1) .. m + 1
           step(k) == Append(f[S!Quotient(k, b)], S!Remainder(k, b))
           g == [k \in E |-> IF k = 0 THEN <<>> ELSE step(k)]
<1>1. ASSUME NEW k \in E, k # 0
      PROVE  S!Quotient(k, b) \in D
  <2>1. k \in Int /\ (k > 0 \/ k < 0) /\ -(m + 1) <= k /\ k <= m + 1
    BY <1>1
  <2>2. S!Quotient(k, b) \in 0 .. k - 1 \/ S!Quotient(k, b) \in k + 1 .. 0
    BY <2>1, QuotientIs
  <2> QED BY <2>1, <2>2
<1>2. ASSUME NEW k \in D PROVE g[k] = f[k]
  <2>1. k \in E
    OBVIOUS
  <2>2. g[k] = IF k = 0 THEN <<>> ELSE step(k)
    BY <2>1
  <2>3. f[k] = IF k = 0 THEN <<>> ELSE step(k)
    BY Zenon DEF IsDigits
  <2> QED BY <2>2, <2>3
<1> HIDE DEF D
<1>3. ASSUME NEW k \in E
      PROVE  (IF k = 0 THEN <<>> ELSE step(k))
                = IF k = 0 THEN <<>> ELSE Append(g[S!Quotient(k, b)], S!Remainder(k, b))
  <2>1. CASE k = 0
    BY <2>1
  <2>2. CASE k # 0
    <3>1. g[S!Quotient(k, b)] = f[S!Quotient(k, b)]
      BY <1>1, <1>2, <2>2, Zenon
    <3> QED BY <2>2, <3>1, Zenon
  <2> QED BY <2>1, <2>2, Zenon
<1>4. g = [k \in E |-> IF k = 0 THEN <<>> ELSE Append(g[S!Quotient(k, b)], S!Remainder(k, b))]
  BY <1>3, Zenon
<1> HIDE DEF g, E
<1>5. IsDigits(g, E, b)
  BY <1>4, Zenon DEF IsDigits
<1> QED BY <1>5, Zenon DEF E

LEMMA DigitsExist ==
  ASSUME NEW b \in Bases, NEW m \in Nat
  PROVE  \E f : IsDigits(f, -m .. m, b)
<1> DEFINE Without == {n \in Nat : ~\E f : IsDigits(f, -n .. n, b)}
<1>1. SUFFICES ASSUME Without # {} PROVE FALSE
  BY Zenon
<1>2. PICK n \in Without : \A k \in Without : n <= k
  <2>1. Without \subseteq Nat
    OBVIOUS
  <2> HIDE DEF Without
  <2> QED BY <1>1, <2>1, LeastExists, Zenon
<1>3. n \in Nat /\ ~\E f : IsDigits(f, -n .. n, b)
  BY Zenon
<1>4. CASE n = 0
  <2>1. [k \in {0} |-> <<>>] = [k \in {0} |-> IF k = 0 THEN <<>> ELSE
              Append([j \in {0} |-> <<>>][S!Quotient(k, b)], S!Remainder(k, b))]
    OBVIOUS
  <2>2. -n .. n = {0}
    BY <1>4
  <2>3. IsDigits([k \in {0} |-> <<>>], -n .. n, b)
    BY <2>1, <2>2, Zenon DEF IsDigits
  <2> QED BY <1>3, <2>3, Zenon
<1>5. CASE n # 0
  <2>1. PICK l \in Nat : n = l + 1
    <3>1. n - 1 \in Nat /\ n = (n - 1) + 1
      BY <1>3, <1>5
    <3> QED BY <3>1
  <2>2. ~(n <= l)
    BY <2>1
  <2>3. l \notin Without
    BY <1>2, <2>2
  <2>4. \E f : IsDigits(f, -l .. l, b)
    BY <2>3
  <2>5. \E f : IsDigits(f, -(l + 1) .. l + 1, b)
    BY <2>4, DigitsGrow, Zenon
  <2> QED BY <1>3, <2>1, <2>5, Zenon
<1> QED BY <1>4, <1>5

Longs == -(S!LongMaxHere + 1) .. S!LongMaxHere

LEMMA DigitsUnfold ==
  ASSUME NEW b \in Bases, NEW n \in Longs, S!LongMaxHere \in Nat
  PROVE  S!Digits(n, b) = IF n = 0 THEN <<>>
                          ELSE Append(S!Digits(S!Quotient(n, b), b), S!Remainder(n, b))
<1>1. PICK m \in Nat : m = S!LongMaxHere + 1
  OBVIOUS
<1>2. PICK f : IsDigits(f, -m .. m, b)
  BY DigitsExist
<1> DEFINE h == [k \in Longs |-> f[k]]
           d == CHOOSE g : IsDigits(g, Longs, b)
<1>3. ASSUME NEW k \in Longs
      PROVE  k \in -m .. m /\ (k # 0 => S!Quotient(k, b) \in Longs)
  <2>1. k \in Int /\ (k > 0 \/ k < 0 \/ k = 0)
    BY <1>1 DEF Longs
  <2> QED BY <1>1, <2>1, QuotientIs DEF Longs
<1>4. ASSUME NEW k \in Longs
      PROVE  f[k] = IF k = 0 THEN <<>> ELSE Append(h[S!Quotient(k, b)], S!Remainder(k, b))
  <2>1. f[k] = IF k = 0 THEN <<>> ELSE Append(f[S!Quotient(k, b)], S!Remainder(k, b))
    BY <1>2, <1>3, Zenon DEF IsDigits
  <2> QED BY <1>3, <2>1, Zenon
<1>5. h = [k \in Longs |-> IF k = 0 THEN <<>> ELSE Append(h[S!Quotient(k, b)], S!Remainder(k, b))]
  BY <1>4, Zenon
<1> HIDE DEF h
<1>6. IsDigits(h, Longs, b)
  BY <1>5, Zenon DEF IsDigits
<1>7. IsDigits(d, Longs, b)
  BY <1>6, Zenon
<1>8. S!Digits(n, b) = d[n] /\ S!Digits(S!Quotient(n, b), b) = d[S!Quotient(n, b)]
  BY Zenon DEF S!Digits, IsDigits, Longs
<1> HIDE DEF d
<1>9. d[n] = IF n = 0 THEN <<>> ELSE Append(d[S!Quotient(n, b)], S!Remainder(n, b))
  BY <1>7, Zenon DEF IsDigits
<1> QED BY <1>8, <1>9, Zenon

(* Reads, likewise: the value of the first i digits of a numeral.            *)
IsValue(f, s, b) ==
    f = [i \in 0 .. Len(s) |-> IF i = 0 THEN 0 ELSE b * f[i - 1] + s[i]]

LEMMA ValueUnique ==
  ASSUME NEW b, NEW s \in Seq(Int), NEW f, IsValue(f, s, b), NEW g, IsValue(g, s, b)
  PROVE  f = g
<1> DEFINE D == 0 .. Len(s)
           Differ == {i \in D : f[i] # g[i]}
<1>1. Len(s) \in Nat
  OBVIOUS
<1>2. ASSUME Differ # {} PROVE FALSE
  <2>1. Differ \subseteq Nat
    BY <1>1
  <2>2. PICK i \in Differ : \A j \in Differ : i <= j
    <3> HIDE DEF Differ
    <3> QED BY <1>2, <2>1, LeastExists, Zenon
  <2>3. i \in D /\ f[i] # g[i]
    BY Zenon
  <2>4. /\ f[i] = IF i = 0 THEN 0 ELSE b * f[i - 1] + s[i]
        /\ g[i] = IF i = 0 THEN 0 ELSE b * g[i - 1] + s[i]
    BY <2>3, Zenon DEF IsValue
  <2>5. i # 0
    BY <2>3, <2>4, Zenon
  <2>6. i - 1 \in D /\ ~(i <= i - 1)
    BY <1>1, <2>3, <2>5
  <2>7. f[i - 1] = g[i - 1]
    BY <2>2, <2>6, Zenon
  <2> QED BY <2>3, <2>4, <2>5, <2>7, Zenon
<1>3. \A i \in D : f[i] = g[i]
  BY <1>2, Zenon
<1>4. f = [i \in D |-> f[i]] /\ g = [i \in D |-> g[i]]
  BY Zenon DEF IsValue
<1> QED BY <1>3, <1>4, Zenon

LEMMA ValueAppend ==
  ASSUME NEW b \in Bases, NEW s \in Seq(Int), NEW d \in Int, NEW f, IsValue(f, s, b)
  PROVE  \E g : IsValue(g, Append(s, d), b) /\ g[Len(s) + 1] = b * f[Len(s)] + d
<1>1. PICK t : t = Append(s, d)
  OBVIOUS
<1>2. PICK n \in Nat : n = Len(s)
  OBVIOUS
<1>3. Len(t) = n + 1 /\ t[n + 1] = d /\ \A i \in 1 .. n : t[i] = s[i]
  BY <1>1, <1>2
<1> DEFINE val(i) == IF i = 0 THEN 0 ELSE b * f[i - 1] + t[i]
           g == [i \in 0 .. n + 1 |-> val(i)]
<1>4. ASSUME NEW i \in 0 .. n PROVE g[i] = f[i]
  <2>1. i \in 0 .. n + 1 /\ (i = 0 \/ i \in 1 .. n)
    OBVIOUS
  <2>2. g[i] = val(i)
    BY <2>1, Zenon
  <2>3. f[i] = IF i = 0 THEN 0 ELSE b * f[i - 1] + s[i]
    BY <1>2, Zenon DEF IsValue
  <2> QED BY <1>3, <2>1, <2>2, <2>3, Zenon
<1>5. ASSUME NEW i \in 0 .. n + 1
      PROVE  val(i) = IF i = 0 THEN 0 ELSE b * g[i - 1] + t[i]
  <2>1. CASE i = 0
    BY <2>1, Zenon
  <2>2. CASE i # 0
    <3>1. i - 1 \in 0 .. n
      BY <2>2
    <3>2. g[i - 1] = f[i - 1]
      BY <1>4, <3>1, Zenon
    <3> QED BY <2>2, <3>2, Zenon
  <2> QED BY <2>1, <2>2, Zenon
<1>6. g = [i \in 0 .. n + 1 |-> IF i = 0 THEN 0 ELSE b * g[i - 1] + t[i]]
  BY <1>5, Zenon
<1>7. g[n + 1] = b * f[n] + d
  <2>1. PICK k \in 0 .. n + 1 : k = n + 1 /\ k # 0 /\ k - 1 = n
    OBVIOUS
  <2>2. g[k] = b * f[k - 1] + t[k]
    BY <2>1, Zenon
  <2> QED BY <1>3, <2>1, <2>2
<1> HIDE DEF g
<1>8. IsValue(g, t, b)
  BY <1>3, <1>6, Zenon DEF IsValue
<1> QED BY <1>1, <1>2, <1>7, <1>8, Zenon

(* The numeral of a number: its value, and no zero before it.  The digits of *)
(* a negative one are negative.                                              *)
Numeral(n, s, b) ==
    /\ s \in Seq(Int)
    /\ \E f : IsValue(f, s, b) /\ f[Len(s)] = n
    /\ n > 0 => Len(s) > 0 /\ s[1] # 0 /\ \A i \in 1 .. Len(s) : s[i] \in 0 .. b - 1
    /\ n < 0 => Len(s) > 0 /\ s[1] < 0
    /\ n = 0 => s = <<>>

LEMMA NumeralZero == ASSUME NEW b \in Bases PROVE Numeral(0, <<>>, b)
<1>1. <<>> \in Seq(Int) /\ Len(<<>>) = 0 /\ 0 .. 0 = {0}
  OBVIOUS
<1>2. PICK f : f = [i \in 0 .. 0 |-> 0]
  OBVIOUS
<1>3. f = [i \in 0 .. 0 |-> IF i = 0 THEN 0 ELSE b * f[i - 1] + <<>>[i]] /\ f[0] = 0
  BY <1>2
<1>4. IsValue(f, <<>>, b) /\ f[Len(<<>>)] = 0
  BY <1>1, <1>3, Zenon DEF IsValue
<1> QED BY <1>1, <1>4 DEF Numeral

(* One more turn of valiant_itoa's loop.                                     *)
LEMMA NumeralTurn ==
  ASSUME NEW b \in Bases, NEW n \in Int, n # 0, NEW s, Numeral(S!Quotient(n, b), s, b)
  PROVE  Numeral(n, Append(s, S!Remainder(n, b)), b)
<1>1. PICK q \in Int, d \in Int : q = S!Quotient(n, b) /\ d = S!Remainder(n, b)
  BY QuotientIs
<1>2. /\ n = b * q + d
      /\ n > 0 => q >= 0 /\ d \in 0 .. b - 1
      /\ n < 0 => q <= 0 /\ d \in -(b - 1) .. 0
  BY <1>1, QuotientIs
<1>3. Numeral(q, s, b)
  BY <1>1
<1>4. s \in Seq(Int)
  BY <1>3 DEF Numeral
<1>5. PICK f : IsValue(f, s, b) /\ f[Len(s)] = q
  BY <1>3, Zenon DEF Numeral
<1>6. PICK t : t = Append(s, d)
  OBVIOUS
<1>7. t \in Seq(Int) /\ Len(t) = Len(s) + 1 /\ Len(s) \in Nat /\ t[Len(t)] = d
      /\ \A i \in 1 .. Len(s) : t[i] = s[i]
  BY <1>4, <1>6
<1>8. PICK g : IsValue(g, t, b) /\ g[Len(s) + 1] = b * f[Len(s)] + d
  <2>1. \E g : IsValue(g, Append(s, d), b) /\ g[Len(s) + 1] = b * f[Len(s)] + d
    BY <1>4, <1>5, ValueAppend
  <2> QED BY <1>6, <2>1, Zenon
<1>9. \E h : IsValue(h, t, b) /\ h[Len(t)] = n
  BY <1>2, <1>5, <1>7, <1>8, Zenon
<1>10. CASE n > 0
  <2>1. q >= 0 /\ d \in 0 .. b - 1
    BY <1>2, <1>10
  <2>2. ASSUME NEW i \in 1 .. Len(t) PROVE t[i] \in 0 .. b - 1
    <3>1. CASE i = Len(t)
      BY <1>7, <2>1, <3>1
    <3>2. CASE i # Len(t)
      <4>1. i \in 1 .. Len(s) /\ q > 0
        <5>1. i \in 1 .. Len(s) /\ s # <<>>
          BY <1>4, <1>7, <3>2
        <5> QED BY <1>3, <2>1, <5>1 DEF Numeral
      <4> QED BY <1>3, <1>7, <4>1 DEF Numeral
    <3> QED BY <3>1, <3>2
  <2>3. t[1] # 0
    <3>1. CASE q = 0
      <4>1. s = <<>> /\ d = n
        <5>1. b * q = 0
          BY <3>1 DEF Bases
        <5> QED BY <1>2, <1>3, <3>1, <5>1 DEF Numeral
      <4> QED BY <1>7, <1>10, <4>1
    <3>2. CASE q > 0
      BY <1>3, <1>7, <3>2 DEF Numeral
    <3> QED BY <2>1, <3>1, <3>2
  <2>4. Len(t) > 0 /\ ~(n < 0) /\ n # 0
    BY <1>7, <1>10
  <2> QED BY <1>1, <1>6, <1>7, <1>9, <2>2, <2>3, <2>4, Zenon DEF Numeral
<1>11. CASE n < 0
  <2>1. q <= 0 /\ d \in -(b - 1) .. 0
    BY <1>2, <1>11
  <2>2. t[1] < 0
    <3>1. CASE q = 0
      <4>1. s = <<>> /\ d = n
        <5>1. b * q = 0
          BY <3>1 DEF Bases
        <5> QED BY <1>2, <1>3, <3>1, <5>1 DEF Numeral
      <4> QED BY <1>7, <1>11, <4>1
    <3>2. CASE q < 0
      BY <1>3, <1>7, <3>2 DEF Numeral
    <3> QED BY <2>1, <3>1, <3>2
  <2>3. Len(t) > 0 /\ ~(n > 0) /\ n # 0
    BY <1>7, <1>11
  <2> QED BY <1>1, <1>6, <1>7, <1>9, <2>2, <2>3, Zenon DEF Numeral
<1> QED BY <1>10, <1>11

LEMMA DigitsAreNumeral ==
  ASSUME NEW b \in Bases, S!LongMaxHere \in Nat, NEW n \in Longs
  PROVE  Numeral(n, S!Digits(n, b), b)
<1> DEFINE Size(k) == IF k < 0 THEN -k ELSE k
           Wrong == {m \in Nat : \E k \in Longs : Size(k) = m /\ ~Numeral(k, S!Digits(k, b), b)}
<1>1. \A k \in Longs : k \in Int /\ Size(k) \in Nat
  BY DEF Longs
<1>2. ASSUME Wrong # {} PROVE FALSE
  <2>1. PICK m \in Wrong : \A j \in Wrong : m <= j
    <3>1. Wrong \subseteq Nat
      BY Zenon
    <3> HIDE DEF Wrong
    <3> QED BY <1>2, <3>1, LeastExists, Zenon
  <2>2. PICK k \in Longs : Size(k) = m /\ ~Numeral(k, S!Digits(k, b), b)
    BY Zenon
  <2>3. CASE k = 0
    <3>1. S!Digits(k, b) = <<>>
      BY <2>3, DigitsUnfold, Zenon
    <3> QED BY <2>2, <2>3, <3>1, NumeralZero, Zenon
  <2>4. CASE k # 0
    <3>1. PICK q \in Int : q = S!Quotient(k, b) /\ q \in Longs /\ Size(q) < Size(k)
      <4>1. k \in Int /\ (k > 0 \/ k < 0) /\ S!Quotient(k, b) \in Int
            /\ -(S!LongMaxHere + 1) <= k /\ k <= S!LongMaxHere
        BY <2>4, QuotientIs DEF Longs
      <4>2. S!Quotient(k, b) \in 0 .. k - 1 \/ S!Quotient(k, b) \in k + 1 .. 0
        BY <4>1, QuotientIs
      <4> QED BY <4>1, <4>2 DEF Longs
    <3>2. Numeral(q, S!Digits(q, b), b)
      <4>1. ~(Size(k) <= Size(q))
        BY <1>1, <3>1
      <4>2. Size(q) \notin Wrong
        BY <2>1, <2>2, <4>1, Zenon
      <4>3. Size(q) \in Nat
        BY <1>1, <3>1
      <4> QED BY <3>1, <4>2, <4>3, Zenon
    <3>3. S!Digits(k, b) = Append(S!Digits(q, b), S!Remainder(k, b))
      BY <2>4, <3>1, DigitsUnfold, Zenon
    <3>4. k \in Int
      BY <1>1
    <3> HIDE DEF Size, Wrong
    <3> QED BY <2>2, <2>4, <3>1, <3>2, <3>3, <3>4, NumeralTurn, Zenon
  <2> QED BY <2>3, <2>4
<1>3. Size(n) \in Nat /\ Size(n) \notin Wrong
  BY <1>1, <1>2, Zenon
<1> QED BY <1>3, Zenon

HasValue(s, b, n) == \E f : IsValue(f, s, b) /\ f[Len(s)] = n

(* What valiant_itoa writes of a number is right if the number it divides is *)
(* not negative, and is not even digits if it is.                            *)
LEMMA ReadsIs ==
  ASSUME NEW b \in Bases, NEW minus \in BOOLEAN, NEW n \in Int, NEW s \in Seq(Int),
         HasValue(s, b, n)
  PROVE  S!Reads([minus |-> minus, digits |-> s], b) = IF minus THEN -n ELSE n
<1> DEFINE read == CHOOSE f : IsValue(f, s, b)
<1>1. PICK f : IsValue(f, s, b) /\ f[Len(s)] = n
  BY Zenon DEF HasValue
<1>2. IsValue(read, s, b)
  BY <1>1, Zenon
<1>3. read = f
  <2> HIDE DEF read
  <2> QED BY <1>1, <1>2, ValueUnique, Zenon
<1>4. S!Reads([minus |-> minus, digits |-> s], b)
        = IF minus THEN -read[Len(s)] ELSE read[Len(s)]
  BY DEF S!Reads, IsValue
<1> QED BY <1>1, <1>3, <1>4, Zenon

LEMMA ProperIs ==
  ASSUME NEW b \in Bases, NEW minus, NEW n \in Int, NEW s, Numeral(n, s, b)
  PROVE  /\ n > 0 => S!Proper([minus |-> minus, digits |-> s], b)
         /\ n < 0 => ~S!Proper([minus |-> minus, digits |-> s], b)
<1>1. s \in Seq(Int)
  BY DEF Numeral
<1>2. ASSUME n > 0 PROVE S!Proper([minus |-> minus, digits |-> s], b)
  BY <1>1, <1>2 DEF Numeral, S!Proper
<1>3. ASSUME n < 0 PROVE ~S!Proper([minus |-> minus, digits |-> s], b)
  <2>1. Len(s) > 0 /\ s[1] < 0
    BY <1>3 DEF Numeral
  <2>2. 1 \in DOMAIN s /\ s[1] \notin 0 .. b - 1
    BY <1>1, <2>1
  <2> QED BY <2>2 DEF S!Proper
<1> QED BY <1>2, <1>3

(* A long that holds the number keeps it; one as wide as int turns the upper *)
(* half of the unsigned ints, and the number that has no opposite, negative. *)
LEMMA LongIs ==
  ASSUME S!StdioAssumption, NEW n \in 0 .. 2 * IntMax + 1
  PROVE  /\ S!LongMaxHere \in Nat /\ S!LongMaxHere >= IntMax
         /\ arch # "i386" => S!LongMaxHere >= 2 * IntMax + 1
         /\ arch = "i386" => S!LongMaxHere = IntMax
         /\ n <= S!LongMaxHere => S!Long(n) = n
         /\ n > S!LongMaxHere => /\ arch = "i386"
                                 /\ S!Long(n) \in -(IntMax + 1) .. -1
<1>1. /\ S!LongMaxHere \in Nat /\ S!LongMaxHere >= IntMax
      /\ arch # "i386" => S!LongMaxHere >= 2 * IntMax + 1
      /\ arch = "i386" => S!LongMaxHere = IntMax
  BY DEF S!StdioAssumption, S!LongMaxHere
<1>2. PICK m \in Nat : m = S!LongMaxHere /\ IntMax \in Nat
  BY <1>1 DEF S!StdioAssumption
<1>3. ASSUME n <= m PROVE (n + m + 1) % (2 * (m + 1)) = n + m + 1
  BY <1>3
<1>4. ASSUME n > m, m = IntMax
      PROVE  (n + m + 1) % (2 * (m + 1)) = n - m - 1
  <2>1. n + m + 1 = 2 * (m + 1) + (n - m - 1)
    BY <1>2
  <2>2. n - m - 1 \in 0 .. 2 * (m + 1) - 1
    BY <1>2, <1>4
  <2> QED BY <1>2, <2>1, <2>2
<1>5. S!Long(n) = ((n + m + 1) % (2 * (m + 1))) - m - 1
  BY <1>2 DEF S!Long
<1>6. ASSUME n <= m PROVE S!Long(n) = n
  <2>1. PICK k \in Int : k = (n + m + 1) % (2 * (m + 1)) /\ k = n + m + 1
    BY <1>2, <1>3, <1>6
  <2> QED BY <1>2, <1>5, <2>1
<1>7. ASSUME n > m
      PROVE  arch = "i386" /\ S!Long(n) \in -(IntMax + 1) .. -1
  <2>1. arch = "i386" /\ m = IntMax
    BY <1>1, <1>2, <1>7
  <2>2. PICK k \in Int : k = (n + m + 1) % (2 * (m + 1)) /\ k = n - m - 1
    BY <1>2, <1>4, <1>7, <2>1
  <2> QED BY <1>2, <1>5, <1>7, <2>1, <2>2
<1> QED BY <1>1, <1>2, <1>6, <1>7

LEMMA ItoaIs ==
  ASSUME NEW n \in Int, n # 0, NEW b \in Bases, NEW minus \in BOOLEAN,
         minus <=> n < 0 /\ b = 10
  PROVE  S!valiant_itoa(n, b)
            = [minus |-> minus, digits |-> S!Digits(IF minus THEN S!Long(-n) ELSE n, b)]
<1>1. minus = (n < 0 /\ b = 10)
  OBVIOUS
<1>2. S!valiant_itoa(n, b)
         = [minus |-> (n < 0 /\ b = 10),
            digits |-> S!Digits(IF n < 0 /\ b = 10 THEN S!Long(-n) ELSE n, b)]
  BY Zenon DEF S!valiant_itoa
<1> QED BY <1>1, <1>2, Zenon

LEMMA NumberRight ==
  ASSUME NEW b \in Bases, S!LongMaxHere \in Nat, NEW k \in Longs, NEW minus \in BOOLEAN, NEW r,
         r = [minus |-> minus, digits |-> S!Digits(k, b)]
  PROVE  /\ k > 0 => S!Proper(r, b) /\ S!Reads(r, b) = IF minus THEN -k ELSE k
         /\ k < 0 => ~S!Proper(r, b)
<1>1. Numeral(k, S!Digits(k, b), b) /\ k \in Int
  BY DigitsAreNumeral DEF Longs
<1>2. /\ S!Digits(k, b) \in Seq(Int)
      /\ HasValue(S!Digits(k, b), b, k)
  BY <1>1, Zenon DEF Numeral, HasValue
<1>3. S!Reads(r, b) = IF minus THEN -k ELSE k
  BY <1>1, <1>2, ReadsIs, Zenon
<1>4. /\ k > 0 => S!Proper(r, b)
      /\ k < 0 => ~S!Proper(r, b)
  BY <1>1, ProperIs, Zenon
<1> QED BY <1>3, <1>4, Zenon

LEMMA ZeroRight ==
  ASSUME NEW b \in Bases, NEW r, r = [minus |-> FALSE, digits |-> << 0 >>]
  PROVE  S!Proper(r, b) /\ S!Reads(r, b) = 0
<1>1. PICK f : f = [i \in 0 .. 1 |-> 0]
  OBVIOUS
<1>2. <<0>> \in Seq(Int) /\ Len(<<0>>) = 1 /\ f[1] = 0
  BY <1>1
<1>3. f = [i \in 0 .. 1 |-> IF i = 0 THEN 0 ELSE b * f[i - 1] + <<0>>[i]]
  <2>1. ASSUME NEW i \in 0 .. 1
        PROVE  (IF i = 0 THEN 0 ELSE b * f[i - 1] + <<0>>[i]) = 0
    BY <1>1 DEF Bases
  <2> QED BY <1>1, <2>1, Zenon
<1>4. IsValue(f, <<0>>, b) /\ f[Len(<<0>>)] = 0
  BY <1>2, <1>3, Zenon DEF IsValue
<1>5. S!Reads(r, b) = 0
  <2>1. HasValue(<<0>>, b, 0)
    BY <1>4, Zenon DEF HasValue
  <2>2. S!Reads(r, b) = IF FALSE THEN -0 ELSE 0
    <3>1. 0 \in Int /\ FALSE \in BOOLEAN
      OBVIOUS
    <3> QED BY <1>2, <2>1, <3>1, ReadsIs, Zenon
  <2> QED BY <2>2
<1>6. S!Proper(r, b)
  BY DEF S!Proper, Bases
<1> QED BY <1>5, <1>6

(* printf's two conversions of numbers.                                      *)
LEMMA SignedRight ==
  ASSUME S!StdioAssumption, NEW v \in -IntMax - 1 .. IntMax, NEW p,
         p = [conv |-> "d", value |-> v, numeral |-> S!valiant_itoa(v, 10)]
  PROVE  S!Right(p) <=> ~S!Lost(p)
<1>1. IntMax \in Nat /\ v \in Int /\ 10 \in Bases
  BY DEF S!StdioAssumption, Bases
<1>2. PICK r : r = p.numeral
  OBVIOUS
<1>3. r = S!valiant_itoa(v, 10) /\ p.conv = "d" /\ p.value = v
  BY <1>2
<1>4. S!Right(p) <=> S!Proper(r, 10) /\ S!Reads(r, 10) = v
  BY <1>2, <1>3 DEF S!Right
<1>5. S!Lost(p) <=> arch = "i386" /\ v = -IntMax - 1
  BY <1>3 DEF S!Lost
<1>6. CASE v = 0
  <2>1. r = [minus |-> FALSE, digits |-> <<0>>]
    BY <1>3, <1>6 DEF S!valiant_itoa
  <2>2. v # -IntMax - 1
    BY <1>1, <1>6
  <2> QED BY <1>1, <1>4, <1>5, <1>6, <2>1, <2>2, ZeroRight, Zenon
<1>7. CASE v > 0
  <2>1. r = [minus |-> FALSE, digits |-> S!Digits(v, 10)]
    <3>1. FALSE \in BOOLEAN /\ v # 0 /\ (FALSE <=> v < 0 /\ 10 = 10)
      BY <1>1, <1>7
    <3> QED BY <1>1, <1>3, <3>1, ItoaIs
  <2>2. v \in 0 .. 2 * IntMax + 1
    BY <1>1, <1>7
  <2>3. v \in Longs /\ S!LongMaxHere \in Nat /\ v # -IntMax - 1
    <3>1. S!LongMaxHere \in Nat /\ S!LongMaxHere >= IntMax
      BY <2>2, LongIs
    <3> QED BY <1>1, <1>7, <3>1 DEF Longs
  <2>4. S!Proper(r, 10) /\ S!Reads(r, 10) = v
    <3>1. FALSE \in BOOLEAN
      OBVIOUS
    <3> QED BY <1>1, <1>7, <2>1, <2>3, <3>1, NumberRight, Zenon
  <2> QED BY <1>4, <1>5, <2>3, <2>4, Zenon
<1>8. CASE v < 0
  <2>1. PICK n \in 1 .. IntMax + 1 : n = -v /\ n \in 0 .. 2 * IntMax + 1 /\ v = -n
    BY <1>1, <1>8
  <2>2. PICK k : k = S!Long(n)
    OBVIOUS
  <2>3. r = [minus |-> TRUE, digits |-> S!Digits(k, 10)]
    <3>1. TRUE \in BOOLEAN /\ v # 0 /\ (TRUE <=> v < 0 /\ 10 = 10) /\ -v = n
      BY <1>1, <1>8, <2>1
    <3> QED BY <1>1, <1>3, <2>2, <3>1, ItoaIs
  <2>4. /\ S!LongMaxHere \in Nat /\ S!LongMaxHere >= IntMax
        /\ arch = "i386" => S!LongMaxHere = IntMax
        /\ arch # "i386" => S!LongMaxHere >= 2 * IntMax + 1
        /\ n <= S!LongMaxHere => k = n
        /\ n > S!LongMaxHere => arch = "i386" /\ k \in -(IntMax + 1) .. -1
    BY <2>1, <2>2, LongIs
  <2>5. k \in Longs
    BY <1>1, <2>1, <2>4 DEF Longs
  <2>6. /\ k > 0 => S!Proper(r, 10) /\ S!Reads(r, 10) = -k
        /\ k < 0 => ~S!Proper(r, 10)
    <3>1. TRUE \in BOOLEAN /\ S!LongMaxHere \in Nat
      BY <2>4
    <3>2. /\ k > 0 => S!Proper(r, 10) /\ S!Reads(r, 10) = IF TRUE THEN -k ELSE k
          /\ k < 0 => ~S!Proper(r, 10)
      BY <1>1, <2>3, <2>5, <3>1, NumberRight, Zenon
    <3> QED BY <3>2
  <2>7. CASE n <= S!LongMaxHere
    <3>1. k = n /\ k > 0 /\ -k = v /\ ~(arch = "i386" /\ v = -IntMax - 1)
      BY <1>1, <2>1, <2>4, <2>7
    <3> QED BY <1>4, <1>5, <2>6, <3>1, Zenon
  <2>8. CASE n > S!LongMaxHere
    <3>1. k < 0 /\ arch = "i386" /\ v = -IntMax - 1
      BY <1>1, <2>1, <2>4, <2>8
    <3> QED BY <1>4, <1>5, <2>6, <3>1, Zenon
  <2> QED BY <2>1, <2>4, <2>7, <2>8
<1> QED BY <1>1, <1>6, <1>7, <1>8

LEMMA UnsignedRight ==
  ASSUME S!StdioAssumption, NEW v \in 0 .. 2 * IntMax + 1, NEW p,
         p = [conv |-> "x", value |-> v, numeral |-> S!valiant_itoa(S!Long(v), 16)]
  PROVE  S!Right(p) <=> ~S!Lost(p)
<1>1. IntMax \in Nat /\ v \in Int /\ 16 \in Bases
  BY DEF S!StdioAssumption, Bases
<1>2. PICK r : r = p.numeral
  OBVIOUS
<1>3. PICK k : k = S!Long(v)
  OBVIOUS
<1>4. r = S!valiant_itoa(k, 16) /\ p.conv = "x" /\ p.value = v
  BY <1>2, <1>3
<1>5. S!Right(p) <=> S!Proper(r, 16) /\ S!Reads(r, 16) = v
  BY <1>2, <1>4 DEF S!Right
<1>6. S!Lost(p) <=> arch = "i386" /\ v > IntMax
  BY <1>4 DEF S!Lost
<1>7. /\ S!LongMaxHere \in Nat /\ S!LongMaxHere >= IntMax
      /\ arch = "i386" => S!LongMaxHere = IntMax
      /\ arch # "i386" => S!LongMaxHere >= 2 * IntMax + 1
      /\ v <= S!LongMaxHere => k = v
      /\ v > S!LongMaxHere => arch = "i386" /\ k \in -(IntMax + 1) .. -1
  BY <1>3, LongIs
<1>8. CASE v = 0
  <2>1. k = 0 /\ ~(v > IntMax)
    BY <1>1, <1>7, <1>8
  <2>2. r = [minus |-> FALSE, digits |-> <<0>>]
    BY <1>4, <2>1 DEF S!valiant_itoa
  <2> QED BY <1>1, <1>5, <1>6, <1>8, <2>1, <2>2, ZeroRight, Zenon
<1>9. CASE v > 0
  <2>1. k # 0 /\ k \in Int
    BY <1>1, <1>7, <1>9
  <2>2. r = [minus |-> FALSE, digits |-> S!Digits(k, 16)]
    <3>1. FALSE \in BOOLEAN /\ (FALSE <=> k < 0 /\ 16 = 10)
      OBVIOUS
    <3> QED BY <1>1, <1>4, <2>1, <3>1, ItoaIs
  <2>3. k \in Longs
    BY <1>1, <1>7, <1>9 DEF Longs
  <2>4. /\ k > 0 => S!Proper(r, 16) /\ S!Reads(r, 16) = k
        /\ k < 0 => ~S!Proper(r, 16)
    <3>1. FALSE \in BOOLEAN /\ S!LongMaxHere \in Nat
      BY <1>7
    <3> QED BY <1>1, <2>2, <2>3, <3>1, NumberRight, Zenon
  <2>5. CASE v <= S!LongMaxHere
    <3>1. k = v /\ k > 0 /\ ~(arch = "i386" /\ v > IntMax)
      BY <1>1, <1>7, <1>9, <2>5
    <3> QED BY <1>5, <1>6, <2>4, <3>1, Zenon
  <2>6. CASE v > S!LongMaxHere
    <3>1. k < 0 /\ arch = "i386" /\ v > IntMax
      BY <1>1, <1>7, <2>6
    <3> QED BY <1>5, <1>6, <2>4, <3>1, Zenon
  <2> QED BY <1>7, <2>5, <2>6
<1> QED BY <1>8, <1>9

(* The state of a program: what it may print, the numbers of the two system  *)
(* calls, and a line that ends nowhere before it is returned.                *)
Pieces ==
    {[conv |-> "c"], [conv |-> "s"]}
    \cup {[conv |-> "d", value |-> v, numeral |-> S!valiant_itoa(v, 10)] :
              v \in -IntMax - 1 .. IntMax}
    \cup {[conv |-> "x", value |-> v, numeral |-> S!valiant_itoa(S!Long(v), 16)] :
              v \in 0 .. 2 * IntMax + 1}

CalledInv ==
    /\ arch \in {"x86_64", "i386", "aarch64"}
    /\ called \subseteq {<<"WRITE", S!WriteNumber>>, <<"READ", S!ReadNumber>>}

Characters == STRING \cup {S!Nul}

LineInv ==
    /\ input \in Seq(Characters) /\ str \in Seq(Characters) /\ num \in Int
    /\ Len(str) < num \/ str = <<>>
    /\ \A i \in DOMAIN str : /\ str[i] \notin {S!Return, S!Nul}
                             /\ str[i] = S!Newline => i = Len(str) /\ phase = "returned"

ProgramInv == out \in Seq(Pieces) /\ CalledInv /\ LineInv

LEMMA SamePieces == ASSUME arch' = arch PROVE Pieces' = Pieces
<1>1. S!LongMaxHere' = S!LongMaxHere
  BY DEF S!LongMaxHere
<1>2. ASSUME NEW n PROVE S!Long(n)' = S!Long(n)
  BY <1>1, Zenon DEF S!Long
<1>3. ASSUME NEW n, NEW b PROVE S!Digits(n, b)' = S!Digits(n, b)
  BY <1>1, Zenon DEF S!Digits
<1>4. ASSUME NEW n, NEW b PROVE S!valiant_itoa(n, b)' = S!valiant_itoa(n, b)
  BY <1>2, <1>3, Zenon DEF S!valiant_itoa
<1> QED BY <1>2, <1>4, Zenon DEF Pieces

LEMMA SeqWider ==
  ASSUME NEW T, NEW U, T \subseteq U, NEW s \in Seq(T) PROVE s \in Seq(U)
  OBVIOUS

LEMMA ProgramInvInit == ASSUME S!StdioInit PROVE ProgramInv
<1>1. out \in Seq(Pieces) /\ CalledInv
  BY DEF S!StdioInit, CalledInv
<1>2. input \in Seq(Characters)
  <2>1. input \in Seq(STRING)
    BY ProgramAssumption, Zenon DEF S!StdioInit, S!StdioAssumption
  <2>2. STRING \subseteq Characters
    BY Zenon DEF Characters
  <2> QED BY <2>1, <2>2, SeqWider, Zenon
<1>3. LineInv
  BY <1>2 DEF S!StdioInit, LineInv
<1> QED BY <1>1, <1>3 DEF ProgramInv

LEMMA OutStep == ASSUME out \in Seq(Pieces), S!StdioNext PROVE out' \in Seq(Pieces)
<1>1. ASSUME NEW piece \in Pieces, NEW n, S!Shows(piece, n) PROVE out' \in Seq(Pieces)
  BY <1>1 DEF S!Shows
<1>2. ASSUME out' = out PROVE out' \in Seq(Pieces)
  BY <1>2
<1>3. [conv |-> "c"] \in Pieces /\ [conv |-> "s"] \in Pieces
  BY Zenon DEF Pieces
<1>4. ASSUME NEW v \in -IntMax - 1 .. IntMax, S!ShowsNumber("d", v, v)
      PROVE  out' \in Seq(Pieces)
  <2>1. PICK n : S!Shows([conv |-> "d", value |-> v, numeral |-> S!valiant_itoa(v, 10)], n)
    BY <1>4, Zenon DEF S!ShowsNumber
  <2>2. [conv |-> "d", value |-> v, numeral |-> S!valiant_itoa(v, 10)] \in Pieces
    BY Zenon DEF Pieces
  <2> QED BY <1>1, <2>1, <2>2, Zenon
<1>5. ASSUME NEW v \in 0 .. 2 * IntMax + 1, S!ShowsNumber("x", v, S!Long(v))
      PROVE  out' \in Seq(Pieces)
  <2>1. PICK n :
          S!Shows([conv |-> "x", value |-> v, numeral |-> S!valiant_itoa(S!Long(v), 16)], n)
    BY <1>5, Zenon DEF S!ShowsNumber
  <2>2. [conv |-> "x", value |-> v, numeral |-> S!valiant_itoa(S!Long(v), 16)] \in Pieces
    BY Zenon DEF Pieces
  <2> QED BY <1>1, <2>1, <2>2, Zenon
<1>6. ASSUME S!Convert PROVE out' \in Seq(Pieces)
  BY <1>1, <1>2, <1>3, <1>4, <1>5, <1>6, Zenon DEF S!Convert
<1>7. ASSUME S!Plain PROVE out' \in Seq(Pieces)
  BY <1>1, <1>3, <1>7, Zenon DEF S!Plain
<1>8. ASSUME S!printf PROVE out' \in Seq(Pieces)
  BY <1>2, <1>6, <1>7, <1>8, Zenon DEF S!printf
<1>9. ASSUME S!fgets PROVE out' = out
  BY <1>9 DEF S!fgets
<1>10. ASSUME NEW f, S!Printf(f) PROVE out' = out
  BY <1>10 DEF S!Printf
<1>11. ASSUME NEW n, S!Fgets(n) PROVE out' = out
  BY <1>11 DEF S!Fgets
<1> QED BY <1>2, <1>8, <1>9, <1>10, <1>11, Zenon DEF S!StdioNext

LEMMA ArchKept == ASSUME S!StdioNext PROVE arch' = arch
  BY DEF S!StdioNext, S!Printf, S!printf, S!Fgets, S!fgets

LEMMA CalledStep == ASSUME CalledInv, S!StdioNext PROVE CalledInv'
<1>1. arch' = arch
  BY ArchKept
<1>2. S!WriteNumber' = S!WriteNumber /\ S!ReadNumber' = S!ReadNumber
  BY <1>1 DEF S!WriteNumber, S!ReadNumber
<1>3. ASSUME S!sys_write
      PROVE  called' \subseteq {<<"WRITE", S!WriteNumber>>, <<"READ", S!ReadNumber>>}
  BY <1>3 DEF S!sys_write, CalledInv
<1>4. ASSUME S!getchar
      PROVE  called' \subseteq {<<"WRITE", S!WriteNumber>>, <<"READ", S!ReadNumber>>}
  BY <1>4 DEF S!getchar, CalledInv
<1>5. S!sys_write \/ S!getchar \/ called' = called
  BY DEF S!StdioNext, S!Printf, S!printf, S!Fgets, S!fgets, S!Plain, S!Convert
<1> QED BY <1>1, <1>2, <1>3, <1>4, <1>5 DEF CalledInv

LEMMA LineStep == ASSUME LineInv, S!StdioNext PROVE LineInv'
<1>1. ASSUME NEW n \in Nums, S!Fgets(n) PROVE LineInv'
  BY <1>1, ProgramAssumption DEF S!Fgets, LineInv, S!StdioAssumption
<1>2. ASSUME S!fgets PROVE LineInv'
  <2>1. S!NextChar \in Characters
    <3>1. S!Nul \in Characters
      BY DEF Characters
    <3> QED BY <3>1 DEF LineInv, S!NextChar
  <2>2. ASSUME S!getchar PROVE input' \in Seq(Characters)
    BY <2>2 DEF LineInv, S!getchar
  <2>3. CASE Len(str) >= num - 1 /\ phase' = "returned" /\ UNCHANGED <<called, input, str, dropped>>
    BY <1>2, <2>3 DEF S!fgets, LineInv
  <2>4. CASE /\ Len(str) < num - 1 /\ S!getchar
             /\ S!NextChar \in {S!Nul, S!Return} /\ str' = str /\ phase' = "returned"
    BY <1>2, <2>2, <2>4 DEF S!fgets, LineInv
  <2>5. CASE /\ Len(str) < num - 1 /\ S!getchar
             /\ S!NextChar \notin {S!Nul, S!Return} /\ str' = Append(str, S!NextChar)
             /\ phase' = IF S!NextChar = S!Newline THEN "returned" ELSE phase
    BY <1>2, <2>1, <2>2, <2>5 DEF S!fgets, LineInv
  <2> QED BY <1>2, <2>3, <2>4, <2>5 DEF S!fgets
<1>3. ASSUME NEW f, S!Printf(f) PROVE LineInv'
  BY <1>3 DEF S!Printf, LineInv
<1>4. ASSUME S!printf PROVE LineInv'
  BY <1>4 DEF S!printf, LineInv
<1> QED BY <1>1, <1>2, <1>3, <1>4 DEF S!StdioNext

LEMMA ProgramInvStep ==
  ASSUME ProgramInv, [S!StdioNext]_(programVars) PROVE ProgramInv'
<1>1. CASE S!StdioNext
  BY <1>1, OutStep, ArchKept, SamePieces, CalledStep, LineStep DEF ProgramInv
<1>2. CASE UNCHANGED programVars
  <2>1. Pieces' = Pieces
    BY <1>2, SamePieces DEF programVars
  <2> QED BY <1>2, <2>1 DEF ProgramInv, programVars, CalledInv, LineInv, S!WriteNumber, S!ReadNumber
<1> QED BY <1>1, <1>2

LEMMA ProgramInvAnswers == ASSUME ProgramInv PROVE TextIsRight
<1>1. ASSUME NEW i \in DOMAIN out, out[i].conv \in {"d", "x"}
      PROVE  S!Right(out[i]) <=> ~S!Lost(out[i])
  <2>1. out[i] \in Pieces
    BY DEF ProgramInv
  <2>2. CASE \E v \in -IntMax - 1 .. IntMax :
               out[i] = [conv |-> "d", value |-> v, numeral |-> S!valiant_itoa(v, 10)]
    BY <2>2, SignedRight, ProgramAssumption, Zenon
  <2>3. CASE \E v \in 0 .. 2 * IntMax + 1 :
               out[i] = [conv |-> "x", value |-> v, numeral |-> S!valiant_itoa(S!Long(v), 16)]
    BY <2>3, UnsignedRight, ProgramAssumption, Zenon
  <2>4. out[i] # [conv |-> "c"] /\ out[i] # [conv |-> "s"]
    BY <1>1
  <2> QED BY <2>1, <2>2, <2>3, <2>4, Zenon DEF Pieces
<1>2. ASSUME NEW e \in called PROVE e[2] = S!KernelNumber(e[1]) <=> arch = "x86_64"
  <2>1. CASE e = <<"WRITE", S!WriteNumber>>
    BY <2>1 DEF ProgramInv, CalledInv, S!WriteNumber, S!KernelNumber
  <2>2. CASE e = <<"READ", S!ReadNumber>>
    BY <2>2 DEF ProgramInv, CalledInv, S!ReadNumber, S!KernelNumber
  <2> QED BY <2>1, <2>2 DEF ProgramInv, CalledInv
<1>3. /\ Len(str) < num \/ str = <<>>
      /\ \A i \in DOMAIN str : /\ str[i] \notin {S!Return, S!Nul}
                               /\ str[i] = S!Newline => i = Len(str) /\ phase = "returned"
  BY DEF ProgramInv, LineInv
<1> QED BY <1>1, <1>2, <1>3, Zenon DEF TextIsRight, S!TextIsRight

LEMMA ProgramPart ==
  /\ FilesInit => S!StdioInit
  /\ [FilesNext]_filesVars => [S!StdioNext]_programVars
<1>1. FilesInit => S!StdioInit
  BY DEF FilesInit
<1>2. [FilesNext]_filesVars => [S!StdioNext]_programVars
  BY DEF FilesNext, FatStep, VfsStep, VefStep, ProgramStep, filesVars
<1> QED BY <1>1, <1>2

(* ProgramInv holds whatever a program prints and reads.                     *)
THEOREM ProgramInvariant == FilesSpec => []ProgramInv
<1>1. FilesInit => ProgramInv
  BY ProgramPart, ProgramInvInit
<1>2. ProgramInv /\ [FilesNext]_filesVars => ProgramInv'
  BY ProgramPart, ProgramInvStep
<1> QED BY <1>1, <1>2, PTL DEF FilesSpec

(* printf, valiant_itoa and fgets, for every width of int and of long: each  *)
(* number is printed right but those a long as wide as int has no room for,  *)
(* and every line ends where it has to.                                      *)
THEOREM TextCorrect == FilesSpec => []TextIsRight
<1>1. ProgramInv => TextIsRight
  BY ProgramInvAnswers
<1> QED BY <1>1, ProgramInvariant, PTL
=============================================================================
