-------------------------------- MODULE Vef --------------------------------
(***************************************************************************)
(* The VEF executable format: the file src/bin/vef-pack.c writes and the   *)
(* checks, copy and mode switch of vef_exec in src/loaders/vef-loader.c.   *)
(* A file is its sequence of bytes; both programs overlay a packed struct  *)
(* on it, and the two structs differ in the width of two fields.           *)
(*                                                                         *)
(* External: security_scan_buffer, reduced to what the loader sees of it   *)
(* (an empty buffer or one with a signature is refused; one byte stands    *)
(* for a signature), paging, and the program itself, which never returns.  *)
(***************************************************************************)
EXTENDS Integers, Sequences, SequencesExt

CONSTANTS
    CurrentArch,  \* vef_current_arch() of this build
    Code,         \* the raw binaries that get packed or sent to the loader
    Signature     \* the byte that stands for a known virus signature

Arch  == {1, 2, 3}                \* ARCH_I386, ARCH_X86_64, ARCH_AARCH64
Magic == <<70, 73, 78, 78>>       \* "FINN"
Entry == 1048576                  \* 0x100000

ArchAssumption == CurrentArch \in Arch
CodeAssumption == Code \subseteq Seq(0..255) /\ Signature \in 0..255

(* A little-endian field of the given width (in bytes, values below 2^24).   *)
Field(n, width) ==
    <<n % 256, (n \div 256) % 256, n \div 65536>> \o [i \in 1..width - 3 |-> 0]

(* The packer's header has 64-bit entry and size.          *)
PackHeader(arch, size) ==
    Magic \o <<arch>> \o Field(Entry, 8) \o Field(size, 8)

(* main of vef-pack: header, then the input file.                            *)
Pack(arch, code) == PackHeader(arch, Len(code)) \o code

(* The loader's header: 32-bit entry and size, thirteen bytes in all.        *)
HeaderSize == 13
FileMagic(f) == SubSeq(f, 1, 4)
FileArch(f)  == f[5]
Word32(f, i) == f[i] + 256 * f[i + 1] + 65536 * f[i + 2]
FileEntry(f) == Word32(f, 6)
TextSize(f)  == Word32(f, 10)
Payload(f)   == SubSeq(f, HeaderSize + 1, HeaderSize + TextSize(f))

(* security_scan_buffer as vef_exec uses it.                                 *)
ScanClean(bytes) == bytes # <<>> /\ ~Contains(bytes, Signature)

(* Files the loader may be given: what the packer wrote, what someone wrote  *)
(* to the loader's own struct (claiming the right size or one more byte),    *)
(* and any of them cut short or with another signature.                      *)
LoaderFile(arch, size, code) ==
    Magic \o <<arch>> \o Field(Entry, 4) \o Field(size, 4) \o code

Packed(f) == \E a \in Arch, code \in Code : f = Pack(a, code)

WholeFile ==
    {Pack(a, code) : a \in Arch, code \in Code}
      \cup {LoaderFile(a, Len(code) + k, code) : a \in Arch, code \in Code, k \in 0..1}

File == WholeFile
          \cup {SubSeq(f, 1, n) : f \in WholeFile, n \in {0, HeaderSize - 1, HeaderSize}}
          \cup {<<0>> \o Tail(f) : f \in WholeFile}

VARIABLES
    file,    \* buf, the file vef_exec is working on
    pc,      \* where vef_exec is
    memory,  \* what was copied to the entry point, or <<>>
    win,     \* the loader's window: "closed", or the title it shows
    space    \* the address space of the CPU: "kernel" or "user"

vars == <<file, pc, memory, win, space>>

Init ==
    /\ file \in File
    /\ pc = "header" /\ memory = <<>> /\ win = "closed" /\ space = "kernel"

(* The error returns: a window that stays open, and -1.  A buffer too short  *)
(* for the header opens none.                                                *)
Refuse(title) ==
    /\ pc' = "refused"
    /\ win' = title
    /\ UNCHANGED <<file, memory, space>>

Proceed(to) == pc' = to /\ UNCHANGED <<file, memory, win, space>>

CheckHeader ==
    /\ pc = "header"
    /\ \/ Len(file) < HeaderSize /\ Refuse(win)
       \/ /\ Len(file) >= HeaderSize
          /\ IF FileMagic(file) = Magic THEN Proceed("arch") ELSE Refuse("error")

(* Mutant of CheckArch: a mismatch is shown but the call goes on.            *)
CheckArchGoesOn == pc = "arch" /\ Proceed("size")

CheckArch ==
    /\ pc = "arch"
    /\ IF FileArch(file) = CurrentArch THEN Proceed("size") ELSE Refuse("error")

CheckSize ==
    /\ pc = "size"
    /\ IF TextSize(file) + HeaderSize > Len(file) THEN Refuse("error")
                                                  ELSE Proceed("scan")

Scan ==
    /\ pc = "scan"
    /\ IF ScanClean(Payload(file)) THEN Proceed("load") ELSE Refuse("security")

(* The running window and the copy to the entry point, byte by byte.         *)
Load ==
    /\ pc = "load"
    /\ memory' = [i \in 1..TextSize(file) |-> file[HeaderSize + i]]
    /\ win' = "running"
    /\ pc' = "map"
    /\ UNCHANGED <<file, space>>

(* paging_map_user, paging_switch_user, jump_to_ring3.  The jump does not    *)
(* come back: what follows it in vef_exec is never reached.                  *)
EnterUser ==
    /\ pc = "map"
    /\ space' = "user"
    /\ pc' = "ring3"
    /\ UNCHANGED <<file, memory, win>>

vef_exec == CheckHeader \/ CheckArch \/ CheckSize \/ Scan \/ Load \/ EnterUser

Spec == Init /\ [][vef_exec]_vars

-----------------------------------------------------------------------------
(* What runs in ring 3 is a whole program of this architecture, byte for     *)
(* byte what was scanned, and none of it comes from beyond the file; a file  *)
(* that is refused leaves memory and the address space alone, and ring 3 is  *)
(* only entered with the loader's "running" window on screen.                *)
RunsOnlyScanned ==
    /\ pc \in {"map", "ring3"} =>
           /\ FileArch(file) = CurrentArch
           /\ memory = Payload(file)
           /\ Len(memory) = TextSize(file)
           /\ ScanClean(memory)
    /\ pc = "refused" => memory = <<>> /\ space = "kernel" /\ win # "running"
    /\ space = "user" => win = "running"

(* "Guide to creating a ValiantCore-compatible VEF file": a clean, nonempty  *)
(* program packed for this architecture is run by the loader.                *)
PackedFileRuns ==
    \A code \in Code :
        file = Pack(CurrentArch, code) /\ ScanClean(code) => pc # "refused"
=============================================================================
