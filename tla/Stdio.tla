------------------------------- MODULE Stdio --------------------------------
(***************************************************************************)
(* The library of user programs, src/bin/stdio.h: the numbers of its two   *)
(* system calls, printf with valiant_itoa, and fgets.  A program is one    *)
(* thread; a call is a loop over characters, each output a system call of  *)
(* its own; the two calls share nothing, so a behaviour prints once or     *)
(* reads lines.  Integers have their width: int 32 bits and long 64, or 32 *)
(* on i386, both scaled down.                                              *)
(***************************************************************************)
EXTENDS Integers, Sequences

CONSTANTS
    IntMax, LongMax,  \* 2^31 - 1, and 2^63 - 1 where long has 64 bits
    Formats,          \* formats, as sequences of characters
    Inputs,           \* what waits at descriptor 0, characters and Nul
    Nums              \* the sizes fgets is called with

VARIABLES
    arch,
    called,   \* the system calls made, as <<name, number>>
    format,   \* what printf has yet to go through
    out,      \* what it has written: characters, texts and numerals
    count,
    input,    \* what has not been read
    num, str, \* the arguments of fgets
    dropped,  \* what the fgets calls have read and not returned (history)
    pc        \* "idle", "printf", "printed", "fgets" or "returned"

stdioVars == <<arch, called, format, out, count, input, num, str, dropped, pc>>

Nul == "nul"
Return == "\r"
Newline == "\n"

(* A long has the width of an int, or holds every unsigned int.              *)
StdioAssumption ==
    /\ IntMax \in Nat /\ LongMax \in Nat /\ LongMax >= 2 * IntMax + 1
    /\ Inputs \subseteq Seq(STRING) /\ Nums \subseteq Int

StdioInit ==
    /\ arch \in {"x86_64", "i386", "aarch64"}
    /\ called = {} /\ format = <<>> /\ out = <<>> /\ count = 0
    /\ input \in Inputs /\ num = 0 /\ str = <<>> /\ dropped = <<>>
    /\ pc = "idle"

(* The numbers that sys_write and sys_read put in the call's register.       *)
WriteNumber == 1
ReadNumber == CASE arch = "x86_64" -> 0 [] OTHER -> 2
sys_write == called' = called \cup {<<"WRITE", WriteNumber>>}

(* The kernel's: SYSCALL_WRITE and SYSCALL_READ of src/include/kernel.h.     *)
KernelNumber(name) ==
    CASE name = "WRITE" -> IF arch = "x86_64" THEN 1 ELSE 4
      [] name = "READ"  -> IF arch = "x86_64" THEN 0 ELSE 3

-----------------------------------------------------------------------------
LongMaxHere == IF arch = "i386" THEN IntMax ELSE LongMax
Long(n) == ((n + LongMaxHere + 1) % (2 * (LongMaxHere + 1))) - LongMaxHere - 1

(* Division and remainder of C, which cut towards zero.                      *)
Quotient(n, base)  == IF n < 0 THEN -((-n) \div base) ELSE n \div base
Remainder(n, base) == n - base * Quotient(n, base)

Digits(n, base) ==
    LET digits[k \in -(LongMaxHere + 1) .. LongMaxHere] ==
            IF k = 0 THEN <<>>
            ELSE Append(digits[Quotient(k, base)], Remainder(k, base))
    IN  digits[n]

(* Mutant of valiant_itoa: the sign is not taken off.                        *)
itoa_signed(n, base) ==
    IF n = 0 THEN [minus |-> FALSE, digits |-> <<0>>]
    ELSE [minus |-> n < 0 /\ base = 10, digits |-> Digits(n, base)]

(* valiant_itoa: the digits, which it produces from the last to the first    *)
(* and then reverses.  Negation in a long may leave the number as it is.     *)
valiant_itoa(n, base) ==
    LET minus == n < 0 /\ base = 10
    IN  IF n = 0 THEN [minus |-> FALSE, digits |-> <<0>>]
        ELSE [minus |-> minus, digits |-> Digits(IF minus THEN Long(-n) ELSE n, base)]

Shows(piece, length) == out' = Append(out, piece) /\ count' = count + length
ShowsNumber(conv, value, n) ==
    LET s == valiant_itoa(n, IF conv = "d" THEN 10 ELSE 16)
    IN  Shows([conv |-> conv, value |-> value, numeral |-> s],
              Len(s.digits) + (IF s.minus THEN 1 ELSE 0))
Rest(n) == format' = SubSeq(format, n + 1, Len(format))

Printf(f) ==
    /\ pc = "idle" /\ pc' = "printf"
    /\ format' = f
    /\ UNCHANGED <<arch, called, out, count, input, num, str, dropped>>

(* A character that is not a % with another behind it.                       *)
Plain ==
    /\ Head(format) # "%" \/ Len(format) = 1
    /\ Shows([conv |-> "c"], 1) /\ Rest(1) /\ sys_write

(* A conversion with its argument.  An unknown one, %% among them, is        *)
(* skipped.                                                                  *)
Convert ==
    /\ Head(format) = "%" /\ Len(format) > 1
    /\ Rest(2)
    /\ \/ format[2] = "c" /\ Shows([conv |-> "c"], 1) /\ sys_write
       \/ format[2] = "s" /\ \E n \in 0 .. 1 : Shows([conv |-> "s"], n)
                          /\ sys_write
       \/ format[2] = "d" /\ \E v \in -IntMax - 1 .. IntMax : ShowsNumber("d", v, v)
                          /\ sys_write
       \/ format[2] = "x" /\ \E v \in 0 .. 2 * IntMax + 1 : ShowsNumber("x", v, Long(v))
                          /\ sys_write
       \/ format[2] \notin {"c", "s", "d", "x"} /\ UNCHANGED <<out, count, called>>

printf ==
    /\ pc = "printf"
    /\ \/ format # <<>> /\ (Plain \/ Convert) /\ UNCHANGED pc
       \/ format = <<>> /\ pc' = "printed" /\ UNCHANGED <<format, out, count, called>>
    /\ UNCHANGED <<arch, input, num, str, dropped>>

-----------------------------------------------------------------------------
(* getchar answers 0 when nothing is read.                                   *)
NextChar == IF input = <<>> THEN Nul ELSE Head(input)
getchar == /\ input' = IF input = <<>> THEN input ELSE Tail(input)
           /\ called' = called \cup {<<"READ", ReadNumber>>}

(* A size of 0 is refused.                                                   *)
Fgets(n) ==
    /\ pc \in {"idle", "returned"}
    /\ num' = n /\ str' = <<>>
    /\ pc' = IF n <= 0 THEN "idle" ELSE "fgets"
    /\ UNCHANGED <<arch, called, format, out, count, input, dropped>>

(* A character is stored and echoed; Nul and return end the line and are     *)
(* lost, a newline ends it and is stored.                                    *)
fgets ==
    /\ pc = "fgets"
    /\ \/ /\ Len(str) < num - 1
          /\ getchar
          /\ str' = IF NextChar \in {Nul, Return} THEN str ELSE Append(str, NextChar)
          /\ dropped' = IF NextChar \in {Nul, Return} /\ input # <<>>
                        THEN Append(dropped, NextChar) ELSE dropped
          /\ pc' = IF NextChar \in {Nul, Return, Newline} THEN "returned" ELSE pc
       \/ Len(str) >= num - 1 /\ pc' = "returned" /\ UNCHANGED <<called, input, str, dropped>>
    /\ UNCHANGED <<arch, format, out, count, num>>

StdioNext ==
    \/ \E f \in Formats : Printf(f)
    \/ printf
    \/ \E n \in Nums : Fgets(n)
    \/ fgets

StdioSpec == StdioInit /\ [][StdioNext]_stdioVars

-----------------------------------------------------------------------------
(* What the numeral says, and whether it is written as it should be.         *)
Reads(s, base) ==
    LET read[i \in 0 .. Len(s.digits)] ==
            IF i = 0 THEN 0 ELSE base * read[i - 1] + s.digits[i]
        n == read[Len(s.digits)]
    IN  IF s.minus THEN -n ELSE n
Proper(s, base) ==
    /\ \A i \in DOMAIN s.digits : s.digits[i] \in 0 .. base - 1
    /\ Len(s.digits) > 1 => Head(s.digits) # 0
Right(piece) ==
    LET base == IF piece.conv = "d" THEN 10 ELSE 16
    IN  Proper(piece.numeral, base) /\ Reads(piece.numeral, base) = piece.value

(* The numbers a long of the width of int has no room for.                   *)
Lost(piece) == arch = "i386" /\ IF piece.conv = "d" THEN piece.value = -IntMax - 1
                                ELSE piece.value > IntMax

(* printf and valiant_itoa: every int and every unsigned int is printed as   *)
(* the number it is, except on i386 the least int and, in hexadecimal, the   *)
(* upper half of the unsigned ones, which come out as characters that are    *)
(* not digits.  fgets: a line ends where it has to, within its size, so that *)
(* of "\r\n" the second character is a line of its own.  The system calls    *)
(* that carry the text have the kernel's numbers on x86_64 and there only.   *)
TextIsRight ==
    /\ \A i \in DOMAIN out : out[i].conv \in {"d", "x"} => (Right(out[i]) <=> ~Lost(out[i]))
    /\ Len(str) < num \/ str = <<>>
    /\ \A i \in DOMAIN str : /\ str[i] \notin {Return, Nul}
                             /\ str[i] = Newline => i = Len(str) /\ pc = "returned"
    /\ \A c \in called : c[2] = KernelNumber(c[1]) <=> arch = "x86_64"
=============================================================================
