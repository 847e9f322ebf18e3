------------------------------ MODULE KeyFifo ------------------------------
(***************************************************************************)
(* What the keyboard driver promises the code that reads keys: a bounded   *)
(* first-in first-out queue of characters that drops a new character, and  *)
(* never an old one, when it is full.                                      *)
(***************************************************************************)
EXTENDS Integers, Sequences

CONSTANTS Char, Capacity, NoChar

VARIABLES
    queue,  \* the characters typed and not yet read
    got     \* what the last keyboard_getchar returned

Init == queue = <<>> /\ got = NoChar

Type(c) ==
    /\ Len(queue) < Capacity
    /\ queue' = Append(queue, c)
    /\ UNCHANGED got

(* A key that types nothing, or whose character is dropped by a full queue,  *)
(* is a stuttering step.  A read takes the oldest character.                 *)
Read ==
    /\ queue # <<>>
    /\ got'   = Head(queue)
    /\ queue' = Tail(queue)

ReadNothing == queue = <<>> /\ got' = NoChar /\ UNCHANGED queue

Next == (\E c \in Char : Type(c)) \/ Read \/ ReadNothing

Spec == Init /\ [][Next]_<<queue, got>>
=============================================================================
