------------------------------ MODULE Keyboard ------------------------------
(***************************************************************************)
(* src/drivers/keyboard.c: the scancode decoder and the ring buffer that   *)
(* keyboard_handler (interrupt context) fills and keyboard_getchar drains. *)
(*                                                                         *)
(* The handler runs behind an interrupt gate, so it is one step; it may    *)
(* come between any two steps of a keyboard_getchar that runs with         *)
(* interrupts enabled.  The 128 scancodes are abstracted to one key per    *)
(* class the decoder tells apart; a character is a key and whether it is   *)
(* the shifted one of the key's two.                                       *)
(***************************************************************************)
EXTENDS Integers, Sequences

CONSTANTS
    Size,    \* KBD_BUFFER_SIZE, 256
    Letter,  \* keys with a lower- and an upper-case character
    Symbol,  \* keys with two characters that caps lock leaves alone
    Silent   \* keys whose map entry is 0 (F1, alt, ...)

ASSUME SizeAssumption == Size \in Nat \ {0, 1}

Shifts   == {"lshift", "rshift"}
Modifier == Shifts \cup {"ctrl", "caps"}
Key      == Letter \cup Symbol \cup Silent \cup Modifier

ASSUME KeyAssumption ==
    /\ Letter \cap Symbol = {} /\ Silent \cap (Letter \cup Symbol) = {}
    /\ Modifier \cap (Letter \cup Symbol \cup Silent) = {}
    /\ "NUL" \notin Key

Index  == 0..(Size - 1)
Char   == [key : Letter \cup Symbol, shifted : BOOLEAN]
NoChar == [key |-> "NUL", shifted |-> FALSE]

VARIABLES
    shift_pressed, ctrl_pressed, caps_lock,
    kbd_buffer, kbd_head, kbd_tail,
    reader,   \* where keyboard_getchar is: "idle", "read" or "advance"
    c,        \* its local variable c
    got       \* what its last call returned

modifierVars == <<shift_pressed, ctrl_pressed, caps_lock>>
readerVars   == <<reader, c, got>>
vars == <<modifierVars, kbd_buffer, kbd_head, kbd_tail, readerVars>>

Init ==
    /\ shift_pressed = FALSE /\ ctrl_pressed = FALSE /\ caps_lock = FALSE
    /\ kbd_buffer = [i \in Index |-> NoChar]
    /\ kbd_head = 0 /\ kbd_tail = 0
    /\ reader = "idle" /\ c = NoChar /\ got = NoChar

-----------------------------------------------------------------------------
(* Mutant of PushChar: a full buffer is not noticed.                         *)
PushOverwrites(ch) ==
    /\ kbd_buffer' = [kbd_buffer EXCEPT ![kbd_head] = ch]
    /\ kbd_head' = (kbd_head + 1) % Size

(* kbd_buffer_push: one slot stays free; on a full buffer the new character   *)
(* is lost.                                                                  *)
PushChar(ch) ==
    LET next == (kbd_head + 1) % Size
    IN  \/ next = kbd_tail /\ UNCHANGED <<kbd_buffer, kbd_head>>
        \/ /\ next # kbd_tail
           /\ kbd_buffer' = [kbd_buffer EXCEPT ![kbd_head] = ch]
           /\ kbd_head' = next

(* kbd_map_shift or kbd_map, then the case flip of caps lock.                *)
Decode(k) ==
    [key |-> k,
     shifted |-> IF caps_lock /\ k \in Letter THEN ~shift_pressed
                                              ELSE shift_pressed]

(* Mutant of TypeKey: caps lock ignored, as the maps alone would have it.    *)
TypeKeyNoCaps(k) ==
    /\ k \in Letter \cup Symbol
    /\ PushChar([key |-> k, shifted |-> shift_pressed])
    /\ UNCHANGED modifierVars

TypeKey(k) ==
    /\ k \in Letter \cup Symbol
    /\ PushChar(Decode(k))
    /\ UNCHANGED modifierVars

NoPush == UNCHANGED <<kbd_buffer, kbd_head>>

(* keyboard_handler, for the make (pressed) or break code of key k.          *)
keyboard_handler(k, pressed) ==
    /\ \/ /\ k \in Shifts
          /\ shift_pressed' = pressed
          /\ NoPush /\ UNCHANGED <<ctrl_pressed, caps_lock>>
       \/ /\ k = "ctrl"
          /\ ctrl_pressed' = pressed
          /\ NoPush /\ UNCHANGED <<shift_pressed, caps_lock>>
       \/ /\ k = "caps" /\ pressed
          /\ caps_lock' = ~caps_lock
          /\ NoPush /\ UNCHANGED <<shift_pressed, ctrl_pressed>>
       \/ pressed /\ TypeKey(k)
       \/ /\ k \in Silent \/ (~pressed /\ k \notin Shifts \cup {"ctrl"})
          /\ NoPush /\ UNCHANGED modifierVars
    /\ UNCHANGED <<kbd_tail, readerVars>>

-----------------------------------------------------------------------------
(* keyboard_getchar, step by step: the emptiness check, the read of the slot *)
(* and the advance of the tail.                                              *)
CheckEmpty ==
    /\ reader = "idle"
    /\ \/ kbd_head = kbd_tail /\ got' = NoChar /\ UNCHANGED reader
       \/ kbd_head # kbd_tail /\ reader' = "read" /\ UNCHANGED got
    /\ UNCHANGED <<modifierVars, kbd_buffer, kbd_head, kbd_tail, c>>

ReadSlot ==
    /\ reader = "read"
    /\ c' = kbd_buffer[kbd_tail]
    /\ reader' = "advance"
    /\ UNCHANGED <<modifierVars, kbd_buffer, kbd_head, kbd_tail, got>>

(* Mutant of Advance: the index is not taken modulo the size, but reset.     *)
AdvanceToZero ==
    /\ reader = "advance"
    /\ kbd_tail' = 0
    /\ got' = c
    /\ reader' = "idle" /\ c' = NoChar
    /\ UNCHANGED <<modifierVars, kbd_buffer, kbd_head>>

Advance ==
    /\ reader = "advance"
    /\ kbd_tail' = (kbd_tail + 1) % Size
    /\ got' = c
    /\ reader' = "idle" /\ c' = NoChar
    /\ UNCHANGED <<modifierVars, kbd_buffer, kbd_head>>

keyboard_getchar == CheckEmpty \/ ReadSlot \/ Advance

Next == keyboard_getchar \/ \E k \in Key, pressed \in BOOLEAN : keyboard_handler(k, pressed)

Spec == Init /\ [][Next]_vars

-----------------------------------------------------------------------------
TypeOK ==
    /\ shift_pressed \in BOOLEAN /\ ctrl_pressed \in BOOLEAN /\ caps_lock \in BOOLEAN
    /\ kbd_buffer \in [Index -> Char \cup {NoChar}]
    /\ kbd_head \in Index /\ kbd_tail \in Index
    /\ reader \in {"idle", "read", "advance"}
    /\ c \in Char \cup {NoChar} /\ got \in Char \cup {NoChar}

(* The buffer's contents, oldest first.                                      *)
Used  == (kbd_head - kbd_tail) % Size
Queue == [i \in 1..Used |-> kbd_buffer[(kbd_tail + i - 1) % Size]]

Fifo == INSTANCE KeyFifo WITH queue <- Queue, Capacity <- Size - 1

(* The ring, filled by interrupts in the middle of a read, is a bounded queue *)
(* that loses only what does not fit: "tampon dolu, karakter kaybolur"       *)
(* (buffer full, the character is lost).                                     *)
FifoSpec == Fifo!Spec

(* A character that enters the buffer carries the case of the moment it is   *)
(* typed: a letter is upper-case exactly when one of shift and caps lock is  *)
(* on, a symbol is shifted exactly with shift.                               *)
CaseAtTyping ==
    [][Len(Queue') > Len(Queue)
          => LET ch == Queue'[Len(Queue')]
             IN  ch.shifted = IF ch.key \in Letter THEN shift_pressed # caps_lock
                                                   ELSE shift_pressed]_vars
=============================================================================
