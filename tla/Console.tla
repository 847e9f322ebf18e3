------------------------------ MODULE Console -------------------------------
(***************************************************************************)
(* The text console of src/drivers/font.c on the framebuffer: kprint with  *)
(* its cursor, and kprint_color, which borrows the two colours.  Cursor    *)
(* and colours are plain static variables, and every component prints, so  *)
(* a writer can be preempted between any two statements and another's text *)
(* comes in between.  A statement is an action; drawing itself, which      *)
(* writes only pixels, is left out.                                        *)
(***************************************************************************)
EXTENDS Integers, Sequences

CONSTANTS
    Writer,  \* the contexts that print
    Text,    \* what they print: sequences of "c", "\n" and "BS", backspace
    Color,   \* the colour pairs callers ask kprint_color for
    White,   \* the initial fg_color and bg_color
    Cols, Rows, \* the grid: the framebuffer's size over the font's
    U32,        \* 2^32
    NoColor     \* not a colour pair

GridAssumption ==
    /\ Cols \in Nat \ {0} /\ Rows \in Nat \ {0} /\ U32 \in Nat \ {0}
    /\ NoColor \notin Color \cup {White}

VARIABLES
    ready,     \* which of fb_ready and font.ready are set
    cursor_x, cursor_y,
    color,     \* fg_color and bg_color
    pc,        \* where each writer is
    text,      \* what it has yet to print
    old,       \* old_fg and old_bg of its kprint_color, NoColor outside one
    wrapped,   \* a backspace moved the cursor left of column 0 (history)
    borrowed,  \* the writers inside kprint_color, the last to enter first,
               \* kept until one leaves before another on top of it (history)
    crossed    \* whether one did (history)

consoleVars == <<ready, cursor_x, cursor_y, color, pc, text, old,
                 wrapped, borrowed, crossed>>
history == <<wrapped, borrowed, crossed>>

Init ==
    /\ ready = {} /\ cursor_x = 0 /\ cursor_y = 0 /\ color = White
    /\ pc = [w \in Writer |-> "idle"]
    /\ text = [w \in Writer |-> <<>>]
    /\ old = [w \in Writer |-> NoColor]
    /\ wrapped = FALSE /\ borrowed = <<>> /\ crossed = FALSE

Go(w, from, to) == pc[w] = from /\ pc' = [pc EXCEPT ![w] = to]

(* fb_init and font_init, each refused without effect on a null address or   *)
(* a wrong magic number.                                                     *)
Initialise ==
    /\ \E part \in {"fb", "font"} : ready' = ready \cup {part}
    /\ UNCHANGED <<cursor_x, cursor_y, color, pc, text, old, history>>

Kprint(w) ==
    /\ Go(w, "idle", "char")
    /\ \E s \in Text : text' = [text EXCEPT ![w] = s]
    /\ UNCHANGED <<ready, cursor_x, cursor_y, color, old, history>>

(* kprint_color saves the colours and replaces them.                         *)
Borrow(w) ==
    /\ Go(w, "idle", "char")
    /\ \E s \in Text, c \in Color :
          /\ text' = [text EXCEPT ![w] = s]
          /\ old' = [old EXCEPT ![w] = color]
          /\ color' = c
    /\ borrowed' = IF crossed THEN <<>> ELSE <<w>> \o borrowed
    /\ UNCHANGED <<ready, cursor_x, cursor_y, wrapped, crossed>>

(* The end of the text, at once when the console is not ready: kprint        *)
(* returns, and kprint_color puts back what it saved.                        *)
Over(w) == pc[w] = "char" /\ (text[w] = <<>> \/ ready # {"fb", "font"})

InColor(w) == old[w] # NoColor

(* The stack of borrowers, when w leaves kprint or kprint_color.             *)
Leave(w) ==
    /\ crossed' = (crossed \/ (InColor(w) /\ Head(borrowed) # w))
    /\ borrowed' = IF crossed' THEN <<>> ELSE IF InColor(w) THEN Tail(borrowed) ELSE borrowed

(* Mutant of Return: the colours stay.                                       *)
ReturnColored(w) ==
    /\ Over(w) /\ Go(w, "char", "idle")
    /\ text' = [text EXCEPT ![w] = <<>>] /\ old' = [old EXCEPT ![w] = NoColor]
    /\ Leave(w)
    /\ UNCHANGED <<ready, cursor_x, cursor_y, color, wrapped>>

Return(w) ==
    /\ Over(w) /\ Go(w, "char", "idle")
    /\ text' = [text EXCEPT ![w] = <<>>] /\ old' = [old EXCEPT ![w] = NoColor]
    /\ color' = IF InColor(w) THEN old[w] ELSE color
    /\ Leave(w)
    /\ UNCHANGED <<ready, cursor_x, cursor_y, wrapped>>

-----------------------------------------------------------------------------
(* One character.  The tests and the assignments are steps of their own.     *)
Char(w) ==
    /\ pc[w] = "char" /\ ~Over(w)
    /\ LET c == Head(text[w])
       IN  \/ c = "\n" /\ Go(w, "char", "down") /\ cursor_x' = 0
           \/ c = "BS" /\ Go(w, "char", IF cursor_x > 0 THEN "left" ELSE "bottom")
                       /\ UNCHANGED cursor_x
           \/ c = "c"  /\ Go(w, "char", "right") /\ UNCHANGED cursor_x
    /\ text' = [text EXCEPT ![w] = Tail(@)]
    /\ UNCHANGED <<ready, cursor_y, color, old, history>>

Left(w) ==
    /\ Go(w, "left", "bottom")
    /\ cursor_x' = (cursor_x - 1) % U32
    /\ wrapped' = (wrapped \/ cursor_x = 0)
    /\ UNCHANGED <<ready, cursor_y, color, text, old, borrowed, crossed>>

Right(w) ==
    /\ Go(w, "right", "edge")
    /\ cursor_x' = (cursor_x + 1) % U32
    /\ UNCHANGED <<ready, cursor_y, color, text, old, history>>

(* Mutant of Edge: the last column is missed when somebody went past it.     *)
EdgeExact(w) ==
    /\ Go(w, "edge", IF cursor_x = Cols THEN "home" ELSE "bottom")
    /\ UNCHANGED <<ready, cursor_x, cursor_y, color, text, old, history>>

Edge(w) ==
    /\ Go(w, "edge", IF cursor_x >= Cols THEN "home" ELSE "bottom")
    /\ UNCHANGED <<ready, cursor_x, cursor_y, color, text, old, history>>

Home(w) ==
    /\ Go(w, "home", "down")
    /\ cursor_x' = 0
    /\ UNCHANGED <<ready, cursor_y, color, text, old, history>>

Down(w) ==
    /\ Go(w, "down", "bottom")
    /\ cursor_y' = (cursor_y + 1) % U32
    /\ UNCHANGED <<ready, cursor_x, color, text, old, history>>

Bottom(w) ==
    /\ Go(w, "bottom", IF cursor_y >= Rows THEN "clear" ELSE "char")
    /\ UNCHANGED <<ready, cursor_x, cursor_y, color, text, old, history>>

Clear(w) ==
    /\ Go(w, "clear", "char")
    /\ cursor_x' = 0 /\ cursor_y' = 0
    /\ UNCHANGED <<ready, color, text, old, history>>

Next ==
    \/ Initialise
    \/ \E w \in Writer :
          \/ Kprint(w) \/ Borrow(w) \/ Return(w) \/ Char(w) \/ Left(w) \/ Right(w)
          \/ Edge(w) \/ Home(w) \/ Down(w) \/ Bottom(w) \/ Clear(w)

Spec == Init /\ [][Next]_consoleVars

-----------------------------------------------------------------------------
Quiet == \A w \in Writer : pc[w] = "idle"

(* kprint: however the texts of several writers fall between each other, the *)
(* cursor they leave is in the grid, because each step out of it is followed *)
(* by a test that accepts any overshoot.  One exception: a backspace whose   *)
(* test another writer overtook leaves it left of column 0.                  *)
CursorInGrid == Quiet => cursor_y < Rows /\ (cursor_x < Cols \/ wrapped)

(* kprint_color: the colours come back if the writers that borrow them       *)
(* return in the order of a stack (handlers do, tasks need not).             *)
ColorsComeBack == Quiet /\ ~crossed => color = White
=============================================================================
