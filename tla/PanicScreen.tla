---------------------------- MODULE PanicScreen ----------------------------
(***************************************************************************)
(* What kernel_panic draws (src/arch/x86/vcorepanic.c): the main screen,   *)
(* and the diagnostic report that the key D puts in its place.  A screen   *)
(* is the sequence of the boxes drawn on it, in pixels: fills, which       *)
(* fb_fill_rect writes without looking at the size of the framebuffer, and *)
(* lines of text, which fb_but_pixel clips to it.  A text is its name and  *)
(* its number of characters, the longest one where it varies; colours are  *)
(* left out.  Panic models when the two are drawn.                         *)
(***************************************************************************)
EXTENDS Integers, Sequences

CONSTANTS
    Sizes,   \* the framebuffers, as <<width, height>>
    Vector,  \* the exceptions that reach kernel_panic
    FW, FH,  \* the size of a character cell
    U32      \* 2^32

VARIABLES
    size, arch, int_no,
    canvas   \* what has been drawn since the last fb_clear

(* The characters are those of the font in the kernel, and what is taken     *)
(* from a width or a height is less than the range of an unsigned int.       *)
CanvasAssumption ==
    /\ FW = 8 /\ FH = 16 /\ U32 \in Nat /\ U32 >= 1024
    /\ Sizes \subseteq (1 .. U32 - 1) \X (1 .. U32 - 1)

panicScreenVars == <<size, arch, int_no, canvas>>

Width  == size[1]
Height == size[2]
Minus(a, b) == (a - b) % U32

Fill(name, x, y, w, h) == [name |-> name, kind |-> "fill", x |-> x, y |-> y, w |-> w, h |-> h]
Caption(name, x, y, n) == [name |-> name, kind |-> "text", x |-> x, y |-> y, w |-> n * FW, h |-> FH]

(* font_draw_string_centered.                                                *)
Centered(name, y, n) ==
    Caption(name, IF Width > n * FW THEN (Width - n * FW) \div 2 ELSE 0, y, n)

fb_clear == Fill("background", 0, 0, Width, Height)
Bar(name, y) == Fill(name, 0, y, Width, FH + 12)

(* The longest texts of panic_detect and panic_describe, and the numbers     *)
(* that uint64_to_hex and uint32_to_hex write with their 0x.                 *)
CodeLength == 28
DescLength == 44
Hex64 == 18
Hex32 == 10

(* panic_draw_button: a frame of one pixel lies on the fill.                 *)
Frame(x, y, w, h) ==
    << Fill("top", x, y, w, 1), Fill("bottom", x, y + h - 1, w, 1) >>
    \o << Fill("left", x, y, 1, h), Fill("right", x + w - 1, y, 1, h) >>
Button(name, x, y, n) ==
    << Fill("button", x, y, n * FW + 24, FH + 12) >>
    \o Frame(x, y, n * FW + 24, FH + 12)
    \o << Caption(name, x + 12, y + 6, n) >>

(* Row i of the box: a label, 13 characters the longest, and a value.        *)
BoxRow(i, y, label, value, n) ==
    << Caption(label, Width \div 6 + 16, y + 8 + (FH + 4) * i, 13),
       Caption(value, Width \div 6 + 16 + FW * 13, y + 8 + (FH + 4) * i, n) >>

(* The first line after the bar, and the box.                                *)
Top == FH + 32
BoxTop == Top + 2 * FH + 32
BoxRows ==
    BoxRow(0, BoxTop, "Error_Code", "code", CodeLength)
    \o BoxRow(1, BoxTop, "Description", "description", DescLength)
    \o BoxRow(2, BoxTop, "Exception", "number", 13)
    \o BoxRow(3, BoxTop, "Architecture", "arch", 6)
    \o (IF int_no = 14 THEN BoxRow(4, BoxTop, "Fault_Addr", "cr2", Hex64) ELSE <<>>)

Foot(n) == << Bar("foot_bar", Minus(Height, FH + 12)),
              Centered("foot", Minus(Height, FH + 6), n) >>

MainScreen ==
    LET btn == BoxTop + FH * 6 + 24 + 20
        y5 == btn + FH + 12 + 20
    IN  << fb_clear, Bar("title_bar", 0) >>
        \o << Centered("title", 6, 25), Centered("detected", Top, 35) >>
        \o << Centered("halted", Top + FH + 8, 45),
              Fill("box", Width \div 6, BoxTop, ((Width * 2) % U32) \div 3, FH * 6 + 24) >>
        \o BoxRows
        \o Button("diagnostic", Minus(Width, FW * 26 + 24) \div 2, btn, 31)
        \o << Centered("issue", y5, 44), Centered("address", y5 + FH + 6, 45) >>
        \o Foot(49)

panic_draw_main ==
    /\ canvas = <<>>
    /\ canvas' = MainScreen
    /\ UNCHANGED <<size, arch, int_no>>

-----------------------------------------------------------------------------
Left == 40
Line == FH + 6

Labelled(y, label, n, column, value, m) ==
    << Caption(label, Left, y, n), Caption(value, Left + FW * column, y, m) >>

(* Two registers a row.  The last row holds three.                           *)
RegisterRow(y, r, s) ==
    Labelled(y, "label", 5, 8, r, Hex64) \o
    << Caption("label", Left + FW * 28, y, 5), Caption(s, Left + FW * 34, y, Hex64) >>

LastRegisters(y) ==
    Labelled(y, "EBX_label", 5, 8, "EBX", Hex64) \o
    << Caption("ECX_label", Left + FW * 20, y, 5), Caption("ECX", Left + FW * 26, y, Hex64) >>
    \o Labelled(y, "EDX_label", 6, 8, "EDX", Hex64)

(* Mutant of Registers: a row is drawn before the line feed.                 *)
RegistersClose(y) == RegisterRow(y, "RIP", "RSP") \o RegisterRow(y, "RBP", "RAX")
                     \o LastRegisters(y + 2 * Line)

Registers(y) == RegisterRow(y, "RIP", "RSP") \o RegisterRow(y + Line, "RBP", "RAX")
                \o LastRegisters(y + 2 * Line)

FaultReport(y) ==
    << Caption("FAULT_ADDRESS", Left, y, 15), Caption("cr2", Left, y + Line + 4, Hex64) >>
    \o Labelled(y + 2 * Line + 12, "Error_Code_raw", 18, 20, "err_code", Hex32)
    \o Foot(46)

Report ==
    LET y1 == FH + 24
        y2 == y1 + Line + 4
        y5 == y2 + 3 * Line + 8
        regs == y5 + Line + 4
        after == IF arch = "x86_64" THEN regs + 3 * Line + 8 ELSE regs
    IN  << fb_clear, Bar("title_bar", 0) >>
        \o << Centered("title", 6, 34), Caption("EXCEPTION", Left, y1, 12) >>
        \o Labelled(y2, "Exception", 10, 16, "number", 3)
        \o Labelled(y2 + Line, "Error_Code", 13, 16, "code", CodeLength)
        \o Labelled(y2 + 2 * Line, "Description", 13, 16, "description", DescLength)
        \o << Caption("REGISTER_DUMP", Left, y5, 17) >>
        \o (IF arch = "x86_64" THEN Registers(regs) ELSE <<>>)
        \o (IF int_no = 14 THEN FaultReport(after) ELSE <<>>)

panic_draw_detail ==
    /\ canvas # <<>>
    /\ canvas' = Report
    /\ UNCHANGED <<size, arch, int_no>>

Init ==
    /\ size \in Sizes /\ arch \in {"x86_64", "i386"} /\ int_no \in Vector
    /\ canvas = <<>>

Next == panic_draw_main \/ panic_draw_detail

Spec == Init /\ [][Next]_panicScreenVars

-----------------------------------------------------------------------------
Inside(b) == b.x + b.w <= Width /\ b.y + b.h <= Height
Meet(a, b) == /\ a.x < b.x + b.w /\ b.x < a.x + a.w
              /\ a.y < b.y + b.h /\ b.y < a.y + a.h

(* The texts that something drawn later lies on.                             *)
Hidden == {canvas[i].name : i \in
    {j \in DOMAIN canvas : /\ canvas[j].kind = "text"
                           /\ \E k \in DOMAIN canvas : k > j /\ Meet(canvas[j], canvas[k])}}

(* Everything is on the screen, and EDX alone is drawn over other texts.     *)
Legible == /\ \A i \in DOMAIN canvas : Inside(canvas[i])
           /\ Hidden \subseteq {"EBX_label", "EBX", "ECX_label"}

FillsFit(boxes) == \A i \in DOMAIN boxes : boxes[i].kind = "fill" => Inside(boxes[i])

(* kernel_panic, whose fills fb_fill_rect does not clip: they stay in the    *)
(* framebuffer if it is 36 characters and 23 pixels wide and 10 lines and    *)
(* 120 pixels high, and on a smaller one the main screen overwrites what     *)
(* lies behind it.  From 640 by 480 on every text is on the screen and       *)
(* nothing is drawn over, except that the report does not move down a line   *)
(* before EDX and draws it over EBX and the label of ECX.                    *)
ReportOnScreen ==
    /\ (Width >= 36 * FW + 23 /\ Height >= 10 * FH + 120) <=> FillsFit(MainScreen)
    /\ FillsFit(MainScreen) => FillsFit(canvas)
    /\ Width >= 640 /\ Height >= 480 => Legible
=============================================================================
