------------------------------- MODULE Raster -------------------------------
(***************************************************************************)
(* The lines and circles of the two framebuffer drivers,                   *)
(* src/drivers/framebuffer.c (fb_) and src/arch/aarch64/framebuffer64.c    *)
(* (fb64_), which were written as the same functions.  A loop is a state   *)
(* machine: its variables, and an action for one turn.  Colours, and the   *)
(* address a pixel has, are left out.                                      *)
(***************************************************************************)
EXTENDS Integers, FiniteSets

CONSTANTS
    Coord,    \* the coordinates callers pass for the ends of a line
    Radius,   \* and for the radius of a circle
    Screen    \* the pixels of the framebuffer, a set of <<x, y>>

VARIABLES
    driver,   \* "fb" or "fb64"
    figure,   \* the call in progress: a line, a circle, or NoFigure
    x, y, err,
    lit       \* the pixels it has set

(* The screen is a rectangle that begins at <<0, 0>>.                        *)
RasterAssumption ==
    /\ Coord \subseteq Int /\ Radius \subseteq Int /\ Screen \subseteq Nat \X Nat
    /\ \A p, q \in Screen : (0 .. p[1]) \X (0 .. q[2]) \subseteq Screen

rasterVars == <<driver, figure, x, y, err, lit>>

NoFigure == [kind |-> "none"]
Abs(a) == IF a < 0 THEN -a ELSE a
Larger(a, b) == IF a > b THEN a ELSE b
Sign(a, b) == IF a < b THEN 1 ELSE -1

Init ==
    /\ driver \in {"fb", "fb64"} /\ figure = NoFigure
    /\ x = 0 /\ y = 0 /\ err = 0 /\ lit = {}

(* fb_but_pixel, fb64_put_pixel: a negative coordinate is a huge one.        *)
put_pixel(points) == lit' = lit \cup (points \cap Screen)

-----------------------------------------------------------------------------
(* Mutant of Dy: the sign fb64_draw_line loses is lost in both.              *)
DyPlain(y0, y1) == Abs(y1 - y0)

(* fb_draw_line; fb64_draw_line takes y0 for x0 in dx, and the sign it puts  *)
(* before dy belongs to the condition, so that dy is not negated.            *)
Dx(x0, y0, x1) == IF driver = "fb64" /\ x1 > x0 THEN x1 - y0 ELSE Abs(x1 - x0)
Dy(y0, y1)     == IF driver = "fb64" THEN Abs(y1 - y0) ELSE -Abs(y1 - y0)

draw_line(x0, y0, x1, y1) ==
    /\ figure = NoFigure
    /\ figure' = [kind |-> "line", x0 |-> x0, y0 |-> y0, x1 |-> x1, y1 |-> y1,
                  dx |-> Dx(x0, y0, x1), dy |-> Dy(y0, y1),
                  sx |-> Sign(x0, x1), sy |-> Sign(y0, y1)]
    /\ x' = x0 /\ y' = y0 /\ err' = Dx(x0, y0, x1) + Dy(y0, y1)
    /\ UNCHANGED <<driver, lit>>

AtEnd == figure.kind = "line" /\ x = figure.x1 /\ y = figure.y1

(* x moves by sx only and y by sy: a coordinate that has passed its end does *)
(* not come back, and the loop goes on for ever.  The model stops it there.  *)
PastEnd == /\ figure.kind = "line"
           /\ (x - figure.x1) * figure.sx > 0 \/ (y - figure.y1) * figure.sy > 0

LineTurn ==
    /\ figure.kind = "line" /\ ~AtEnd /\ ~PastEnd
    /\ LET right == 2 * err >= figure.dy
           down  == 2 * err <= figure.dx
       IN  /\ x' = IF right THEN x + figure.sx ELSE x
           /\ y' = IF down THEN y + figure.sy ELSE y
           /\ err' = err + (IF right THEN figure.dy ELSE 0) + (IF down THEN figure.dx ELSE 0)
    /\ put_pixel({<<x, y>>})
    /\ UNCHANGED <<driver, figure>>

(* The last pixel, and the break.                                            *)
LineEnd ==
    /\ AtEnd
    /\ put_pixel({<<x, y>>})
    /\ figure' = [figure EXCEPT !.kind = "drawn_line"]
    /\ UNCHANGED <<driver, x, y, err>>

-----------------------------------------------------------------------------
(* fb_draw_circle, fb64_draw_circle, about the origin.                       *)
draw_circle(r) ==
    /\ figure = NoFigure
    /\ figure' = [kind |-> "circle", r |-> r]
    /\ x' = r /\ y' = 0 /\ err' = 0
    /\ UNCHANGED <<driver, lit>>

(* Mutant of Octants: the pixels above and below the middle are not set.     *)
Sides(a, b) == {a, -a} \X {b, -b}

Octants(a, b) == ({a, -a} \X {b, -b}) \cup ({b, -b} \X {a, -a})

(* The circle is kept whole: the screen cuts it as it cuts a line.           *)
CircleTurn ==
    /\ figure.kind = "circle" /\ x >= y
    /\ lit' = lit \cup Octants(x, y)
    /\ LET e    == err + 1 + 2 * (y + 1)
           back == 2 * (e - x) + 1 > 0
       IN  /\ x' = IF back THEN x - 1 ELSE x
           /\ err' = IF back THEN e + 1 - 2 * (x - 1) ELSE e
    /\ y' = y + 1
    /\ UNCHANGED <<driver, figure>>

CircleEnd ==
    /\ figure.kind = "circle" /\ x < y
    /\ figure' = [figure EXCEPT !.kind = "drawn_circle"]
    /\ UNCHANGED <<driver, x, y, err, lit>>

(* fb_fill_circle, fb64_fill_circle.                                         *)
Disc(r) == {p \in (-r .. r) \X (-r .. r) : p[1] * p[1] + p[2] * p[2] <= r * r}

Next ==
    \/ \E x0, y0, x1, y1 \in Coord : draw_line(x0, y0, x1, y1)
    \/ LineTurn \/ LineEnd
    \/ \E r \in Radius : draw_circle(r)
    \/ CircleTurn \/ CircleEnd

Spec == Init /\ [][Next]_rasterVars

-----------------------------------------------------------------------------
(* What a finished line should be: of the pixels on the screen those, one a  *)
(* step of the longer side, that are within half a pixel of the ideal line.  *)
OnIdeal(f, p) ==
    LET a == f.x1 - f.x0
        b == f.y1 - f.y0
    IN  2 * Abs((p[1] - f.x0) * b - (p[2] - f.y0) * a) <= Larger(Abs(a), Abs(b))
Ends(f) == {<<f.x0, f.y0>>, <<f.x1, f.y1>>}
IdealLine(f) ==
    /\ \A p \in lit : OnIdeal(f, p)
    /\ Ends(f) \cap Screen \subseteq lit
    /\ Ends(f) \subseteq Screen =>
          Cardinality(lit) = Larger(Abs(f.x1 - f.x0), Abs(f.y1 - f.y0)) + 1

(* The calls for which fb64_draw_line ends.                                  *)
Ends64(f) == f.y0 = f.y1 /\ (f.x1 <= f.x0 \/ f.x1 > f.y0)

(* fb_draw_line ends for every two points and has then drawn the line        *)
(* between them; fb64_draw_line, which computes other differences, ends only *)
(* for points of a row that Ends64 names and runs away for all others.       *)
LinesEnd ==
    /\ figure.kind = "drawn_line" =>
          IdealLine(figure) /\ (driver = "fb" \/ Ends64(figure))
    /\ PastEnd => driver = "fb64" /\ ~Ends64(figure)

(* A finished circle: each pixel within one of the disc that fill_circle     *)
(* sets for the radius, outside the disc two smaller, and between two others.*)
NextTo(p, q) == p # q /\ Abs(p[1] - q[1]) <= 1 /\ Abs(p[2] - q[2]) <= 1
Ring(r) ==
    /\ r < 0 => lit = {}
    /\ \A p \in lit :
          /\ p \in Disc(r) \/ \E q \in Disc(r) : NextTo(p, q)
          /\ p \notin Disc(r - 2)
          /\ r > 0 => \E q1, q2 \in lit : q1 # q2 /\ NextTo(p, q1) /\ NextTo(p, q2)

(* fb_draw_circle, fb64_draw_circle: a circle is closed, and on the rim of   *)
(* the filled one.                                                           *)
CirclesClose == figure.kind = "drawn_circle" => Ring(figure.r)
=============================================================================
