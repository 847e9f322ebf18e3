----------------------------- MODULE MCScreen ------------------------------
(***************************************************************************)
(* Model checking of what a user of the x86 kernel sees and types: Boot,   *)
(* Console, Panic with its keyboard, PanicScreen and Raster.  What they    *)
(* tell each other is in the initial states of each, so a behaviour takes  *)
(* one of them, chosen at the start, and leaves the others alone; arch,    *)
(* ready and IF_flag are common.                                           *)
(***************************************************************************)
EXTENDS Panic

CONSTANTS Writer, Text, Color, White, Cols, Rows, U32, NoColor
CONSTANTS Sizes, Vector, FW, FH, Uint
CONSTANTS Coord, Radius, Screen
CONSTANTS Exception, Irq

VARIABLES ready, cursor_x, cursor_y, color, pc, text, old, wrapped, borrowed, crossed
VARIABLES size, arch, int_no, canvas
VARIABLES driver, figure, x, y, err, lit
VARIABLES next, fb_base, imr, idt, idtr, shown, cause, regs, fate
VARIABLE part

C == INSTANCE Console
P == INSTANCE PanicScreen WITH U32 <- Uint
R == INSTANCE Raster
B == INSTANCE Boot

ASSUME ScreenAssumption == C!GridAssumption
ASSUME MachineAssumption == B!VectorAssumption
ASSUME FontAssumption == P!CanvasAssumption
ASSUME FramebufferAssumption == R!RasterAssumption

consoleOwn == <<cursor_x, cursor_y, color, pc, text, old, wrapped, borrowed, crossed>>
canvasOwn  == <<size, arch, int_no, canvas>>
rasterOwn  == <<driver, figure, x, y, err, lit>>
bootOwn    == <<next, fb_base, imr, idt, idtr, shown, cause, regs, fate>>
screenVars == <<allVars, consoleOwn, canvasOwn, rasterOwn, bootOwn, ready, part>>

MCText   == {<<"c", "c">>, <<"\n">>, <<"BS">>}
MCSizes  == {<<1024, 768>>, <<640, 480>>, <<320, 200>>, <<311, 280>>, <<310, 280>>,
             <<311, 279>>, <<231, 300>>, <<800, 20>>}
MCCoord  == -1 .. 4
MCRadius == -1 .. 6
MCScreen == (0 .. 4) \X (0 .. 4)

ScreenInit ==
    /\ part \in {"console", "keyboard", "panic screen", "raster", "boot"}
    /\ PanicInit /\ C!Init /\ P!Init /\ R!Init /\ B!BootInit
    /\ part # "panic screen" => size = <<640, 480>> /\ arch = "i386" /\ int_no = 0
    /\ part # "raster" => driver = "fb"
    /\ part # "boot" => ~fb_base /\ imr = {}
    /\ part \notin {"keyboard", "boot"} => ~IF_flag
    /\ part # "keyboard" => ~fb_ready

KeyboardStep ==
    /\ part = "keyboard" /\ PanicNext
    /\ UNCHANGED <<consoleOwn, canvasOwn, rasterOwn, bootOwn, ready, part>>
ConsoleStep ==
    /\ part = "console" /\ C!Next
    /\ UNCHANGED <<allVars, canvasOwn, rasterOwn, bootOwn, part>>
CanvasStep ==
    /\ part = "panic screen" /\ P!Next
    /\ UNCHANGED <<allVars, consoleOwn, rasterOwn, bootOwn, ready, part>>
RasterStep ==
    /\ part = "raster" /\ R!Next
    /\ UNCHANGED <<allVars, consoleOwn, canvasOwn, bootOwn, ready, part>>
BootStep ==
    /\ part = "boot" /\ B!BootNext
    /\ UNCHANGED <<vars, port, panic, fb_ready, screen>>
    /\ UNCHANGED <<consoleOwn, canvasOwn, rasterOwn, part>>

ScreenNext == KeyboardStep \/ ConsoleStep \/ CanvasStep \/ RasterStep \/ BootStep

(* The fairness of Panic: see there.                                         *)
ScreenSpec ==
    /\ ScreenInit /\ [][ScreenNext]_screenVars
    /\ WF_allVars(part = "keyboard" /\ (Poll \/ GetKey \/ TestKey))
    /\ WF_allVars(part = "keyboard" /\ KernelReads)

(* kprint: see Console.                                                      *)
CursorInGrid == C!CursorInGrid

(* kprint_color: see Console.                                                *)
ColorsComeBack == C!ColorsComeBack

(* kernel_panic's drawing: see PanicScreen.                                  *)
ReportOnScreen == P!ReportOnScreen

(* fb_draw_line, fb64_draw_line: see Raster.                                 *)
LinesEnd == R!LinesEnd

(* fb_draw_circle, fb64_draw_circle: see Raster.                             *)
CirclesClose == R!CirclesClose

(* Both, for the calls of a behaviour: see Raster.                          *)
FiguresRight == LinesEnd /\ CirclesClose

(* kmain, isr_handler and kernel_panic: see Boot.                            *)
FaultIsNamed == B!FaultIsNamed

(* idt_flush: see Boot.                                                      *)
TableIsLoaded == B!TableIsLoaded
=============================================================================
