---------------------------- MODULE ScreenProofs ----------------------------
(***************************************************************************)
(* The parts of MCScreen that a user sees and types at, for every number   *)
(* of writers, every size of the grid and of the keyboard's ring, every    *)
(* machine, all points and radii and every size of the framebuffer:        *)
(* Console, Keyboard, Panic, Boot, Raster and PanicScreen.                 *)
(***************************************************************************)
EXTENDS MCScreen, SequenceTheorems, FiniteSetTheorems, TLAPS

-----------------------------------------------------------------------------
(* Console: several writers, one cursor and one pair of colours.             *)
Labels == {"idle", "char", "left", "right", "edge", "home", "down", "bottom", "clear"}

ConsoleTypeOK ==
    /\ cursor_x \in Nat /\ cursor_y \in Nat
    /\ pc \in [Writer -> Labels]
    /\ color \in Color \cup {White}
    /\ old \in [Writer -> Color \cup {White, NoColor}]
    /\ borrowed \in Seq(Writer)

(* A cursor outside the grid is in the hands of a writer that will test it.  *)
GridInv ==
    /\ cursor_x >= Cols => wrapped \/ \E w \in Writer : pc[w] \in {"edge", "home"}
    /\ cursor_y >= Rows => \E w \in Writer : pc[w] \in {"bottom", "clear"}

(* Until a borrower leaves out of turn: the stack holds the borrowers, each  *)
(* once, and the one at its bottom has saved White.                          *)
StackInv ==
    /\ \A w \in Writer : C!InColor(w) => pc[w] # "idle"
    /\ ~crossed =>
          /\ \A w \in Writer : C!InColor(w) <=> \E i \in 1 .. Len(borrowed) : borrowed[i] = w
          /\ \A i, j \in 1 .. Len(borrowed) : borrowed[i] = borrowed[j] => i = j
          /\ IF Len(borrowed) = 0 THEN color = White
                                  ELSE old[borrowed[Len(borrowed)]] = White

ConsoleInv == ConsoleTypeOK /\ GridInv /\ StackInv

LEMMA ConsoleInvInit == C!Init => ConsoleInv
  BY ScreenAssumption, EmptySeq
     DEF C!GridAssumption, C!Init, C!InColor, ConsoleInv, ConsoleTypeOK, GridInv, StackInv,
         Labels

LEMMA LessOne ==
    ASSUME NEW n \in Nat
    PROVE  (n + 1) % U32 \in Nat /\ (n > 0 => (n - 1) % U32 \in Nat /\ (n - 1) % U32 <= n - 1)
           /\ (n - 1) % U32 \in Nat
  BY ScreenAssumption DEF C!GridAssumption

LEMMA ConsoleTypeStep ==
    ASSUME ConsoleTypeOK, StackInv, [C!Next]_(C!consoleVars) PROVE ConsoleTypeOK'
<1> USE DEF ConsoleTypeOK, C!Go, C!history
<1>0. CASE C!Initialise
  BY <1>0 DEF C!Initialise
<1>1. ASSUME NEW w \in Writer, C!Kprint(w) PROVE ConsoleTypeOK'
  BY <1>1 DEF C!Kprint, Labels
<1>2. ASSUME NEW w \in Writer, C!Borrow(w) PROVE ConsoleTypeOK'
  <2>1. borrowed' \in Seq(Writer)
    BY <1>2, EmptySeq DEF C!Borrow
  <2> QED
    BY <1>2, <2>1 DEF C!Borrow, Labels
<1>3. ASSUME NEW w \in Writer, C!Return(w) PROVE ConsoleTypeOK'
  <2>1. borrowed' \in Seq(Writer)
    <3>1. CASE crossed' \/ ~C!InColor(w)
      BY <1>3, <3>1, EmptySeq DEF C!Return, C!Leave
    <3>2. CASE ~crossed' /\ C!InColor(w)
      <4>1. borrowed # <<>>
        <5>1. \E i \in 1 .. Len(borrowed) : borrowed[i] = w
          BY <1>3, <3>2 DEF C!Return, C!Leave, StackInv
        <5>2. Len(<<>>) = 0
          BY EmptySeq
        <5> QED
          BY <5>1, <5>2
      <4> QED
        BY <1>3, <3>2, <4>1, HeadTailProperties DEF C!Return, C!Leave
    <3> QED
      BY <3>1, <3>2
  <2>2. color' \in Color \cup {White}
    BY <1>3 DEF C!Return, C!InColor
  <2> QED
    BY <1>3, <2>1, <2>2 DEF C!Return, Labels
<1>4. ASSUME NEW w \in Writer, C!Char(w) PROVE ConsoleTypeOK'
  <2>1. cursor_x' \in {0, cursor_x} /\ UNCHANGED <<cursor_y, color, old, borrowed>>
    BY <1>4 DEF C!Char
  <2>2. pc' \in [Writer -> Labels]
    BY <1>4 DEF C!Char, Labels
  <2> QED
    BY <2>1, <2>2
<1>5. ASSUME NEW w \in Writer, C!Left(w) PROVE ConsoleTypeOK'
  BY <1>5, LessOne DEF C!Left, Labels
<1>6. ASSUME NEW w \in Writer, C!Right(w) PROVE ConsoleTypeOK'
  BY <1>6, LessOne DEF C!Right, Labels
<1>7. ASSUME NEW w \in Writer, C!Edge(w) PROVE ConsoleTypeOK'
  BY <1>7 DEF C!Edge, Labels
<1>8. ASSUME NEW w \in Writer, C!Home(w) PROVE ConsoleTypeOK'
  BY <1>8 DEF C!Home, Labels
<1>9. ASSUME NEW w \in Writer, C!Down(w) PROVE ConsoleTypeOK'
  BY <1>9, LessOne DEF C!Down, Labels
<1>10. ASSUME NEW w \in Writer, C!Bottom(w) PROVE ConsoleTypeOK'
  BY <1>10 DEF C!Bottom, Labels
<1>11. ASSUME NEW w \in Writer, C!Clear(w) PROVE ConsoleTypeOK'
  BY <1>11 DEF C!Clear, Labels
<1>12. CASE UNCHANGED C!consoleVars
  BY <1>12 DEF C!consoleVars
<1> QED
  BY <1>0, <1>1, <1>2, <1>3, <1>4, <1>5, <1>6, <1>7, <1>8, <1>9, <1>10, <1>11, <1>12
     DEF C!Next

LEMMA GridStep ==
    ASSUME ConsoleTypeOK, GridInv, [C!Next]_(C!consoleVars) PROVE GridInv'
<1> USE ScreenAssumption DEF ConsoleTypeOK, GridInv, C!Go, C!history, C!GridAssumption
<1>0. CASE C!Initialise
  BY <1>0 DEF C!Initialise
<1>1. ASSUME NEW w \in Writer, C!Kprint(w) PROVE GridInv'
  BY <1>1 DEF C!Kprint
<1>2. ASSUME NEW w \in Writer, C!Borrow(w) PROVE GridInv'
  BY <1>2 DEF C!Borrow
<1>3. ASSUME NEW w \in Writer, C!Return(w) PROVE GridInv'
  BY <1>3 DEF C!Return
<1>4. ASSUME NEW w \in Writer, C!Char(w) PROVE GridInv'
  BY <1>4 DEF C!Char
<1>5. ASSUME NEW w \in Writer, C!Left(w) PROVE GridInv'
  <2>1. /\ pc[w] = "left" /\ pc' = [pc EXCEPT ![w] = "bottom"] /\ cursor_y' = cursor_y
        /\ cursor_x' = (cursor_x - 1) % U32
    BY <1>5 DEF C!Left
  <2>2. wrapped' <=> wrapped \/ cursor_x = 0
    BY <1>5 DEF C!Left
  <2>3. CASE cursor_x = 0
    BY <2>1, <2>2, <2>3
  <2>4. CASE cursor_x > 0
    BY <2>1, <2>2, <2>4, LessOne
  <2> QED
    BY <2>3, <2>4
<1>6. ASSUME NEW w \in Writer, C!Right(w) PROVE GridInv'
  BY <1>6 DEF C!Right
<1>7. ASSUME NEW w \in Writer, C!Edge(w) PROVE GridInv'
  BY <1>7 DEF C!Edge
<1>8. ASSUME NEW w \in Writer, C!Home(w) PROVE GridInv'
  BY <1>8 DEF C!Home
<1>9. ASSUME NEW w \in Writer, C!Down(w) PROVE GridInv'
  BY <1>9 DEF C!Down
<1>10. ASSUME NEW w \in Writer, C!Bottom(w) PROVE GridInv'
  BY <1>10 DEF C!Bottom
<1>11. ASSUME NEW w \in Writer, C!Clear(w) PROVE GridInv'
  BY <1>11 DEF C!Clear
<1>12. CASE UNCHANGED C!consoleVars
  BY <1>12 DEF C!consoleVars
<1> QED
  BY <1>0, <1>1, <1>2, <1>3, <1>4, <1>5, <1>6, <1>7, <1>8, <1>9, <1>10, <1>11, <1>12
     DEF C!Next

(* A writer that neither borrows nor returns.                                *)
LEMMA StackKept ==
    ASSUME StackInv, pc \in [Writer -> Labels], UNCHANGED <<color, old, borrowed, crossed>>,
           NEW w \in Writer, NEW l \in Labels \ {"idle"}, pc' = [pc EXCEPT ![w] = l]
    PROVE  StackInv'
  BY DEF StackInv, C!InColor

LEMMA StackStep ==
    ASSUME ConsoleTypeOK, StackInv, [C!Next]_(C!consoleVars) PROVE StackInv'
<1> USE DEF ConsoleTypeOK, C!Go, C!history
<1>0. CASE C!Initialise
  BY <1>0 DEF C!Initialise, StackInv, C!InColor
<1>1. ASSUME NEW w \in Writer, C!Kprint(w) PROVE StackInv'
  BY <1>1, StackKept DEF C!Kprint, Labels
<1>2. ASSUME NEW w \in Writer, C!Borrow(w) PROVE StackInv'
  <2>1. ~C!InColor(w) /\ pc' = [pc EXCEPT ![w] = "char"] /\ crossed' = crossed
    BY <1>2 DEF C!Borrow, StackInv
  <2>2. old' = [old EXCEPT ![w] = color] /\ color # NoColor
    BY <1>2, ScreenAssumption DEF C!Borrow, C!GridAssumption
  <2>3. \A u \in Writer : C!InColor(u)' <=> C!InColor(u) \/ u = w
    BY <2>1, <2>2 DEF C!InColor
  <2>4. \A u \in Writer : C!InColor(u)' => pc'[u] # "idle"
    BY <2>1, <2>3 DEF StackInv
  <2>5. ASSUME ~crossed
        PROVE  /\ \A u \in Writer :
                     C!InColor(u)' <=> \E i \in 1 .. Len(borrowed') : borrowed'[i] = u
               /\ \A i, j \in 1 .. Len(borrowed') : borrowed'[i] = borrowed'[j] => i = j
               /\ Len(borrowed') > 0 /\ old'[borrowed'[Len(borrowed')]] = White
    <3>1. /\ \A u \in Writer : C!InColor(u) <=> \E i \in 1 .. Len(borrowed) : borrowed[i] = u
          /\ \A i, j \in 1 .. Len(borrowed) : borrowed[i] = borrowed[j] => i = j
          /\ IF Len(borrowed) = 0 THEN color = White
                                  ELSE old[borrowed[Len(borrowed)]] = White
      BY <2>5 DEF StackInv
    <3>2. /\ Len(borrowed) \in Nat /\ Len(borrowed') = Len(borrowed) + 1
          /\ borrowed'[1] = w
          /\ \A i \in 1 .. Len(borrowed) : borrowed'[i + 1] = borrowed[i]
      <4> DEFINE one == <<w>>
      <4>1. one \in Seq(Writer) /\ Len(one) = 1 /\ one[1] = w
        OBVIOUS
      <4>2. borrowed' = one \o borrowed
        BY <1>2, <2>5 DEF C!Borrow
      <4> HIDE DEF one
      <4>3. borrowed \in Seq(Writer) /\ Len(borrowed) \in Nat
        BY LenProperties
      <4>4. /\ Len(borrowed') = 1 + Len(borrowed)
            /\ \A i \in 1 .. 1 + Len(borrowed) :
                  borrowed'[i] = IF i <= 1 THEN one[i] ELSE borrowed[i - 1]
        <5>1. /\ Len(one \o borrowed) = Len(one) + Len(borrowed)
              /\ \A i \in 1 .. Len(one) + Len(borrowed) :
                    (one \o borrowed)[i] = IF i <= Len(one) THEN one[i]
                                           ELSE borrowed[i - Len(one)]
          BY <4>1, <4>3, ConcatProperties
        <5> QED
          BY <4>1, <4>2, <5>1
      <4>5. \A i \in 1 .. Len(borrowed) : borrowed'[i + 1] = borrowed[i]
        <5> TAKE i \in 1 .. Len(borrowed)
        <5>1. i + 1 \in 1 .. 1 + Len(borrowed) /\ ~(i + 1 <= 1) /\ (i + 1) - 1 = i
          BY <4>3
        <5> QED
          BY <4>4, <5>1
      <4> QED
        BY <4>1, <4>3, <4>4, <4>5
    <3>3. \A i \in 1 .. Len(borrowed) : borrowed[i] \in Writer /\ borrowed[i] # w
      BY <2>1, <3>1, ElementOfSeq
    <3>4. \A k \in 1 .. Len(borrowed') : k = 1 \/ \E i \in 1 .. Len(borrowed) : k = i + 1
      <4> TAKE k \in 1 .. Len(borrowed')
      <4>1. k # 1 => k - 1 \in 1 .. Len(borrowed) /\ k = (k - 1) + 1
        BY <3>2
      <4> QED
        BY <4>1
    <3>5. ASSUME NEW u \in Writer
          PROVE  C!InColor(u)' <=> \E i \in 1 .. Len(borrowed') : borrowed'[i] = u
      <4>1. ASSUME NEW i \in 1 .. Len(borrowed'), borrowed'[i] = u
            PROVE  C!InColor(u)'
        BY <2>3, <3>1, <3>2, <3>4, <4>1
      <4>2. CASE u = w
        BY <2>3, <3>2, <4>2
      <4>3. ASSUME C!InColor(u), u # w PROVE \E i \in 1 .. Len(borrowed') : borrowed'[i] = u
        <5>1. PICK i \in 1 .. Len(borrowed) : borrowed[i] = u
          BY <3>1, <4>3
        <5>2. i + 1 \in 1 .. Len(borrowed') /\ borrowed'[i + 1] = u
          BY <3>2, <5>1
        <5> QED
          BY <5>2
      <4> QED
        BY <2>3, <4>1, <4>2, <4>3
    <3>6. \A i, j \in 1 .. Len(borrowed') : borrowed'[i] = borrowed'[j] => i = j
      <4>1. \A i \in 1 .. Len(borrowed') : borrowed'[i] = w <=> i = 1
        <5> TAKE i \in 1 .. Len(borrowed')
        <5>1. i # 1 => borrowed'[i] # w
          BY <3>2, <3>3, <3>4
        <5> QED
          BY <3>2, <5>1
      <4> TAKE i, j \in 1 .. Len(borrowed')
      <4>2. CASE i = 1 \/ j = 1
        BY <4>1, <4>2
      <4>3. CASE i # 1 /\ j # 1
        <5>1. PICK m \in 1 .. Len(borrowed) : i = m + 1
          BY <3>4, <4>3
        <5>2. PICK n \in 1 .. Len(borrowed) : j = n + 1
          BY <3>4, <4>3
        <5>3. borrowed'[i] = borrowed[m] /\ borrowed'[j] = borrowed[n]
          BY <3>2, <5>1, <5>2
        <5>4. borrowed[m] = borrowed[n] => m = n
          BY <3>1
        <5> QED
          BY <5>1, <5>2, <5>3, <5>4
      <4> QED
        BY <4>2, <4>3
    <3>7. old'[borrowed'[Len(borrowed')]] = White
      <4>1. CASE Len(borrowed) = 0
        BY <2>2, <3>1, <3>2, <4>1
      <4>2. CASE Len(borrowed) > 0
        <5>1. /\ Len(borrowed) \in 1 .. Len(borrowed)
              /\ borrowed'[Len(borrowed')] = borrowed[Len(borrowed)]
          BY <3>2, <4>2
        <5> QED
          BY <2>2, <3>1, <3>3, <4>2, <5>1
      <4> QED
        BY <3>2, <4>1, <4>2
    <3> QED
      BY <3>2, <3>5, <3>6, <3>7
  <2> QED
    BY <2>1, <2>4, <2>5 DEF StackInv
<1>3. ASSUME NEW w \in Writer, C!Return(w) PROVE StackInv'
  <2>1. /\ pc' = [pc EXCEPT ![w] = "idle"] /\ old' = [old EXCEPT ![w] = NoColor]
        /\ color' = IF C!InColor(w) THEN old[w] ELSE color
    BY <1>3 DEF C!Return
  <2>2. \A u \in Writer : C!InColor(u)' <=> C!InColor(u) /\ u # w
    BY <2>1 DEF C!InColor
  <2>3. \A u \in Writer : C!InColor(u)' => pc'[u] # "idle"
    BY <2>1, <2>2 DEF StackInv
  <2>4. CASE crossed'
    BY <2>3, <2>4 DEF StackInv
  <2>5. CASE ~crossed' /\ ~C!InColor(w)
    <3>1. borrowed' = borrowed /\ color' = color /\ old' = old /\ ~crossed
      BY <1>3, <2>1, <2>5 DEF C!Return, C!Leave, C!InColor
    <3>2. \A u \in Writer : C!InColor(u)' <=> C!InColor(u)
      BY <3>1 DEF C!InColor
    <3> QED
      BY <2>3, <3>1, <3>2 DEF StackInv
  <2>6. CASE ~crossed' /\ C!InColor(w)
    <3>1. ~crossed /\ Head(borrowed) = w /\ borrowed' = Tail(borrowed) /\ color' = old[w]
      BY <1>3, <2>1, <2>6 DEF C!Return, C!Leave
    <3>2. /\ \A u \in Writer : C!InColor(u) <=> \E i \in 1 .. Len(borrowed) : borrowed[i] = u
          /\ \A i, j \in 1 .. Len(borrowed) : borrowed[i] = borrowed[j] => i = j
          /\ Len(borrowed) # 0 => old[borrowed[Len(borrowed)]] = White
      BY <3>1 DEF StackInv
    <3>3. Len(borrowed) \in Nat \ {0} /\ borrowed # <<>>
      <4>1. \E i \in 1 .. Len(borrowed) : borrowed[i] = w
        BY <2>6, <3>2
      <4> QED
        BY <4>1, LenProperties, EmptySeq
    <3>4. /\ Len(borrowed') = Len(borrowed) - 1
          /\ \A i \in 1 .. Len(borrowed) - 1 : borrowed'[i] = borrowed[i + 1]
          /\ borrowed[1] = w
      BY <3>1, <3>3, HeadTailProperties
    <3>5. \A k \in 1 .. Len(borrowed) : k = 1 \/ \E i \in 1 .. Len(borrowed') : k = i + 1
      <4> TAKE k \in 1 .. Len(borrowed)
      <4>1. k # 1 => k - 1 \in 1 .. Len(borrowed') /\ k = (k - 1) + 1
        BY <3>3, <3>4
      <4> QED
        BY <4>1
    <3>6. \A i \in 1 .. Len(borrowed') : /\ i + 1 \in 1 .. Len(borrowed)
                                         /\ borrowed'[i] = borrowed[i + 1]
                                         /\ borrowed'[i] # w
      BY <3>2, <3>3, <3>4
    <3>7. ASSUME NEW u \in Writer
          PROVE  C!InColor(u)' <=> \E i \in 1 .. Len(borrowed') : borrowed'[i] = u
      <4>1. ASSUME NEW i \in 1 .. Len(borrowed'), borrowed'[i] = u PROVE C!InColor(u)'
        BY <2>2, <3>2, <3>6, <4>1
      <4>2. ASSUME C!InColor(u), u # w PROVE \E i \in 1 .. Len(borrowed') : borrowed'[i] = u
        <5>1. PICK k \in 1 .. Len(borrowed) : borrowed[k] = u
          BY <3>2, <4>2
        <5>2. PICK i \in 1 .. Len(borrowed') : k = i + 1
          BY <3>4, <3>5, <4>2, <5>1
        <5> QED
          BY <3>6, <5>1, <5>2
      <4> QED
        BY <2>2, <4>1, <4>2
    <3>8. \A i, j \in 1 .. Len(borrowed') : borrowed'[i] = borrowed'[j] => i = j
      BY <3>2, <3>3, <3>4, <3>6
    <3>9. CASE Len(borrowed) = 1
      BY <2>3, <3>1, <3>2, <3>4, <3>7, <3>8, <3>9 DEF StackInv
    <3>10. CASE Len(borrowed) > 1
      <4>1. /\ Len(borrowed') \in 1 .. Len(borrowed')
            /\ borrowed'[Len(borrowed')] = borrowed[Len(borrowed)]
        BY <3>3, <3>4, <3>10
      <4>2. borrowed[Len(borrowed)] \in Writer \ {w}
        BY <3>3, <3>6, <4>1, ElementOfSeq
      <4>3. old'[borrowed'[Len(borrowed')]] = White
        BY <2>1, <3>2, <3>3, <4>1, <4>2
      <4>4. IF Len(borrowed') = 0 THEN color' = White
                                  ELSE old'[borrowed'[Len(borrowed')]] = White
        BY <4>1, <4>3
      <4> QED
        BY <2>3, <3>7, <3>8, <4>4 DEF StackInv
    <3>11. Len(borrowed) = 1 \/ Len(borrowed) > 1
      <4>1. \A n \in Nat \ {0} : n = 1 \/ n > 1
        OBVIOUS
      <4> QED
        BY <3>3, <4>1
    <3> QED
      BY <3>9, <3>10, <3>11
  <2> QED
    BY <2>4, <2>5, <2>6
<1>4. ASSUME NEW w \in Writer, C!Char(w) PROVE StackInv'
  BY <1>4, StackKept DEF C!Char, Labels
<1>5. ASSUME NEW w \in Writer, C!Left(w) PROVE StackInv'
  BY <1>5, StackKept DEF C!Left, Labels
<1>6. ASSUME NEW w \in Writer, C!Right(w) PROVE StackInv'
  BY <1>6, StackKept DEF C!Right, Labels
<1>7. ASSUME NEW w \in Writer, C!Edge(w) PROVE StackInv'
  BY <1>7, StackKept DEF C!Edge, Labels
<1>8. ASSUME NEW w \in Writer, C!Home(w) PROVE StackInv'
  BY <1>8, StackKept DEF C!Home, Labels
<1>9. ASSUME NEW w \in Writer, C!Down(w) PROVE StackInv'
  BY <1>9, StackKept DEF C!Down, Labels
<1>10. ASSUME NEW w \in Writer, C!Bottom(w) PROVE StackInv'
  BY <1>10, StackKept DEF C!Bottom, Labels
<1>11. ASSUME NEW w \in Writer, C!Clear(w) PROVE StackInv'
  BY <1>11, StackKept DEF C!Clear, Labels
<1>12. CASE UNCHANGED C!consoleVars
  BY <1>12 DEF C!consoleVars, StackInv, C!InColor
<1> QED
  BY <1>0, <1>1, <1>2, <1>3, <1>4, <1>5, <1>6, <1>7, <1>8, <1>9, <1>10, <1>11, <1>12
     DEF C!Next

(* Of the composition, the console takes exactly its own steps.              *)
LEMMA ConsolePart == [ScreenNext]_screenVars => C!Next \/ UNCHANGED consoleOwn
  BY DEF ScreenNext, screenVars, KeyboardStep, ConsoleStep, CanvasStep, RasterStep, BootStep

LEMMA ConsoleInvKept == ConsoleInv /\ UNCHANGED consoleOwn => ConsoleInv'
  BY DEF ConsoleInv, ConsoleTypeOK, GridInv, StackInv, C!InColor, consoleOwn

(* ConsoleInv holds however the statements of the writers interleave.        *)
THEOREM ConsoleInvariant == ScreenSpec => []ConsoleInv
<1>1. ScreenInit => ConsoleInv
  BY ConsoleInvInit DEF ScreenInit
<1>2. ConsoleInv /\ [ScreenNext]_screenVars => ConsoleInv'
  BY ConsolePart, ConsoleInvKept, ConsoleTypeStep, GridStep, StackStep DEF ConsoleInv
<1> QED
  BY <1>1, <1>2, PTL DEF ScreenSpec

(* kprint: whatever the writers' texts and however they interleave, the      *)
(* cursor they leave is in the grid, or left of column 0 by a backspace      *)
(* whose test was overtaken.                                                 *)
THEOREM CursorCorrect == ScreenSpec => []CursorInGrid
<1>1. ConsoleInv => CursorInGrid
  BY ScreenAssumption DEF ConsoleInv, ConsoleTypeOK, GridInv, CursorInGrid, C!CursorInGrid,
     C!Quiet, C!GridAssumption
<1> QED
  BY <1>1, ConsoleInvariant, PTL

(* kprint_color: the colours come back when the borrowers return in the      *)
(* order of a stack.                                                         *)
THEOREM ColorCorrect == ScreenSpec => []ColorsComeBack
<1>1. ConsoleInv => ColorsComeBack
  <2> SUFFICES ASSUME ConsoleInv, C!Quiet, ~crossed PROVE color = White
    BY DEF ColorsComeBack, C!ColorsComeBack
  <2>1. \A w \in Writer : ~C!InColor(w)
    BY DEF ConsoleInv, StackInv, C!Quiet
  <2>2. Len(borrowed) \in Nat /\ \A i \in 1 .. Len(borrowed) : borrowed[i] \in Writer
    BY LenProperties, ElementOfSeq DEF ConsoleInv, ConsoleTypeOK
  <2>3. Len(borrowed) = 0
    BY <2>1, <2>2 DEF ConsoleInv, StackInv
  <2> QED
    BY <2>3 DEF ConsoleInv, StackInv
<1> QED
  BY <1>1, ConsoleInvariant, PTL

-----------------------------------------------------------------------------
(* Boot: what an exception or an interrupt meets, call by call of kmain.     *)
BootInv ==
    IF part = "boot"
    THEN /\ next \in 1 .. 19 /\ fb_base \in BOOLEAN
         /\ idtr \in {"firmware", "kernel", "stray"} /\ (idtr = "kernel" => idt = B!Gates)
         /\ "fb" \in ready <=> next = 19 /\ fb_base
         /\ fate \in {"runs", "reported", "silent", "lost"}
         /\ fate = "runs" => cause = B!None
         /\ FaultIsNamed
    ELSE fate = "runs" /\ shown = {} /\ cause = B!None

LEMMA LastCall ==
    /\ Len(B!Calls) = 18
    /\ \A i \in 1 .. 18 : B!Calls[i] = "fb_init" <=> i = 18
  BY DEF B!Calls

(* The stubs that push no error code are those of the vectors with a gate    *)
(* for which the CPU pushes one: rip is the third word of the frame.         *)
LEMMA FrameFits ==
    ASSUME NEW v \in B!Gates
    PROVE  LET stack == B!Stub(v) \o B!CpuPushes(v) IN stack[1] = v /\ stack[3] = "rip"
<1>1. CASE v \in {8} \cup (10 .. 14)
  <2>1. B!Stub(v) = <<v>> /\ B!CpuPushes(v) = <<"error", "rip">>
    BY <1>1 DEF B!Stub, B!CpuPushes, B!ErrCodeStubs
  <2> QED
    BY <2>1
<1>2. CASE v \notin {8} \cup (10 .. 14)
  <2>1. B!Stub(v) = <<v, 0>> /\ B!CpuPushes(v) = <<"rip">>
    BY <1>2 DEF B!Stub, B!CpuPushes, B!ErrCodeStubs, B!Gates
  <2> QED
    BY <2>1
<1> QED
  BY <1>1, <1>2

LEMMA BootInvInit == ScreenInit => BootInv
<1> SUFFICES ASSUME ScreenInit PROVE BootInv
  OBVIOUS
<1>1. /\ next = 1 /\ idtr = "firmware" /\ ready = {} /\ shown = {}
      /\ fb_base \in BOOLEAN /\ cause = B!None /\ fate = "runs"
  BY DEF ScreenInit, B!BootInit
<1>2. CASE part = "boot"
  <2>1. next \in 1 .. 19 /\ ("fb" \in ready <=> next = 19 /\ fb_base)
    BY <1>1
  <2>2. cause \notin 32 .. 47
    BY <1>1 DEF B!None
  <2>3. FaultIsNamed
    BY <1>1, <2>2 DEF FaultIsNamed, B!FaultIsNamed
  <2> QED
    BY <1>1, <1>2, <2>1, <2>3 DEF BootInv
<1>3. CASE part # "boot"
  BY <1>1, <1>3 DEF BootInv
<1> QED
  BY <1>2, <1>3

(* Vector v stops the kernel: an exception, or an unmasked interrupt that    *)
(* nobody serves.                                                            *)
LEMMA RaiseStep ==
    ASSUME BootInv, part = "boot", part' = part, NEW v \in 0 .. 47, B!Raise(v),
           v \in 32 .. 47 /\ idtr = "kernel" => v - 32 \in Irq \ (imr \cup {0, 1})
    PROVE  BootInv'
<1>1. /\ fate = "runs" /\ cause' = v
      /\ UNCHANGED <<next, fb_base, imr, idt, idtr, ready, shown>>
  BY DEF B!Raise
<1>2. /\ next \in 1 .. 19 /\ (idtr = "kernel" => idt = B!Gates)
      /\ ("fb" \in ready <=> next = 19 /\ fb_base) /\ shown \subseteq {"fb_init"}
  BY DEF BootInv, FaultIsNamed, B!FaultIsNamed
<1>3. CASE idtr = "kernel"
  <2> DEFINE g == IF v \in idt THEN v ELSE 13
  <2>1. g \in B!Gates /\ g = IF v \in B!Ungated THEN 13 ELSE v
    BY <1>2, <1>3 DEF B!Gates, B!Ungated
  <2>2. B!isr_handler(g)
    BY <1>3 DEF B!Raise
  <2> HIDE DEF g
  <2>3. /\ regs'.int_no = g /\ regs'.rip = "rip"
        /\ fate' = IF "fb" \in ready THEN "reported" ELSE "silent"
    BY <2>1, <2>2, FrameFits DEF B!isr_handler
  <2>4. B!Named'
    BY <1>1, <2>1, <2>3 DEF B!Named, B!Ungated
  <2>5. FaultIsNamed'
    <3>1. CASE "fb" \in ready
      BY <1>1, <1>2, <1>3, <2>3, <2>4, <3>1, LastCall DEF FaultIsNamed, B!FaultIsNamed
    <3>2. CASE "fb" \notin ready
      BY <1>1, <1>2, <1>3, <2>3, <2>4, <3>2, LastCall DEF FaultIsNamed, B!FaultIsNamed
    <3> QED
      BY <3>1, <3>2
  <2> QED
    BY <1>1, <1>3, <2>3, <2>5 DEF BootInv
<1>4. CASE idtr # "kernel"
  <2>1. idtr = "stray" /\ fate' = "lost"
    BY <1>4 DEF B!Raise
  <2> QED
    BY <1>1, <1>2, <2>1 DEF BootInv, FaultIsNamed, B!FaultIsNamed
<1> QED
  BY <1>3, <1>4

LEMMA BootCallStep ==
    ASSUME BootInv, part = "boot", part' = part, B!kmain
    PROVE  BootInv'
<1>1. /\ fate = "runs" /\ next <= 18 /\ next' = next + 1 /\ cause = B!None
      /\ UNCHANGED <<fb_base, IF_flag, imr, cause, regs, fate>>
  BY LastCall DEF B!kmain, BootInv
<1>2. /\ next \in 1 .. 18 /\ ("fb" \in ready <=> next = 19 /\ fb_base)
      /\ shown \subseteq {"fb_init"} /\ fb_base \in BOOLEAN
      /\ idtr \in {"firmware", "kernel", "stray"} /\ (idtr = "kernel" => idt = B!Gates)
  BY <1>1 DEF BootInv, FaultIsNamed, B!FaultIsNamed
<1> DEFINE call == B!Calls[next]
<1>3. call = "fb_init" <=> next = 18
  BY <1>2, LastCall
<1>4. /\ ready' = ready \cup (CASE call = "font_init" -> {"font"}
                                [] call = "fb_init" /\ fb_base -> {"fb"}
                                [] OTHER -> {})
      /\ shown' = IF call \notin B!Quiet /\ ready' = {"fb", "font"}
                  THEN shown \cup {call} ELSE shown
      /\ IF call = "init_idt" THEN idt' = B!Gates /\ \E word \in B!FrameTop : B!idt_flush(word)
                              ELSE UNCHANGED <<idt, idtr>>
  BY DEF B!kmain
<1> HIDE DEF call
<1>5. "fb" \in ready' <=> next' = 19 /\ fb_base'
  <2>1. CASE call = "font_init"
    BY <1>1, <1>2, <1>3, <1>4, <2>1
  <2>2. CASE call = "fb_init"
    BY <1>1, <1>2, <1>3, <1>4, <2>2
  <2>3. CASE call \notin {"font_init", "fb_init"}
    BY <1>1, <1>2, <1>3, <1>4, <2>3
  <2> QED
    BY <2>1, <2>2, <2>3
<1>6. shown' \subseteq {"fb_init"}
  BY <1>1, <1>2, <1>3, <1>4, <1>5
<1>7. idtr' \in {"firmware", "kernel", "stray"} /\ (idtr' = "kernel" => idt' = B!Gates)
  BY <1>2, <1>4 DEF B!idt_flush, B!FrameTop
<1> QED
  BY <1>1, <1>2, <1>5, <1>6, <1>7 DEF BootInv, FaultIsNamed, B!FaultIsNamed, B!None

LEMMA BootInvStep == ASSUME BootInv, [ScreenNext]_screenVars PROVE BootInv'
<1>1. CASE BootStep
  <2>1. part = "boot" /\ part' = part
    BY <1>1 DEF BootStep
  <2>2. CASE B!kmain
    BY <2>1, <2>2, BootCallStep
  <2>3. ASSUME NEW v \in Exception, B!Except(v) PROVE BootInv'
    <3>1. v \in 0 .. 47 /\ v \notin 32 .. 47
      BY MachineAssumption DEF B!VectorAssumption
    <3> QED
      BY <2>1, <2>3, <3>1, RaiseStep DEF B!Except
  <2>4. ASSUME NEW i \in Irq, B!TakeIrq(i) PROVE BootInv'
    <3>1. i \in 0 .. 15 /\ B!Raise(32 + i) /\ i \notin imr
      BY <2>4, MachineAssumption DEF B!VectorAssumption, B!TakeIrq
    <3>2. idtr = "kernel" => i \notin {0, 1}
      BY <2>1, <2>4 DEF B!TakeIrq, BootInv, B!Gates
    <3>3. 32 + i \in 0 .. 47 /\ (32 + i) - 32 = i
      BY <3>1
    <3> QED
      BY <2>1, <3>1, <3>2, <3>3, RaiseStep
  <2>5. CASE B!Mask
    BY <2>1, <2>5 DEF B!Mask, BootInv, FaultIsNamed, B!FaultIsNamed, B!Named, B!None
  <2> QED
    BY <1>1, <2>2, <2>3, <2>4, <2>5 DEF BootStep, B!BootNext
<1>2. CASE ConsoleStep \/ ~[BootStep \/ ConsoleStep]_screenVars
  <2>1. part' = part /\ UNCHANGED bootOwn /\ (part # "boot" \/ UNCHANGED ready)
    BY <1>2 DEF ConsoleStep, ScreenNext, KeyboardStep, CanvasStep, RasterStep
  <2> QED
    BY <2>1 DEF BootInv, bootOwn, FaultIsNamed, B!FaultIsNamed, B!Named
<1>3. CASE UNCHANGED screenVars
  BY <1>3 DEF screenVars, bootOwn, BootInv, FaultIsNamed, B!FaultIsNamed, B!Named
<1> QED
  BY <1>1, <1>2, <1>3

(* BootInv holds at every point of kmain, whenever a fault or a line comes.  *)
THEOREM BootInvariant == ScreenSpec => []BootInv
  BY BootInvInit, BootInvStep, PTL DEF ScreenSpec

(* kmain, isr_handler and kernel_panic, for every machine: given the         *)
(* kernel's table, what stops the kernel is named on the screen exactly when *)
(* all of kmain is done and there is a framebuffer.                          *)
THEOREM FaultCorrect == ScreenSpec => []FaultIsNamed
<1>1. BootInv => FaultIsNamed
  BY DEF BootInv, FaultIsNamed, B!FaultIsNamed, B!None
<1> QED
  BY <1>1, BootInvariant, PTL

-----------------------------------------------------------------------------
(* Keyboard and Panic: the ring as a sequence.                               *)
Length == IF kbd_tail <= kbd_head THEN kbd_head - kbd_tail
                                  ELSE kbd_head - kbd_tail + Size
Slot(i) == IF kbd_tail + i - 1 < Size THEN kbd_tail + i - 1 ELSE kbd_tail + i - 1 - Size

LEMMA ModSmall == ASSUME NEW i \in Index PROVE i % Size = i
  BY SizeAssumption DEF Index

LEMMA ModUp == ASSUME NEW i \in Index PROVE (i + Size) % Size = i
  BY SizeAssumption DEF Index

LEMMA ModDown == ASSUME NEW i \in Int, - Size <= i, i < 0 PROVE i % Size = i + Size
  BY SizeAssumption

RingOK == /\ kbd_head \in Index /\ kbd_tail \in Index
          /\ kbd_buffer \in [Index -> Char \cup {NoChar}]

LEMMA NextIndex ==
    ASSUME NEW i \in Index
    PROVE  /\ (i + 1) % Size = IF i + 1 = Size THEN 0 ELSE i + 1
           /\ (i + 1) % Size \in Index
<1>1. CASE i + 1 = Size
  BY <1>1, SizeAssumption, ModUp, 0 \in Index DEF Index
<1>2. CASE i + 1 # Size
  <2>1. i + 1 \in Index
    BY <1>2, SizeAssumption DEF Index
  <2> QED
    BY <1>2, <2>1, ModSmall
<1> QED
  BY <1>1, <1>2

(* The arithmetic modulo the size, without it.                               *)
LEMMA RingShape ==
    ASSUME RingOK
    PROVE  /\ Used = Length /\ Length \in 0 .. Size - 1
           /\ \A i \in 1 .. Length : /\ (kbd_tail + i - 1) % Size = Slot(i)
                                     /\ Slot(i) \in Index
<1>1. Used = Length /\ Length \in 0 .. Size - 1
  <2>1. kbd_head \in 0 .. Size - 1 /\ kbd_tail \in 0 .. Size - 1 /\ Size \in Nat
    BY SizeAssumption DEF RingOK, Index
  <2>2. CASE kbd_tail <= kbd_head
    <3>1. kbd_head - kbd_tail \in Index
      BY <2>1, <2>2 DEF Index
    <3> QED
      BY <2>2, <3>1, ModSmall DEF Used, Length, Index
  <2>3. CASE ~(kbd_tail <= kbd_head)
    <3>1. /\ kbd_head - kbd_tail \in Int /\ - Size <= kbd_head - kbd_tail
          /\ kbd_head - kbd_tail < 0 /\ kbd_head - kbd_tail + Size \in 0 .. Size - 1
      BY <2>1, <2>3
    <3> QED
      BY <2>3, <3>1, ModDown DEF Used, Length
  <2> QED
    BY <2>2, <2>3
<1>2. ASSUME NEW i \in 1 .. Length
      PROVE  (kbd_tail + i - 1) % Size = Slot(i) /\ Slot(i) \in Index
  <2>1. i \in 1 .. Size - 1 /\ kbd_tail \in 0 .. Size - 1 /\ Size \in Nat
    BY <1>1, <1>2, SizeAssumption DEF RingOK, Index
  <2>2. CASE kbd_tail + i - 1 < Size
    <3>1. kbd_tail + i - 1 \in Index
      BY <2>1, <2>2 DEF Index
    <3> QED
      BY <2>2, <3>1, ModSmall DEF Slot
  <2>3. CASE ~(kbd_tail + i - 1 < Size)
    <3>1. /\ kbd_tail + i - 1 - Size \in Index
          /\ (kbd_tail + i - 1 - Size) + Size = kbd_tail + i - 1
      BY <2>1, <2>3 DEF Index
    <3> QED
      BY <2>3, <3>1, ModUp DEF Slot
  <2> QED
    BY <2>2, <2>3
<1> QED
  BY <1>1, <1>2

QueueShape ==
    /\ Length \in 0 .. Size - 1 /\ Len(Queue) = Length
    /\ Queue \in Seq(Char \cup {NoChar})
    /\ \A i \in 1 .. Length : Queue[i] = kbd_buffer[Slot(i)]

LEMMA RingQueue == RingOK => QueueShape
<1> SUFFICES ASSUME RingOK PROVE QueueShape
  OBVIOUS
<1>1. Queue = [i \in 1 .. Length |-> kbd_buffer[Slot(i)]]
  BY RingShape DEF Queue
<1>2. \A i \in 1 .. Length : kbd_buffer[Slot(i)] \in Char \cup {NoChar}
  BY RingShape DEF RingOK
<1>3. Length \in 0 .. Size - 1 /\ Length \in Nat
  BY RingShape
<1> QED
  BY <1>1, <1>2, <1>3 DEF QueueShape

LEMMA RingQueueNext == RingOK' => QueueShape'
  BY RingQueue, PTL

(* A character goes to the end of the queue, or is dropped.                  *)
LEMMA PushStep ==
    ASSUME RingOK, NEW ch \in Char \cup {NoChar}, PushChar(ch), kbd_tail' = kbd_tail
    PROVE  /\ RingOK' /\ (kbd_head # kbd_tail => kbd_head' # kbd_tail')
           /\ kbd_head # kbd_tail => kbd_buffer'[kbd_tail'] = kbd_buffer[kbd_tail]
           /\ \/ Queue' = Queue
              \/ Len(Queue) < Size - 1 /\ Queue' = Append(Queue, ch)
<1>1. CASE UNCHANGED <<kbd_buffer, kbd_head>>
  BY <1>1 DEF RingOK, Queue, Used
<1>2. CASE ~UNCHANGED <<kbd_buffer, kbd_head>>
  <2>1. /\ kbd_head' = IF kbd_head + 1 = Size THEN 0 ELSE kbd_head + 1
        /\ kbd_head' # kbd_tail /\ kbd_head' \in Index
        /\ kbd_buffer' = [kbd_buffer EXCEPT ![kbd_head] = ch]
    BY <1>2, NextIndex DEF PushChar, RingOK
  <2>2. /\ RingOK'
        /\ kbd_head # kbd_tail => kbd_buffer'[kbd_tail'] = kbd_buffer[kbd_tail]
    BY <2>1 DEF RingOK
  <2>3. /\ Length' = Length + 1 /\ Length + 1 <= Size - 1 /\ Length \in Nat
        /\ Slot(Length + 1) = kbd_head
        /\ \A i \in 1 .. Length : Slot(i) # kbd_head
    BY <2>1, SizeAssumption DEF Length, Slot, RingOK, Index
  <2>4. /\ Len(Queue) = Length /\ Queue \in Seq(Char \cup {NoChar})
        /\ \A i \in 1 .. Length : Queue[i] = kbd_buffer[Slot(i)]
        /\ \A i \in 1 .. Length : Slot(i) \in Index
    BY RingQueue, RingShape DEF QueueShape
  <2>5. \A i : Slot(i)' = Slot(i)
    BY DEF Slot
  <2>6. /\ Len(Queue') = Length + 1 /\ Queue' \in Seq(Char \cup {NoChar})
        /\ \A i \in 1 .. Length + 1 : Queue'[i] = kbd_buffer'[Slot(i)]
    BY <2>2, <2>3, <2>5, RingQueueNext DEF QueueShape
  <2>7. \A i \in 1 .. Length : Queue'[i] = Queue[i]
    BY <2>1, <2>3, <2>4, <2>6 DEF RingOK
  <2>8. Queue'[Length + 1] = ch
    BY <2>1, <2>3, <2>6 DEF RingOK
  <2> DEFINE q == Queue  r == Queue'  n == Length
  <2>9. /\ q \in Seq(Char \cup {NoChar}) /\ r \in Seq(Char \cup {NoChar}) /\ n \in Nat
        /\ Len(q) = n /\ Len(r) = n + 1
        /\ \A i \in 1 .. n : r[i] = q[i]
        /\ r[n + 1] = ch
    BY <2>3, <2>4, <2>6, <2>7, <2>8
  <2> HIDE DEF q, r, n
  <2>10. r = Append(q, ch)
    <3>1. /\ Append(q, ch) \in Seq(Char \cup {NoChar}) /\ Len(Append(q, ch)) = Len(r)
          /\ \A i \in 1 .. Len(r) : r[i] = Append(q, ch)[i]
      BY <2>9
    <3> QED
      BY <2>9, <3>1, SeqEqual
  <2>11. Queue' = Append(Queue, ch)
    BY <2>10 DEF q, r
  <2>12. Len(Queue) < Size - 1
    BY <2>3, <2>4, SizeAssumption
  <2>13. kbd_head' # kbd_tail'
    BY <2>1
  <2> QED
    BY <2>2, <2>11, <2>12, <2>13
<1> QED
  BY <1>1, <1>2

(* A read takes the oldest character.                                        *)
LEMMA PopStep ==
    ASSUME RingOK, kbd_head # kbd_tail, kbd_tail' = (kbd_tail + 1) % Size,
           UNCHANGED <<kbd_buffer, kbd_head>>
    PROVE  /\ RingOK' /\ Queue # <<>> /\ Head(Queue) = kbd_buffer[kbd_tail]
           /\ Queue' = Tail(Queue)
<1>1. /\ kbd_tail' = IF kbd_tail + 1 = Size THEN 0 ELSE kbd_tail + 1
      /\ kbd_tail' \in Index
  BY NextIndex DEF RingOK
<1>2. RingOK'
  BY <1>1 DEF RingOK
<1>3. /\ Length' = Length - 1 /\ Length \in Nat \ {0} /\ Slot(1) = kbd_tail
      /\ \A i \in 1 .. Length - 1 : Slot(i)' = Slot(i + 1)
  BY <1>1, SizeAssumption DEF Length, Slot, RingOK, Index
<1>4. /\ Len(Queue) = Length /\ Queue \in Seq(Char \cup {NoChar})
      /\ \A i \in 1 .. Length : Queue[i] = kbd_buffer[Slot(i)]
  BY RingQueue DEF QueueShape
<1>5. /\ Len(Queue') = Length - 1 /\ Queue' \in Seq(Char \cup {NoChar})
      /\ \A i \in 1 .. Length - 1 : Queue'[i] = kbd_buffer[Slot(i + 1)]
  BY <1>2, <1>3, RingQueueNext DEF QueueShape
<1> DEFINE q == Queue  r == Queue'  n == Length
<1>6. /\ q \in Seq(Char \cup {NoChar}) /\ r \in Seq(Char \cup {NoChar}) /\ n \in Nat \ {0}
      /\ Len(q) = n /\ Len(r) = n - 1 /\ q[1] = kbd_buffer[kbd_tail]
      /\ \A i \in 1 .. n - 1 : r[i] = q[i + 1]
  BY <1>3, <1>4, <1>5
<1> HIDE DEF q, r, n
<1>7. q # <<>> /\ Head(q) = kbd_buffer[kbd_tail]
  BY <1>6
<1>8. r = Tail(q)
  <2>1. /\ Tail(q) \in Seq(Char \cup {NoChar}) /\ Len(Tail(q)) = Len(r)
        /\ \A i \in 1 .. Len(r) : r[i] = Tail(q)[i]
    BY <1>6, <1>7
  <2> QED
    BY <1>6, <2>1, SeqEqual
<1> QED
  BY <1>2, <1>7, <1>8 DEF q, r

RingInv ==
    /\ TypeOK /\ port \in [key : Key, pressed : BOOLEAN] \cup {NoCode}
    /\ reader \in {"read", "advance"} => kbd_head # kbd_tail
    /\ reader = "advance" => c = kbd_buffer[kbd_tail]
    /\ screen # "none" => panic # Nowhere
    /\ panic # Nowhere => ~IF_flag

LEMMA RingInvInit == ScreenInit => RingInv
<1> SUFFICES ASSUME ScreenInit PROVE RingInv
  OBVIOUS
<1>1. Init /\ port = NoCode /\ panic = Nowhere /\ screen = "none"
  BY DEF ScreenInit, PanicInit
<1>2. 0 \in Index
  BY SizeAssumption DEF Index
<1> QED
  BY <1>1, <1>2 DEF Init, RingInv, TypeOK

(* What a scancode can do to the ring.                                       *)
LEMMA HandlerStep ==
    ASSUME RingInv, NEW k \in Key, NEW pressed \in BOOLEAN, keyboard_handler(k, pressed)
    PROVE  /\ TypeOK' /\ (reader' \in {"read", "advance"} => kbd_head' # kbd_tail')
           /\ reader' = "advance" => c' = kbd_buffer'[kbd_tail']
           /\ got' = got
           /\ \/ Queue' = Queue
              \/ /\ Len(Queue) < Size - 1 /\ k \in Letter \cup Symbol
                 /\ Queue' = Append(Queue, Decode(k))
<1>1. RingOK /\ TypeOK /\ UNCHANGED <<kbd_tail, reader, c, got>>
  BY DEF RingInv, TypeOK, RingOK, keyboard_handler, readerVars
<1>2. CASE NoPush
  <2>1. shift_pressed' \in BOOLEAN /\ ctrl_pressed' \in BOOLEAN /\ caps_lock' \in BOOLEAN
    BY <1>1 DEF keyboard_handler, TypeKey, modifierVars, TypeOK
  <2>2. UNCHANGED <<kbd_buffer, kbd_head>>
    BY <1>2 DEF NoPush
  <2> QED
    BY <1>1, <2>1, <2>2 DEF RingInv, TypeOK, Queue, Used
<1>3. CASE TypeKey(k)
  <2>1. /\ Decode(k) \in Char /\ k \in Letter \cup Symbol /\ PushChar(Decode(k))
        /\ UNCHANGED <<shift_pressed, ctrl_pressed, caps_lock>>
    BY <1>1, <1>3 DEF TypeKey, Decode, Char, TypeOK, modifierVars
  <2>2. /\ RingOK' /\ (kbd_head # kbd_tail => kbd_head' # kbd_tail')
        /\ kbd_head # kbd_tail => kbd_buffer'[kbd_tail'] = kbd_buffer[kbd_tail]
        /\ \/ Queue' = Queue
           \/ Len(Queue) < Size - 1 /\ Queue' = Append(Queue, Decode(k))
    BY <1>1, <2>1, PushStep
  <2> QED
    BY <1>1, <2>1, <2>2 DEF RingInv, TypeOK, RingOK
<1> QED
  BY <1>2, <1>3 DEF keyboard_handler

(* What a step of keyboard_getchar can do to it.                             *)
LEMMA GetcharStep ==
    ASSUME RingInv, keyboard_getchar
    PROVE  /\ TypeOK' /\ (reader' \in {"read", "advance"} => kbd_head' # kbd_tail')
           /\ reader' = "advance" => c' = kbd_buffer'[kbd_tail']
           /\ \/ Queue' = Queue /\ got' = got
              \/ Queue' = Queue /\ Queue = <<>> /\ got' = NoChar
              \/ Queue # <<>> /\ got' = Head(Queue) /\ Queue' = Tail(Queue)
<1>1. RingOK /\ TypeOK
  BY DEF RingInv, TypeOK, RingOK
<1>2. CASE CheckEmpty
  <2>1. UNCHANGED <<modifierVars, kbd_buffer, kbd_head, kbd_tail, c>>
    BY <1>2 DEF CheckEmpty
  <2>2. Queue' = Queue
    BY <2>1 DEF Queue, Used
  <2>3. CASE kbd_head = kbd_tail
    <3>1. Length = 0 /\ Len(Queue) = 0 /\ Queue \in Seq(Char \cup {NoChar})
      BY <1>1, <2>3, RingQueue DEF Length, QueueShape, RingOK, Index
    <3>2. Queue = <<>>
      BY <3>1
    <3> QED
      BY <1>1, <1>2, <2>1, <2>2, <2>3, <3>2 DEF CheckEmpty, modifierVars, TypeOK
  <2>4. CASE kbd_head # kbd_tail
    BY <1>1, <1>2, <2>1, <2>2, <2>4 DEF CheckEmpty, modifierVars, TypeOK
  <2> QED
    BY <2>3, <2>4
<1>3. CASE ReadSlot
  <2>1. UNCHANGED <<modifierVars, kbd_buffer, kbd_head, kbd_tail, got>>
    BY <1>3 DEF ReadSlot
  <2>2. Queue' = Queue
    BY <2>1 DEF Queue, Used
  <2>3. c' \in Char \cup {NoChar}
    BY <1>1, <1>3 DEF ReadSlot, RingOK
  <2> QED
    BY <1>1, <1>3, <2>1, <2>2, <2>3 DEF ReadSlot, modifierVars, TypeOK, RingInv
<1>4. CASE Advance
  <2>1. kbd_head # kbd_tail /\ c = kbd_buffer[kbd_tail]
    BY <1>4 DEF Advance, RingInv
  <2>2. RingOK' /\ Queue # <<>> /\ Head(Queue) = c /\ Queue' = Tail(Queue)
    BY <1>1, <1>4, <2>1, PopStep DEF Advance
  <2> QED
    BY <1>1, <1>4, <2>2 DEF Advance, modifierVars, TypeOK, RingOK
<1> QED
  BY <1>2, <1>3, <1>4 DEF keyboard_getchar

(* What kernel_panic abandons.                                               *)
LEMMA NewCallStep ==
    ASSUME RingInv, NewCall
    PROVE  TypeOK' /\ reader' = "idle" /\ Queue' = Queue /\ got' = got
  BY DEF NewCall, modifierVars, RingInv, TypeOK, Queue, Used

-----------------------------------------------------------------------------
(* Everything a step can do to the queue and to what its reader got.  Only   *)
(* an interrupt types.                                                       *)
QueueEffect ==
    \/ Queue' = Queue /\ got' = got
    \/ Queue' = Queue /\ Queue = <<>> /\ got' = NoChar
    \/ Queue # <<>> /\ got' = Head(Queue) /\ Queue' = Tail(Queue)
    \/ /\ IF_flag /\ got' = got /\ Len(Queue) < Size - 1
       /\ \E k \in Letter \cup Symbol : Queue' = Append(Queue, Decode(k))

LEMMA RingStep ==
    ASSUME RingInv, [ScreenNext]_screenVars
    PROVE  RingInv' /\ QueueEffect /\ (panic = "hlt" => panic' = "hlt")
<1>1. CASE KeyboardStep
  <2>1. CASE EnterPanic
    <3>1. NewCall /\ UNCHANGED port /\ ~IF_flag' /\ panic' # Nowhere /\ panic = Nowhere
      BY <2>1 DEF EnterPanic, Nowhere
    <3> QED
      BY <3>1, NewCallStep DEF RingInv, QueueEffect, Nowhere
  <2>2. CASE Poll
    BY <2>2 DEF Poll, RingInv, QueueEffect, vars, modifierVars, readerVars, TypeOK,
               Queue, Used, Nowhere
  <2>3. CASE GetKey
    <3>1. /\ keyboard_getchar /\ UNCHANGED <<IF_flag, port, screen>>
          /\ panic = "getchar" /\ panic' \in {"test", "getchar"}
      BY <2>3 DEF GetKey
    <3> QED
      BY <3>1, GetcharStep DEF RingInv, QueueEffect, Nowhere
  <2>4. CASE TestKey
    BY <2>4 DEF TestKey, RingInv, QueueEffect, vars, modifierVars, readerVars, TypeOK,
               Queue, Used, Nowhere
  <2>5. CASE KernelReads
    <3>1. keyboard_getchar /\ UNCHANGED <<IF_flag, port, panic, screen>>
      BY <2>5 DEF KernelReads, panicVars
    <3> QED
      BY <3>1, GetcharStep DEF RingInv, QueueEffect
  <2>6. CASE TakeIrq1
    <3>1. /\ IF_flag /\ port # NoCode /\ panic' = panic /\ port' = NoCode
          /\ UNCHANGED <<IF_flag, screen>>
          /\ keyboard_handler(port.key, port.pressed)
      BY <2>6 DEF TakeIrq1, RingInv, Nowhere
    <3>2. port.key \in Key /\ port.pressed \in BOOLEAN
      BY <3>1 DEF RingInv
    <3> QED
      BY <3>1, <3>2, HandlerStep DEF RingInv, QueueEffect
  <2>7. ASSUME NEW k \in Key, NEW pressed \in BOOLEAN, UserKey(k, pressed)
        PROVE  RingInv' /\ QueueEffect /\ (panic = "hlt" => panic' = "hlt")
    <3>1. /\ port' \in [key : Key, pressed : BOOLEAN]
          /\ UNCHANGED <<vars, IF_flag, panic, screen>>
      BY <2>7 DEF UserKey
    <3> QED
      BY <3>1 DEF RingInv, QueueEffect, vars, modifierVars, readerVars, TypeOK, Queue, Used
  <2> QED
    BY <1>1, <2>1, <2>2, <2>3, <2>4, <2>5, <2>6, <2>7 DEF KeyboardStep, PanicNext, kernel_panic
<1>2. CASE UNCHANGED <<vars, port, panic, screen>> /\ (IF_flag' => IF_flag)
  BY <1>2 DEF RingInv, QueueEffect, vars, modifierVars, readerVars, TypeOK, Queue, Used
<1>3. CASE BootStep
  <2>1. IF_flag' = IF_flag \/ IF_flag' = FALSE
    BY <1>3 DEF BootStep, B!BootNext, B!kmain, B!Except, B!TakeIrq, B!Raise, B!isr_handler, B!Mask
  <2> QED
    BY <1>2, <1>3, <2>1 DEF BootStep
<1>4. CASE UNCHANGED allVars
  BY <1>2, <1>4 DEF allVars, panicVars
<1> QED
  BY <1>1, <1>3, <1>4 DEF ScreenNext, ConsoleStep, CanvasStep, RasterStep, screenVars

(* RingInv holds however keyboard_handler comes into keyboard_getchar and the *)
(* panic's poll.                                                             *)
THEOREM RingInvariant == ScreenSpec => []RingInv
  BY RingInvInit, RingStep, PTL DEF ScreenSpec

(* The ring of kbd_buffer_push and keyboard_getchar, filled by interrupts in *)
(* the middle of a read, is a bounded queue that loses only what does not    *)
(* fit, for every size of the ring and every keyboard.                       *)
THEOREM FifoCorrect == ScreenSpec => FifoSpec
<1>1. ScreenInit => Fifo!Init
  <2> SUFFICES ASSUME ScreenInit PROVE Fifo!Init
    OBVIOUS
  <2>1. kbd_head = 0 /\ kbd_tail = 0 /\ got = NoChar /\ RingOK
    BY RingInvInit DEF ScreenInit, PanicInit, Init, RingInv, TypeOK, RingOK
  <2>2. Length = 0 /\ Len(Queue) = 0 /\ Queue \in Seq(Char \cup {NoChar})
    BY <2>1, RingQueue DEF Length, QueueShape
  <2>3. Queue = <<>>
    BY <2>2
  <2> QED
    BY <2>1, <2>3 DEF Fifo!Init
<1>2. ASSUME RingInv, [ScreenNext]_screenVars PROVE [Fifo!Next]_<<Queue, got>>
  <2>1. QueueEffect
    BY <1>2, RingStep
  <2>2. CASE Queue' = Queue /\ got' = got
    BY <2>2
  <2>3. CASE Queue' = Queue /\ Queue = <<>> /\ got' = NoChar
    BY <2>3 DEF Fifo!Next, Fifo!ReadNothing
  <2>4. CASE Queue # <<>> /\ got' = Head(Queue) /\ Queue' = Tail(Queue)
    BY <2>4 DEF Fifo!Next, Fifo!Read
  <2>5. ASSUME NEW k \in Letter \cup Symbol, Queue' = Append(Queue, Decode(k)),
               got' = got, Len(Queue) < Size - 1
        PROVE  Fifo!Next
    <3>1. Decode(k) \in Char
      BY <1>2 DEF Decode, Char, RingInv, TypeOK
    <3>2. Fifo!Type(Decode(k))
      BY <2>5 DEF Fifo!Type
    <3> QED
      BY <3>1, <3>2 DEF Fifo!Next
  <2> QED
    BY <2>1, <2>2, <2>3, <2>4, <2>5 DEF QueueEffect
<1> QED
  BY <1>1, <1>2, RingInvariant, PTL DEF ScreenSpec, FifoSpec, Fifo!Spec

(* keyboard_handler: a character that enters the buffer carries the case of  *)
(* the moment it is typed.                                                   *)
THEOREM CaseCorrect == ScreenSpec => CaseAtTyping
<1>1. ASSUME RingInv, [ScreenNext]_screenVars, Len(Queue') > Len(Queue)
      PROVE  LET ch == Queue'[Len(Queue')]
             IN  ch.shifted = IF ch.key \in Letter THEN shift_pressed # caps_lock
                                                   ELSE shift_pressed
  <2>1. Queue \in Seq(Char \cup {NoChar}) /\ RingInv /\ QueueEffect
    BY <1>1, RingStep, RingQueue DEF RingInv, TypeOK, RingOK, QueueShape
  <2>2. ~(Queue # <<>> /\ Queue' = Tail(Queue)) /\ Queue' # Queue
    BY <1>1, <2>1
  <2>3. PICK k \in Letter \cup Symbol : Queue' = Append(Queue, Decode(k))
    BY <2>1, <2>2 DEF QueueEffect
  <2>4. Queue'[Len(Queue')] = Decode(k)
    BY <2>1, <2>3
  <2> QED
    BY <2>1, <2>4 DEF Decode, RingInv, TypeOK
<1> QED
  BY <1>1, RingInvariant, PTL DEF ScreenSpec, CaseAtTyping

(* kernel_panic: the report can only come from a key that was in the buffer  *)
(* when the panic began, for interrupts are off, and a hlt is never left.    *)
THEOREM OldKeyCorrect == ScreenSpec => OldKeyOnly
<1>1. ASSUME RingInv, [ScreenNext]_screenVars
      PROVE  /\ screen = "main" /\ screen' = "main" => Len(Queue') <= Len(Queue)
             /\ panic = "hlt" => panic' = "hlt"
  <2>1. /\ Queue \in Seq(Char \cup {NoChar}) /\ QueueEffect
        /\ panic = "hlt" => panic' = "hlt"
    BY <1>1, RingStep, RingQueue DEF RingInv, TypeOK, RingOK, QueueShape
  <2>2. screen = "main" => ~IF_flag
    BY <1>1 DEF RingInv
  <2> QED
    BY <2>1, <2>2 DEF QueueEffect
<1> QED
  BY <1>1, RingInvariant, PTL DEF ScreenSpec, OldKeyOnly

-----------------------------------------------------------------------------
(* Raster: lines.  A line goes a pixels one way and b the other; u and v are *)
(* how far it has come, and it is nowhere more than half a pixel off.        *)
OnLine(u, v, a, b) ==
    /\ a \in Nat /\ b \in Nat /\ u \in Nat /\ v \in Nat /\ u <= a /\ v <= b
    /\ 2 * (v * a - u * b) <= a \/ 2 * (v * a - u * b) <= b
    /\ -a <= 2 * (v * a - u * b) \/ -b <= 2 * (v * a - u * b)

Turns(u, v, a, b) == IF a >= b THEN u ELSE v

LEMMA TimesNext ==
  ASSUME NEW m \in Int, NEW n \in Int
  PROVE  (m + 1) * n = m * n + n /\ m * n = n * m /\ m * n \in Int
  OBVIOUS

LEMMA TimesMinus ==
  ASSUME NEW m \in Int, NEW n \in Int, NEW k \in Int
  PROVE  (m - n) * k = m * k - n * k
  OBVIOUS

LEMMA TimesLeast ==
  ASSUME NEW k \in Nat, NEW n \in Nat, k > 0
  PROVE  k * n >= n
<1>1. PICK j \in Nat : k = j + 1
  <2>1. k - 1 \in Nat /\ k = (k - 1) + 1
    OBVIOUS
  <2> QED BY <2>1
<1>2. j * n \in Nat
  OBVIOUS
<1> QED BY <1>1, <1>2, TimesNext

(* A turn along the longer side a.                                           *)
LEMMA LongTurn ==
  ASSUME NEW a \in Nat, NEW b \in Nat, NEW u \in Nat, NEW v \in Nat, NEW d \in Int,
         a >= b, u <= a, v <= b, d = v * a - u * b, -a <= 2 * d, 2 * d <= a,
         ~(u = a /\ v = b)
  PROVE  /\ u < a /\ 2 * (d + a - b) >= -b
         /\ 2 * (d + a - b) <= a => v < b
<1>1. u # a
  <2>1. SUFFICES ASSUME u = a, v < b PROVE FALSE
    OBVIOUS
  <2>2. b - v \in Nat /\ b - v > 0
    BY <2>1
  <2>3. (b - v) * a = b * a - v * a /\ b * a = a * b
    BY TimesMinus, TimesNext
  <2>4. (b - v) * a >= a
    BY <2>2, TimesLeast
  <2>5. d = v * a - a * b
    BY <2>1
  <2>6. PICK k \in Int : k = (b - v) * a
    BY <2>2
  <2>7. d = -k
    <3>1. v * a \in Int /\ a * b \in Int /\ k = a * b - v * a
      BY <2>3, <2>6
    <3> QED BY <2>5, <3>1
  <2>8. k >= a
    BY <2>4, <2>6
  <2>9. a = 0
    BY <2>7, <2>8
  <2> QED BY <2>1, <2>9
<1>2. u < a
  BY <1>1
<1>3. 2 * (d + a - b) >= -b
  OBVIOUS
<1>4. ASSUME v = b, 2 * (d + a - b) <= a PROVE FALSE
  <2>1. a - u \in Nat /\ a - u > 0
    BY <1>2
  <2>2. (a - u) * b = a * b - u * b
    BY TimesMinus
  <2>3. (a - u) * b >= b
    BY <2>1, TimesLeast
  <2>4. d = b * a - u * b /\ b * a = a * b
    BY <1>4, TimesNext
  <2>5. d >= b
    <3>1. a * b \in Int /\ u * b \in Int
      OBVIOUS
    <3> QED BY <2>2, <2>3, <2>4, <3>1
  <2> QED BY <1>2, <1>4, <2>5
<1> QED BY <1>2, <1>3, <1>4

LEMMA TurnIs ==
  ASSUME NEW a, NEW b, NEW u, NEW v, OnLine(u, v, a, b), ~(u = a /\ v = b),
         NEW e, e = (v + 1) * a - (u + 1) * b,
         NEW u2, u2 = IF 2 * e >= -b THEN u + 1 ELSE u,
         NEW v2, v2 = IF 2 * e <= a THEN v + 1 ELSE v,
         NEW e2, e2 = e + (IF 2 * e >= -b THEN -b ELSE 0) + (IF 2 * e <= a THEN a ELSE 0)
  PROVE  /\ OnLine(u2, v2, a, b) /\ Turns(u2, v2, a, b) = Turns(u, v, a, b) + 1
         /\ e2 = (v2 + 1) * a - (u2 + 1) * b
<1>1. a \in Nat /\ b \in Nat /\ u \in Nat /\ v \in Nat /\ u <= a /\ v <= b
  BY DEF OnLine
<1>2. PICK s \in Int, t \in Int : s = v * a /\ t = u * b
  BY <1>1
<1>3. PICK d \in Int : d = s - t
  BY <1>2
<1>4. d = v * a - u * b
  BY <1>2, <1>3
<1>5. /\ 2 * d <= a \/ 2 * d <= b
      /\ -a <= 2 * d \/ -b <= 2 * d
  BY <1>4 DEF OnLine
<1>6. /\ (v + 1) * a = s + a /\ (v + 1 + 1) * a = s + a + a
      /\ (u + 1) * b = t + b /\ (u + 1 + 1) * b = t + b + b
  <2>1. (v + 1) * a = s + a /\ (u + 1) * b = t + b
    BY <1>1, <1>2, TimesNext
  <2>2. (v + 1 + 1) * a = (v + 1) * a + a /\ (u + 1 + 1) * b = (u + 1) * b + b
    <3>1. v + 1 \in Int /\ u + 1 \in Int
      BY <1>1
    <3> QED BY <1>1, <3>1, TimesNext
  <2> QED BY <2>1, <2>2
<1>7. e = d + a - b
  BY <1>1, <1>2, <1>3, <1>6
<1>8. /\ v * a = s /\ (v + 1) * a = s + a /\ u * b = t /\ (u + 1) * b = t + b
  BY <1>2, <1>6
<1>9. e2 = (v2 + 1) * a - (u2 + 1) * b
  BY <1>1, <1>2, <1>3, <1>6, <1>7
<1>10. CASE a >= b
  <2>1. -a <= 2 * d /\ 2 * d <= a
    BY <1>1, <1>3, <1>5, <1>10
  <2>2. u < a /\ 2 * (d + a - b) >= -b /\ (2 * (d + a - b) <= a => v < b)
    BY <1>1, <1>4, <1>10, <2>1, LongTurn
  <2>3. u2 = u + 1 /\ u2 * b = t + b
    BY <1>7, <1>8, <2>2
  <2>4. CASE 2 * e <= a
    <3>1. v2 = v + 1 /\ v2 * a = s + a /\ v < b
      BY <1>7, <1>8, <2>2, <2>4
    <3>2. 2 * ((s + a) - (t + b)) <= a /\ -a <= 2 * ((s + a) - (t + b))
      BY <1>1, <1>2, <1>3, <1>7, <1>10, <2>1, <2>4
    <3>3. u2 \in Nat /\ v2 \in Nat /\ u2 <= a /\ v2 <= b
      BY <1>1, <2>2, <2>3, <3>1
    <3>4. OnLine(u2, v2, a, b)
      BY <1>1, <2>3, <3>1, <3>2, <3>3 DEF OnLine
    <3> QED BY <1>9, <1>10, <2>3, <3>4 DEF Turns
  <2>5. CASE ~(2 * e <= a)
    <3>1. v2 = v /\ v2 * a = s
      BY <1>8, <2>5
    <3>2. 2 * (s - (t + b)) <= a /\ -a <= 2 * (s - (t + b))
      BY <1>1, <1>2, <1>3, <1>7, <1>10, <2>1, <2>5
    <3>3. u2 \in Nat /\ v2 \in Nat /\ u2 <= a /\ v2 <= b
      BY <1>1, <2>2, <2>3, <3>1
    <3>4. OnLine(u2, v2, a, b)
      BY <1>1, <2>3, <3>1, <3>2, <3>3 DEF OnLine
    <3> QED BY <1>9, <1>10, <2>3, <3>4 DEF Turns
  <2> QED BY <2>4, <2>5
<1>11. CASE ~(a >= b)
  <2>1. /\ b >= a /\ -d \in Int /\ -d = u * b - v * a
        /\ -b <= 2 * (-d) /\ 2 * (-d) <= b
    BY <1>1, <1>2, <1>3, <1>5, <1>11
  <2>2. v < b /\ 2 * ((-d) + b - a) >= -a /\ (2 * ((-d) + b - a) <= b => u < a)
    BY <1>1, <2>1, LongTurn
  <2>3. 2 * e <= a /\ (2 * e >= -b => u < a)
    BY <1>1, <1>3, <1>7, <2>2
  <2>4. v2 = v + 1 /\ v2 * a = s + a
    BY <1>8, <2>3
  <2>5. CASE 2 * e >= -b
    <3>1. u2 = u + 1 /\ u2 * b = t + b /\ u < a
      BY <1>8, <2>3, <2>5
    <3>2. 2 * ((s + a) - (t + b)) <= b /\ -b <= 2 * ((s + a) - (t + b))
      BY <1>1, <1>2, <1>3, <1>7, <1>11, <2>1, <2>5
    <3>3. u2 \in Nat /\ v2 \in Nat /\ u2 <= a /\ v2 <= b
      BY <1>1, <2>2, <2>4, <3>1
    <3>4. OnLine(u2, v2, a, b)
      BY <1>1, <2>4, <3>1, <3>2, <3>3 DEF OnLine
    <3> QED BY <1>9, <1>11, <2>4, <3>4 DEF Turns
  <2>6. CASE ~(2 * e >= -b)
    <3>1. u2 = u /\ u2 * b = t
      BY <1>8, <2>6
    <3>2. 2 * ((s + a) - t) <= b /\ -b <= 2 * ((s + a) - t)
      BY <1>1, <1>2, <1>3, <1>7, <1>11, <2>1, <2>6
    <3>3. u2 \in Nat /\ v2 \in Nat /\ u2 <= a /\ v2 <= b
      BY <1>1, <2>2, <2>4, <3>1
    <3>4. OnLine(u2, v2, a, b)
      BY <1>1, <2>4, <3>1, <3>2, <3>3 DEF OnLine
    <3> QED BY <1>9, <1>11, <2>4, <3>4 DEF Turns
  <2> QED BY <2>5, <2>6
<1> QED BY <1>10, <1>11

LEMMA TimesSign ==
  ASSUME NEW m \in Int, NEW n \in Int
  PROVE  (-m) * n = -(m * n) /\ m * (-n) = -(m * n) /\ (-m) * (-n) = m * n
  OBVIOUS

LEMMA StartIs ==
  ASSUME NEW a, NEW b, NEW u, NEW v, OnLine(u, v, a, b), Turns(u, v, a, b) = 0
  PROVE  u = 0 /\ v = 0
<1>1. a \in Nat /\ b \in Nat /\ u \in Nat /\ v \in Nat /\ u <= a /\ v <= b
  BY DEF OnLine
<1>2. CASE a >= b
  <2>1. u = 0 /\ u * b = 0
    BY <1>1, <1>2 DEF Turns
  <2>2. PICK s \in Int : s = v * a
    BY <1>1
  <2>3. v > 0 => s >= a
    BY <1>1, <2>2, TimesLeast
  <2>4. 2 * s <= a \/ 2 * s <= b
    BY <2>1, <2>2 DEF OnLine
  <2> QED BY <1>1, <1>2, <2>1, <2>3, <2>4
<1>3. CASE ~(a >= b)
  <2>1. v = 0 /\ v * a = 0
    BY <1>1, <1>3 DEF Turns
  <2>2. PICK t \in Int : t = u * b
    BY <1>1
  <2>3. u > 0 => t >= b
    BY <1>1, <2>2, TimesLeast
  <2>4. -a <= 2 * (0 - t) \/ -b <= 2 * (0 - t)
    BY <2>1, <2>2 DEF OnLine
  <2> QED BY <1>1, <1>3, <2>1, <2>3, <2>4
<1> QED BY <1>2, <1>3

(* The figure of a line, and the pixels it goes through.                     *)
Wide(f) == R!Abs(f.x1 - f.x0)
High(f) == R!Abs(f.y1 - f.y0)
Pos(f, u, v) == <<f.x0 + f.sx * u, f.y0 + f.sy * v>>

LineIs(f) ==
    /\ f = [kind |-> f.kind, x0 |-> f.x0, y0 |-> f.y0, x1 |-> f.x1, y1 |-> f.y1,
            dx |-> f.dx, dy |-> f.dy, sx |-> f.sx, sy |-> f.sy]
    /\ f.x0 \in Int /\ f.y0 \in Int /\ f.x1 \in Int /\ f.y1 \in Int
    /\ f.sx = R!Sign(f.x0, f.x1) /\ f.sy = R!Sign(f.y0, f.y1)

LEMMA LineFacts ==
  ASSUME NEW f, LineIs(f)
  PROVE  /\ Wide(f) \in Nat /\ High(f) \in Nat
         /\ f.x0 \in Int /\ f.y0 \in Int /\ f.x1 \in Int /\ f.y1 \in Int
         /\ \/ f.sx = 1 /\ f.x1 = f.x0 + Wide(f)
            \/ f.sx = -1 /\ f.x1 = f.x0 - Wide(f)
         /\ \/ f.sy = 1 /\ f.y1 = f.y0 + High(f)
            \/ f.sy = -1 /\ f.y1 = f.y0 - High(f)
  BY DEF LineIs, Wide, High, R!Abs, R!Sign

LEMMA PosIs ==
  ASSUME NEW f, LineIs(f), NEW u \in Nat, NEW v \in Nat
  PROVE  /\ Pos(f, u, v)[1] \in Int /\ Pos(f, u, v)[2] \in Int
         /\ Pos(f, u, v) = <<Pos(f, u, v)[1], Pos(f, u, v)[2]>>
         /\ \/ f.sx = 1 /\ Pos(f, u, v)[1] = f.x0 + u /\ f.x1 = f.x0 + Wide(f)
            \/ f.sx = -1 /\ Pos(f, u, v)[1] = f.x0 - u /\ f.x1 = f.x0 - Wide(f)
         /\ \/ f.sy = 1 /\ Pos(f, u, v)[2] = f.y0 + v /\ f.y1 = f.y0 + High(f)
            \/ f.sy = -1 /\ Pos(f, u, v)[2] = f.y0 - v /\ f.y1 = f.y0 - High(f)
<1>1. /\ Pos(f, u, v)[1] = f.x0 + f.sx * u /\ Pos(f, u, v)[2] = f.y0 + f.sy * v
      /\ Pos(f, u, v) = <<Pos(f, u, v)[1], Pos(f, u, v)[2]>>
  BY DEF Pos
<1>2. 1 * u = u /\ (-1) * u = -u /\ 1 * v = v /\ (-1) * v = -v
  OBVIOUS
<1> QED BY <1>1, <1>2, LineFacts

LEMMA PosDiffers ==
  ASSUME NEW f, LineIs(f), NEW u \in Nat, NEW v \in Nat, NEW u1 \in Nat, NEW v1 \in Nat,
         Pos(f, u, v) = Pos(f, u1, v1)
  PROVE  u = u1 /\ v = v1
<1>1. f.x0 \in Int /\ f.y0 \in Int
  BY LineFacts
<1>2. /\ f.x0 + u = f.x0 + u1 \/ f.x0 - u = f.x0 - u1
      /\ f.y0 + v = f.y0 + v1 \/ f.y0 - v = f.y0 - v1
  <2>1. \/ Pos(f, u, v)[1] = f.x0 + u /\ Pos(f, u1, v1)[1] = f.x0 + u1
        \/ Pos(f, u, v)[1] = f.x0 - u /\ Pos(f, u1, v1)[1] = f.x0 - u1
    BY PosIs
  <2>2. \/ Pos(f, u, v)[2] = f.y0 + v /\ Pos(f, u1, v1)[2] = f.y0 + v1
        \/ Pos(f, u, v)[2] = f.y0 - v /\ Pos(f, u1, v1)[2] = f.y0 - v1
    BY PosIs
  <2> QED BY <2>1, <2>2
<1> QED BY <1>1, <1>2

LEMMA PosAtEnd ==
  ASSUME NEW f, LineIs(f), NEW u \in Nat, NEW v \in Nat
  PROVE  Pos(f, u, v) = <<f.x1, f.y1>> <=> u = Wide(f) /\ v = High(f)
<1>1. f.x0 \in Int /\ f.y0 \in Int /\ Wide(f) \in Nat /\ High(f) \in Nat
  BY LineFacts
<1>2. Pos(f, u, v)[1] = f.x1 <=> u = Wide(f)
  BY <1>1, PosIs
<1>3. Pos(f, u, v)[2] = f.y1 <=> v = High(f)
  BY <1>1, PosIs
<1>4. Pos(f, u, v) = <<Pos(f, u, v)[1], Pos(f, u, v)[2]>>
  BY PosIs
<1> QED BY <1>2, <1>3, <1>4

LEMMA PosOnIdeal ==
  ASSUME NEW f, LineIs(f), NEW u, NEW v, OnLine(u, v, Wide(f), High(f))
  PROVE  R!OnIdeal(f, Pos(f, u, v))
<1>1. PICK a \in Nat, b \in Nat : a = Wide(f) /\ b = High(f)
  BY LineFacts
<1>2. /\ u \in Nat /\ v \in Nat
      /\ 2 * (v * a - u * b) <= a \/ 2 * (v * a - u * b) <= b
      /\ -a <= 2 * (v * a - u * b) \/ -b <= 2 * (v * a - u * b)
  BY <1>1 DEF OnLine
<1>3. PICK p1 \in Int, p2 \in Int : p1 = Pos(f, u, v)[1] /\ p2 = Pos(f, u, v)[2]
  BY <1>2, PosIs
<1>4. f.x0 \in Int /\ f.y0 \in Int /\ f.x1 \in Int /\ f.y1 \in Int
  BY LineFacts
<1>5. \/ p1 - f.x0 = u /\ f.x1 - f.x0 = a
      \/ p1 - f.x0 = -u /\ f.x1 - f.x0 = -a
  BY <1>1, <1>2, <1>3, <1>4, PosIs
<1>6. \/ p2 - f.y0 = v /\ f.y1 - f.y0 = b
      \/ p2 - f.y0 = -v /\ f.y1 - f.y0 = -b
  BY <1>1, <1>2, <1>3, <1>4, PosIs
<1>7. PICK s \in Int, t \in Int : s = v * a /\ t = u * b
  BY <1>2
<1>8. /\ u * b = t /\ (-u) * b = -t /\ u * (-b) = -t /\ (-u) * (-b) = t
      /\ v * a = s /\ (-v) * a = -s /\ v * (-a) = -s /\ (-v) * (-a) = s
  BY <1>2, <1>7, TimesSign
<1>9. PICK q \in Int, r \in Int :
         q = (p1 - f.x0) * (f.y1 - f.y0) /\ r = (p2 - f.y0) * (f.x1 - f.x0)
  BY <1>4
<1>10. q - r = t - s \/ q - r = s - t
  <2>1. CASE p1 - f.x0 = u /\ f.x1 - f.x0 = a /\ p2 - f.y0 = v /\ f.y1 - f.y0 = b
    BY <1>7, <1>9, <2>1
  <2>2. CASE p1 - f.x0 = u /\ f.x1 - f.x0 = a /\ p2 - f.y0 = -v /\ f.y1 - f.y0 = -b
    <3>1. q = -t /\ r = -s
      BY <1>8, <1>9, <2>2
    <3> QED BY <3>1
  <2>3. CASE p1 - f.x0 = -u /\ f.x1 - f.x0 = -a /\ p2 - f.y0 = v /\ f.y1 - f.y0 = b
    <3>1. q = -t /\ r = -s
      BY <1>8, <1>9, <2>3
    <3> QED BY <3>1
  <2>4. CASE p1 - f.x0 = -u /\ f.x1 - f.x0 = -a /\ p2 - f.y0 = -v /\ f.y1 - f.y0 = -b
    BY <1>8, <1>9, <2>4
  <2> QED BY <1>5, <1>6, <2>1, <2>2, <2>3, <2>4
<1>11. 2 * R!Abs(q - r) <= R!Larger(a, b)
  <2>1. /\ 2 * (s - t) <= a \/ 2 * (s - t) <= b
        /\ -a <= 2 * (s - t) \/ -b <= 2 * (s - t)
    BY <1>2, <1>7
  <2> QED BY <1>10, <2>1 DEF R!Abs, R!Larger
<1> QED BY <1>1, <1>3, <1>9, <1>11 DEF R!OnIdeal, Wide, High

LEMMA PosOnScreen ==
  ASSUME NEW f, LineIs(f), R!Ends(f) \subseteq Screen,
         NEW u, NEW v, OnLine(u, v, Wide(f), High(f))
  PROVE  Pos(f, u, v) \in Screen
<1>1. <<f.x0, f.y0>> \in Screen /\ <<f.x1, f.y1>> \in Screen
  BY DEF R!Ends
<1>2. /\ Screen \subseteq Nat \X Nat
      /\ \A p, q \in Screen : (0 .. p[1]) \X (0 .. q[2]) \subseteq Screen
  BY FramebufferAssumption DEF R!RasterAssumption
<1>3. f.x0 \in Nat /\ f.y0 \in Nat /\ f.x1 \in Nat /\ f.y1 \in Nat
  BY <1>1, <1>2
<1>4. u \in Nat /\ v \in Nat /\ u <= Wide(f) /\ v <= High(f) /\ Wide(f) \in Nat /\ High(f) \in Nat
  BY DEF OnLine
<1>5. PICK p1 \in Int, p2 \in Int :
        Pos(f, u, v) = <<p1, p2>> /\ p1 = Pos(f, u, v)[1] /\ p2 = Pos(f, u, v)[2]
  BY <1>4, PosIs
<1>6. p1 \in 0 .. f.x0 \/ p1 \in 0 .. f.x1
  <2>1. \/ p1 = f.x0 + u /\ f.x1 = f.x0 + Wide(f)
        \/ p1 = f.x0 - u /\ f.x1 = f.x0 - Wide(f)
    BY <1>4, <1>5, PosIs
  <2> QED BY <1>3, <1>4, <2>1
<1>7. p2 \in 0 .. f.y0 \/ p2 \in 0 .. f.y1
  <2>1. \/ p2 = f.y0 + v /\ f.y1 = f.y0 + High(f)
        \/ p2 = f.y0 - v /\ f.y1 = f.y0 - High(f)
    BY <1>4, <1>5, PosIs
  <2> QED BY <1>3, <1>4, <2>1
<1>8. \E p \in Screen : p1 \in 0 .. p[1]
  BY <1>1, <1>6
<1>9. \E q \in Screen : p2 \in 0 .. q[2]
  BY <1>1, <1>7
<1> QED BY <1>2, <1>5, <1>8, <1>9

LEMMA SameCount == \A S : R!Cardinality(S) = Cardinality(S)
  BY DEF R!Cardinality, Cardinality

(* What has been drawn after n pixels of it.                                 *)
Drawn(f, s, n) ==
    /\ \A p \in s : R!OnIdeal(f, p)
    /\ n = 0 \/ {<<f.x0, f.y0>>} \cap Screen \subseteq s
    /\ R!Ends(f) \subseteq Screen =>
          /\ IsFiniteSet(s) /\ Cardinality(s) = n
          /\ \A p \in s : \E u, v \in Nat : p = Pos(f, u, v) /\ Turns(u, v, Wide(f), High(f)) < n

LEMMA OneMore ==
  ASSUME NEW f, LineIs(f), NEW u, NEW v, OnLine(u, v, Wide(f), High(f)),
         NEW n, n = Turns(u, v, Wide(f), High(f)), NEW s, Drawn(f, s, n),
         NEW t, t = s \cup ({Pos(f, u, v)} \cap Screen)
  PROVE  Drawn(f, t, n + 1)
<1>1. u \in Nat /\ v \in Nat /\ Wide(f) \in Nat /\ High(f) \in Nat /\ n \in Nat
  BY DEF OnLine, Turns
<1>2. \A p \in t : R!OnIdeal(f, p)
  BY PosOnIdeal DEF Drawn
<1>3. {<<f.x0, f.y0>>} \cap Screen \subseteq t
  <2>1. CASE n = 0
    <3>1. u = 0 /\ v = 0
      BY <2>1, StartIs
    <3>2. f.x0 \in Int /\ f.y0 \in Int
      BY LineFacts
    <3>3. /\ Pos(f, 0, 0)[1] = f.x0 /\ Pos(f, 0, 0)[2] = f.y0
          /\ Pos(f, 0, 0) = <<Pos(f, 0, 0)[1], Pos(f, 0, 0)[2]>>
      <4>1. f.x0 + 0 = f.x0 /\ f.x0 - 0 = f.x0 /\ f.y0 + 0 = f.y0 /\ f.y0 - 0 = f.y0
        BY <3>2
      <4> QED BY <4>1, PosIs
    <3> QED BY <3>1, <3>3
  <2>2. CASE n # 0
    BY <2>2 DEF Drawn
  <2> QED BY <2>1, <2>2
<1>4. ASSUME R!Ends(f) \subseteq Screen
      PROVE  /\ IsFiniteSet(t) /\ Cardinality(t) = n + 1
             /\ \A p \in t : \E u1, v1 \in Nat :
                   p = Pos(f, u1, v1) /\ Turns(u1, v1, Wide(f), High(f)) < n + 1
  <2>1. /\ IsFiniteSet(s) /\ Cardinality(s) = n
        /\ \A p \in s : \E u1, v1 \in Nat :
              p = Pos(f, u1, v1) /\ Turns(u1, v1, Wide(f), High(f)) < n
    BY <1>4 DEF Drawn
  <2>2. t = s \cup {Pos(f, u, v)}
    BY <1>4, PosOnScreen
  <2>3. Pos(f, u, v) \notin s
    <3>1. SUFFICES ASSUME Pos(f, u, v) \in s PROVE FALSE
      OBVIOUS
    <3>2. PICK u1 \in Nat, v1 \in Nat :
             Pos(f, u, v) = Pos(f, u1, v1) /\ Turns(u1, v1, Wide(f), High(f)) < n
      BY <2>1, <3>1
    <3>3. u = u1 /\ v = v1
      BY <1>1, <3>2, PosDiffers
    <3>4. n < n
      BY <3>2, <3>3
    <3> QED BY <1>1, <3>4
  <2>4. IsFiniteSet(t) /\ Cardinality(t) = n + 1
    BY <2>1, <2>2, <2>3, FS_AddElement
  <2>5. ASSUME NEW p \in t
        PROVE  \E u1, v1 \in Nat :
                  p = Pos(f, u1, v1) /\ Turns(u1, v1, Wide(f), High(f)) < n + 1
    <3>1. CASE p \in s
      <4>1. PICK u1 \in Nat, v1 \in Nat :
               p = Pos(f, u1, v1) /\ Turns(u1, v1, Wide(f), High(f)) < n
        BY <2>1, <3>1
      <4>2. Turns(u1, v1, Wide(f), High(f)) \in Nat
        BY DEF Turns
      <4>3. Turns(u1, v1, Wide(f), High(f)) < n + 1
        BY <1>1, <4>1, <4>2
      <4> QED BY <4>1, <4>3
    <3>2. CASE p = Pos(f, u, v)
      <4>1. Turns(u, v, Wide(f), High(f)) < n + 1
        BY <1>1
      <4> QED BY <1>1, <3>2, <4>1
    <3> QED BY <2>2, <3>1, <3>2
  <2> QED BY <2>4, <2>5
<1>5. n + 1 # 0
  BY <1>1
<1> QED BY <1>2, <1>3, <1>4 DEF Drawn

(* A line in progress.  One that ends is u and v on its way; what is added   *)
(* to err is 0 in a row, and otherwise keeps it next to the ideal line.      *)
EndsWell == driver = "fb" \/ R!Ends64(figure)

ErrIs(f, u, v) ==
    \/ /\ f.dx = Wide(f) /\ f.dy = -High(f)
       /\ err = (v + 1) * Wide(f) - (u + 1) * High(f)
    \/ High(f) = 0 /\ f.dy = 0 /\ f.dx > 0 /\ err = f.dx

Under(u, v) ==
    /\ OnLine(u, v, Wide(figure), High(figure)) /\ <<x, y>> = Pos(figure, u, v)
    /\ ErrIs(figure, u, v)
    /\ Drawn(figure, lit, Turns(u, v, Wide(figure), High(figure)))

(* One that does not: the first turn leaves the row; or y never moves, or x. *)
RunsAway ==
    /\ driver = "fb64"
    /\ \/ /\ figure.y0 = figure.y1 /\ figure.x0 < figure.x1 /\ figure.dx <= 0 /\ figure.dy = 0
          /\ \/ x = figure.x0 /\ y = figure.y0 /\ err = figure.dx
             \/ y = figure.y0 - 1
       \/ figure.y0 # figure.y1 /\ y = figure.y0 /\ 2 * err >= figure.dy /\ 2 * err > figure.dx
       \/ /\ figure.y0 # figure.y1 /\ figure.x0 < figure.x1 /\ figure.dx < 0
          /\ x = figure.x0 /\ 2 * err < figure.dy

LineInv ==
    /\ driver \in {"fb", "fb64"}
    /\ figure = R!NoFigure => lit = {}
    /\ figure.kind \in {"line", "drawn_line"} =>
          /\ LineIs(figure)
          /\ figure.dx = R!Dx(figure.x0, figure.y0, figure.x1)
          /\ figure.dy = R!Dy(figure.y0, figure.y1)
    /\ figure.kind = "line" =>
          /\ x \in Int /\ y \in Int /\ err \in Int
          /\ IF EndsWell THEN \E u, v : Under(u, v) ELSE RunsAway
    /\ figure.kind = "drawn_line" => EndsWell /\ R!IdealLine(figure)

LEMMA LineInvInit == R!Init => LineInv
<1> SUFFICES ASSUME R!Init PROVE LineInv
  OBVIOUS
<1>1. figure = R!NoFigure /\ lit = {} /\ driver \in {"fb", "fb64"}
  BY DEF R!Init
<1>2. figure.kind = "none"
  BY <1>1 DEF R!NoFigure
<1> QED BY <1>1, <1>2 DEF LineInv

LEMMA LineBegins ==
  ASSUME LineInv, NEW x0 \in Coord, NEW y0 \in Coord, NEW x1 \in Coord, NEW y1 \in Coord,
         R!draw_line(x0, y0, x1, y1)
  PROVE  LineInv'
<1>1. x0 \in Int /\ y0 \in Int /\ x1 \in Int /\ y1 \in Int
  BY FramebufferAssumption DEF R!RasterAssumption
<1>2. /\ figure = R!NoFigure /\ lit = {} /\ driver \in {"fb", "fb64"}
      /\ driver' = driver /\ lit' = lit
  <2>1. figure = R!NoFigure /\ driver' = driver /\ lit' = lit
    BY DEF R!draw_line
  <2> QED BY <2>1, Zenon DEF LineInv
<1>3. PICK f : f = figure'
  OBVIOUS
<1>4. f = [kind |-> "line", x0 |-> x0, y0 |-> y0, x1 |-> x1, y1 |-> y1,
           dx |-> R!Dx(x0, y0, x1), dy |-> R!Dy(y0, y1),
           sx |-> R!Sign(x0, x1), sy |-> R!Sign(y0, y1)]
  BY <1>3 DEF R!draw_line
<1>5. x' = x0 /\ y' = y0 /\ err' = R!Dx(x0, y0, x1) + R!Dy(y0, y1)
  BY DEF R!draw_line
<1>6. /\ f.kind = "line" /\ f.x0 = x0 /\ f.y0 = y0 /\ f.x1 = x1 /\ f.y1 = y1
      /\ f.dx = R!Dx(x0, y0, x1) /\ f.dy = R!Dy(y0, y1)
      /\ f.sx = R!Sign(x0, x1) /\ f.sy = R!Sign(y0, y1)
  BY <1>4
<1>7. LineIs(f)
  BY <1>1, <1>4, <1>6, Zenon DEF LineIs
<1>8. /\ f.dx = IF driver = "fb64" /\ x1 > x0 THEN x1 - y0 ELSE R!Abs(x1 - x0)
      /\ f.dy = IF driver = "fb64" THEN R!Abs(y1 - y0) ELSE -R!Abs(y1 - y0)
  BY <1>6 DEF R!Dx, R!Dy
<1>9. f.dx \in Int /\ f.dy \in Int /\ err' = f.dx + f.dy
  BY <1>1, <1>5, <1>6, <1>8 DEF R!Abs
<1>10. PICK a \in Nat, b \in Nat : a = Wide(f) /\ b = High(f)
  BY <1>7, LineFacts
<1>11. a = R!Abs(x1 - x0) /\ b = R!Abs(y1 - y0)
  BY <1>6, <1>10 DEF Wide, High
<1>12. ASSUME driver = "fb" \/ R!Ends64(f) PROVE \E u, v : Under(u, v)'
  <2>1. OnLine(0, 0, a, b)
    <3>1. 0 * a = 0 /\ 0 * b = 0
      OBVIOUS
    <3> QED BY <1>10, <3>1 DEF OnLine
  <2>2. <<x', y'>> = Pos(f, 0, 0)
    <3>1. f.sx * 0 = 0 /\ f.sy * 0 = 0 /\ x0 + 0 = x0 /\ y0 + 0 = y0
      BY <1>1, <1>6 DEF R!Sign
    <3> QED BY <1>5, <1>6, <3>1 DEF Pos
  <2>3. \/ f.dx = a /\ f.dy = -b /\ err' = a - b
        \/ b = 0 /\ f.dy = 0 /\ f.dx > 0 /\ err' = f.dx
    <3>1. CASE driver = "fb"
      BY <1>8, <1>9, <1>11, <3>1
    <3>2. CASE driver = "fb64" /\ R!Ends64(f)
      <4>1. y0 = y1 /\ (x1 <= x0 \/ x1 > y0)
        BY <1>6, <3>2 DEF R!Ends64
      <4>2. b = 0 /\ f.dy = 0
        BY <1>1, <1>8, <1>11, <3>2, <4>1 DEF R!Abs
      <4>3. CASE x1 > x0
        BY <1>1, <1>8, <1>9, <3>2, <4>1, <4>2, <4>3
      <4>4. CASE ~(x1 > x0)
        BY <1>8, <1>9, <1>11, <4>2, <4>4
      <4> QED BY <4>3, <4>4
    <3> QED BY <1>2, <1>12, <3>1, <3>2
  <2>4. (0 + 1) * a - (0 + 1) * b = a - b
    OBVIOUS
  <2>5. ErrIs(figure, 0, 0)'
    BY <1>3, <1>10, <2>3, <2>4 DEF ErrIs
  <2>6. Drawn(f, lit', Turns(0, 0, a, b))
    <3>1. Turns(0, 0, a, b) = 0 /\ lit' = {}
      BY <1>2 DEF Turns
    <3> QED BY <3>1, FS_EmptySet DEF Drawn
  <2>7. Under(0, 0)'
    BY <1>3, <1>10, <2>1, <2>2, <2>5, <2>6 DEF Under
  <2> QED BY <2>7
<1>13. ASSUME driver = "fb64", ~R!Ends64(f) PROVE RunsAway'
  <2>1. y0 # y1 \/ (x1 > x0 /\ x1 <= y0)
    BY <1>1, <1>6, <1>13 DEF R!Ends64
  <2>2. CASE y0 = y1
    <3>1. f.dx <= 0 /\ f.dy = 0 /\ x0 < x1
      BY <1>1, <1>8, <1>13, <2>1, <2>2 DEF R!Abs
    <3> QED BY <1>2, <1>3, <1>5, <1>6, <1>9, <1>13, <2>2, <3>1 DEF RunsAway
  <2>3. CASE y0 # y1
    <3>1. f.dy > 0
      BY <1>1, <1>8, <1>13, <2>3 DEF R!Abs
    <3>2. CASE 2 * err' >= f.dy
      <4>1. 2 * err' > f.dx
        BY <1>9, <3>1, <3>2
      <4> QED BY <1>2, <1>3, <1>5, <1>6, <1>13, <2>3, <3>2, <4>1 DEF RunsAway
    <3>3. CASE ~(2 * err' >= f.dy)
      <4>1. 2 * err' < f.dy /\ f.dx < 0
        BY <1>9, <3>1, <3>3
      <4>2. x0 < x1
        BY <1>1, <1>8, <4>1 DEF R!Abs
      <4> QED BY <1>2, <1>3, <1>5, <1>6, <1>13, <2>3, <4>1, <4>2 DEF RunsAway
    <3> QED BY <3>2, <3>3
  <2> QED BY <2>2, <2>3
<1>14. figure' # R!NoFigure
  <2>1. R!NoFigure.kind = "none"
    BY DEF R!NoFigure
  <2> QED BY <1>3, <1>6, <2>1
<1>15. EndsWell' <=> driver = "fb" \/ R!Ends64(f)
  BY <1>2, <1>3 DEF EndsWell, R!Ends64
<1>16. IF EndsWell' THEN \E u, v : Under(u, v)' ELSE RunsAway'
  BY <1>2, <1>12, <1>13, <1>15
<1>17. x' \in Int /\ y' \in Int /\ err' \in Int
  BY <1>1, <1>5, <1>9
<1>18. f.dx = R!Dx(f.x0, f.y0, f.x1)' /\ f.dy = R!Dy(f.y0, f.y1)'
  BY <1>2, <1>6 DEF R!Dx, R!Dy
<1> QED BY <1>2, <1>3, <1>6, <1>7, <1>14, <1>16, <1>17, <1>18, Zenon DEF LineInv

(* A turn of a line that ends.                                               *)
LEMMA LineGoesOn ==
  ASSUME LineIs(figure), NEW u, NEW v, Under(u, v), x \in Int, y \in Int, err \in Int,
         R!LineTurn
  PROVE  \E u2, v2 : Under(u2, v2)'
<1>1. PICK f : f = figure
  OBVIOUS
<1>2. PICK a \in Nat, b \in Nat : a = Wide(f) /\ b = High(f)
  BY <1>1, LineFacts
<1>3. /\ OnLine(u, v, a, b) /\ <<x, y>> = Pos(f, u, v) /\ ErrIs(f, u, v)
      /\ Drawn(f, lit, Turns(u, v, a, b))
  BY <1>1, <1>2 DEF Under
<1>4. /\ ~(x = f.x1 /\ y = f.y1) /\ figure' = f
      /\ x' = (IF 2 * err >= f.dy THEN x + f.sx ELSE x)
      /\ y' = (IF 2 * err <= f.dx THEN y + f.sy ELSE y)
      /\ err' = err + (IF 2 * err >= f.dy THEN f.dy ELSE 0) + (IF 2 * err <= f.dx THEN f.dx ELSE 0)
      /\ lit' = lit \cup ({<<x, y>>} \cap Screen)
  BY <1>1 DEF R!LineTurn, R!AtEnd, R!put_pixel
<1>5. u \in Nat /\ v \in Nat /\ u <= a /\ v <= b
  BY <1>3 DEF OnLine
<1>6. ~(u = a /\ v = b)
  <2>1. u = a /\ v = b => Pos(f, u, v) = <<f.x1, f.y1>>
    BY <1>1, <1>2, <1>5, PosAtEnd
  <2> QED BY <1>3, <1>4, <2>1
<1>7. x = f.x0 + f.sx * u /\ y = f.y0 + f.sy * v /\ f.x0 \in Int /\ f.y0 \in Int
  BY <1>1, <1>3, LineFacts DEF Pos
<1>8. (f.sx = 1 \/ f.sx = -1) /\ (f.sy = 1 \/ f.sy = -1)
  BY <1>1, LineFacts
<1>9. PICK u2, v2 : /\ u2 = IF 2 * err >= f.dy THEN u + 1 ELSE u
                    /\ v2 = IF 2 * err <= f.dx THEN v + 1 ELSE v
  OBVIOUS
<1>10. <<x', y'>> = Pos(f, u2, v2)
  <2>1. x' = f.x0 + f.sx * u2
    <3>1. f.sx * (u + 1) = f.sx * u + f.sx /\ f.sx * u \in Int
      BY <1>5, <1>8
    <3> QED BY <1>4, <1>5, <1>7, <1>8, <1>9, <3>1
  <2>2. y' = f.y0 + f.sy * v2
    <3>1. f.sy * (v + 1) = f.sy * v + f.sy /\ f.sy * v \in Int
      BY <1>5, <1>8
    <3> QED BY <1>4, <1>5, <1>7, <1>8, <1>9, <3>1
  <2> QED BY <2>1, <2>2 DEF Pos
<1>11. /\ OnLine(u2, v2, a, b) /\ Turns(u2, v2, a, b) = Turns(u, v, a, b) + 1
       /\ \/ f.dx = a /\ f.dy = -b /\ err' = (v2 + 1) * a - (u2 + 1) * b
          \/ b = 0 /\ f.dy = 0 /\ f.dx > 0 /\ err' = f.dx
  <2>1. CASE f.dx = a /\ f.dy = -b /\ err = (v + 1) * a - (u + 1) * b
    <3>1. /\ u2 = IF 2 * err >= -b THEN u + 1 ELSE u
          /\ v2 = IF 2 * err <= a THEN v + 1 ELSE v
          /\ err' = err + (IF 2 * err >= -b THEN -b ELSE 0) + (IF 2 * err <= a THEN a ELSE 0)
      BY <1>4, <1>9, <2>1
    <3>2. /\ OnLine(u2, v2, a, b) /\ Turns(u2, v2, a, b) = Turns(u, v, a, b) + 1
          /\ err' = (v2 + 1) * a - (u2 + 1) * b
      BY <1>3, <1>6, <2>1, <3>1, TurnIs
    <3> QED BY <2>1, <3>2, Zenon
  <2>2. CASE b = 0 /\ f.dy = 0 /\ f.dx > 0 /\ err = f.dx
    <3>1. PICK k \in Int : k = f.dx
      BY <2>2
    <3>2. 2 * err >= f.dy /\ ~(2 * err <= f.dx)
      BY <2>2, <3>1
    <3>3. u2 = u + 1 /\ v2 = v /\ err' = err /\ v = 0 /\ u2 <= a /\ u2 \in Nat
      BY <1>2, <1>4, <1>5, <1>6, <1>9, <2>2, <3>1, <3>2
    <3>4. 0 * a = 0 /\ u2 * 0 = 0
      BY <3>3
    <3>5. OnLine(u2, v2, a, b)
      BY <1>2, <2>2, <3>3, <3>4 DEF OnLine
    <3>6. Turns(u2, v2, a, b) = Turns(u, v, a, b) + 1
      BY <1>2, <2>2, <3>3 DEF Turns
    <3> QED BY <2>2, <3>3, <3>5, <3>6
  <2> QED BY <1>2, <1>3, <2>1, <2>2 DEF ErrIs
<1>12. ErrIs(figure, u2, v2)'
  BY <1>2, <1>4, <1>11 DEF ErrIs
<1>13. Drawn(f, lit', Turns(u2, v2, a, b))
  <2>1. lit' = lit \cup ({Pos(f, u, v)} \cap Screen)
    BY <1>3, <1>4
  <2>2. Drawn(f, lit', Turns(u, v, a, b) + 1)
    BY <1>1, <1>2, <1>3, <2>1, OneMore
  <2> QED BY <1>11, <2>2
<1>14. Under(u2, v2)'
  BY <1>2, <1>4, <1>10, <1>11, <1>12, <1>13 DEF Under
<1> QED BY <1>14

(* A turn of one that does not.                                              *)
LEMMA LineRunsOn ==
  ASSUME LineInv, RunsAway, figure.kind = "line", x \in Int, y \in Int, err \in Int, R!LineTurn
  PROVE  RunsAway'
<1>1. PICK f : f = figure
  OBVIOUS
<1>2. /\ figure' = f /\ driver' = driver
      /\ ~((x - f.x1) * f.sx > 0) /\ ~((y - f.y1) * f.sy > 0)
      /\ x' = (IF 2 * err >= f.dy THEN x + f.sx ELSE x)
      /\ y' = (IF 2 * err <= f.dx THEN y + f.sy ELSE y)
      /\ err' = err + (IF 2 * err >= f.dy THEN f.dy ELSE 0) + (IF 2 * err <= f.dx THEN f.dx ELSE 0)
  BY <1>1 DEF R!LineTurn, R!PastEnd
<1>3. /\ LineIs(f) /\ f.dx = R!Dx(f.x0, f.y0, f.x1) /\ f.dy = R!Dy(f.y0, f.y1)
  BY <1>1 DEF LineInv
<1>4. f.x0 \in Int /\ f.y0 \in Int /\ f.x1 \in Int /\ f.y1 \in Int
  BY <1>3, LineFacts
<1>5. f.sx = (IF f.x0 < f.x1 THEN 1 ELSE -1) /\ f.sy = (IF f.y0 < f.y1 THEN 1 ELSE -1)
  BY <1>3 DEF LineIs, R!Sign
<1>6. driver = "fb64"
  BY DEF RunsAway
<1>7. f.dx \in Int /\ f.dy = R!Abs(f.y1 - f.y0)
  BY <1>3, <1>4, <1>6 DEF R!Dx, R!Dy, R!Abs
<1>8. f.dy \in Nat /\ (f.y0 # f.y1 => f.dy > 0)
  BY <1>4, <1>7 DEF R!Abs
<1>9. CASE f.y0 = f.y1 /\ f.x0 < f.x1 /\ f.dx <= 0 /\ f.dy = 0
           /\ x = f.x0 /\ y = f.y0 /\ err = f.dx
  <2>1. 2 * err <= f.dx /\ f.sy = -1
    BY <1>4, <1>5, <1>7, <1>9
  <2>2. y' = f.y0 - 1
    BY <1>2, <1>4, <1>9, <2>1
  <2> QED BY <1>2, <1>6, <1>9, <2>2 DEF RunsAway
<1>10. CASE f.y0 = f.y1 /\ y = f.y0 - 1
  <2>1. f.sy = -1 /\ y - f.y1 = -1 /\ (-1) * (-1) > 0
    BY <1>4, <1>5, <1>10
  <2> QED BY <1>2, <2>1
<1>11. CASE f.y0 # f.y1 /\ y = f.y0 /\ 2 * err >= f.dy /\ 2 * err > f.dx
  <2>1. y' = y /\ err' = err + f.dy
    BY <1>2, <1>4, <1>7, <1>8, <1>11
  <2>2. 2 * err' >= f.dy /\ 2 * err' > f.dx
    BY <1>7, <1>8, <1>11, <2>1
  <2> QED BY <1>2, <1>6, <1>11, <2>1, <2>2 DEF RunsAway
<1>12. CASE f.y0 # f.y1 /\ f.x0 < f.x1 /\ f.dx < 0 /\ x = f.x0 /\ 2 * err < f.dy
  <2>1. x' = x /\ (err' = err \/ err' = err + f.dx)
    BY <1>2, <1>4, <1>7, <1>8, <1>12
  <2>2. 2 * err' < f.dy
    BY <1>7, <1>8, <1>12, <2>1
  <2> QED BY <1>2, <1>6, <1>12, <2>1, <2>2 DEF RunsAway
<1> QED BY <1>1, <1>9, <1>10, <1>11, <1>12 DEF RunsAway

LEMMA LineTurned ==
  ASSUME LineInv, R!LineTurn
  PROVE  LineInv'
<1>1. figure.kind = "line" /\ figure' = figure /\ driver' = driver
  BY DEF R!LineTurn
<1>2. /\ LineIs(figure) /\ x \in Int /\ y \in Int /\ err \in Int /\ driver \in {"fb", "fb64"}
      /\ figure.dx = R!Dx(figure.x0, figure.y0, figure.x1)
      /\ figure.dy = R!Dy(figure.y0, figure.y1)
      /\ IF EndsWell THEN \E u, v : Under(u, v) ELSE RunsAway
  BY <1>1 DEF LineInv
<1>3. figure # R!NoFigure
  <2>1. R!NoFigure.kind = "none"
    BY DEF R!NoFigure
  <2> QED BY <1>1, <2>1
<1>4. IF EndsWell' THEN \E u, v : Under(u, v)' ELSE RunsAway'
  <2>1. EndsWell' <=> EndsWell
    BY <1>1 DEF EndsWell
  <2>2. CASE EndsWell
    BY <1>2, <2>1, <2>2, LineGoesOn
  <2>3. CASE ~EndsWell
    BY <1>1, <1>2, <2>1, <2>3, LineRunsOn
  <2> QED BY <2>2, <2>3
<1>5. x' \in Int /\ y' \in Int /\ err' \in Int
  <2>1. figure.dx \in Int /\ figure.dy \in Int
    BY <1>2, LineFacts DEF R!Dx, R!Dy, R!Abs
  <2>2. figure.sx \in Int /\ figure.sy \in Int
    BY <1>2, LineFacts
  <2>3. /\ x' = x + figure.sx \/ x' = x
        /\ y' = y + figure.sy \/ y' = y
        /\ \E m \in {figure.dy, 0}, n \in {figure.dx, 0} : err' = err + m + n
    BY DEF R!LineTurn
  <2> QED BY <1>2, <2>1, <2>2, <2>3
<1>6. /\ figure.dx = R!Dx(figure.x0, figure.y0, figure.x1)'
      /\ figure.dy = R!Dy(figure.y0, figure.y1)'
  BY <1>1, <1>2 DEF R!Dx, R!Dy
<1>7. figure.kind # "drawn_line"
  BY <1>1
<1> QED BY <1>1, <1>2, <1>3, <1>4, <1>5, <1>6, <1>7, Zenon DEF LineInv

LEMMA LineEnds ==
  ASSUME LineInv, R!LineEnd
  PROVE  LineInv'
<1>1. PICK f : f = figure
  OBVIOUS
<1>2. /\ f.kind = "line" /\ x = f.x1 /\ y = f.y1 /\ driver' = driver
      /\ figure' = [f EXCEPT !.kind = "drawn_line"]
      /\ lit' = lit \cup ({<<x, y>>} \cap Screen)
  BY <1>1 DEF R!LineEnd, R!AtEnd, R!put_pixel
<1>3. /\ LineIs(f) /\ driver \in {"fb", "fb64"}
      /\ f.dx = R!Dx(f.x0, f.y0, f.x1) /\ f.dy = R!Dy(f.y0, f.y1)
      /\ IF EndsWell THEN \E u, v : Under(u, v) ELSE RunsAway
  BY <1>1, <1>2 DEF LineInv
<1>4. f.x0 \in Int /\ f.y0 \in Int /\ f.x1 \in Int /\ f.y1 \in Int
  BY <1>3, LineFacts
<1>5. ~RunsAway
  BY <1>1, <1>2, <1>4 DEF RunsAway
<1>6. EndsWell
  BY <1>3, <1>5
<1>7. PICK u, v : Under(u, v)
  BY <1>3, <1>6
<1>8. PICK a \in Nat, b \in Nat : a = Wide(f) /\ b = High(f)
  BY <1>3, LineFacts
<1>9. /\ OnLine(u, v, a, b) /\ <<x, y>> = Pos(f, u, v)
      /\ Drawn(f, lit, Turns(u, v, a, b))
  BY <1>1, <1>7, <1>8 DEF Under
<1>10. u = a /\ v = b
  <2>1. u \in Nat /\ v \in Nat
    BY <1>9 DEF OnLine
  <2> QED BY <1>2, <1>3, <1>8, <1>9, <2>1, PosAtEnd
<1>11. Turns(u, v, a, b) = R!Larger(a, b)
  BY <1>8, <1>10 DEF Turns, R!Larger
<1>12. lit' = lit \cup ({Pos(f, u, v)} \cap Screen)
  BY <1>2, <1>9
<1>13. Drawn(f, lit', R!Larger(a, b) + 1)
  BY <1>3, <1>8, <1>9, <1>11, <1>12, OneMore
<1>14. R!Larger(a, b) + 1 # 0
  BY <1>8 DEF R!Larger
<1>15. PICK g : g = figure'
  OBVIOUS
<1>16. /\ g.kind = "drawn_line" /\ g.x0 = f.x0 /\ g.y0 = f.y0 /\ g.x1 = f.x1 /\ g.y1 = f.y1
       /\ g.dx = f.dx /\ g.dy = f.dy /\ g.sx = f.sx /\ g.sy = f.sy
       /\ g = [kind |-> g.kind, x0 |-> g.x0, y0 |-> g.y0, x1 |-> g.x1, y1 |-> g.y1,
               dx |-> g.dx, dy |-> g.dy, sx |-> g.sx, sy |-> g.sy]
  <2>1. f = [kind |-> f.kind, x0 |-> f.x0, y0 |-> f.y0, x1 |-> f.x1, y1 |-> f.y1,
             dx |-> f.dx, dy |-> f.dy, sx |-> f.sx, sy |-> f.sy]
    BY <1>3, Zenon DEF LineIs
  <2>2. g = [kind |-> "drawn_line", x0 |-> f.x0, y0 |-> f.y0, x1 |-> f.x1, y1 |-> f.y1,
             dx |-> f.dx, dy |-> f.dy, sx |-> f.sx, sy |-> f.sy]
    BY <1>2, <1>15, <2>1
  <2> QED BY <2>2
<1>17. LineIs(g)
  BY <1>3, <1>4, <1>16 DEF LineIs
<1>18. EndsWell'
  BY <1>1, <1>2, <1>6, <1>15, <1>16 DEF EndsWell, R!Ends64
<1>19. R!IdealLine(g)'
  <2>1. \A p : R!OnIdeal(f, p) <=> R!OnIdeal(g, p)
    BY <1>16 DEF R!OnIdeal
  <2>2. R!Ends(g) = {<<f.x0, f.y0>>, <<f.x1, f.y1>>} /\ R!Ends(f) = R!Ends(g)
    BY <1>16 DEF R!Ends
  <2>3. R!Larger(R!Abs(g.x1 - g.x0), R!Abs(g.y1 - g.y0)) = R!Larger(a, b)
    BY <1>8, <1>16 DEF Wide, High
  <2>4. {<<f.x1, f.y1>>} \cap Screen \subseteq lit'
    BY <1>2
  <2>5. {<<f.x0, f.y0>>} \cap Screen \subseteq lit'
    BY <1>13, <1>14 DEF Drawn
  <2>6. R!Ends(g) \cap Screen \subseteq lit'
    BY <2>2, <2>4, <2>5
  <2>7. \A p \in lit' : R!OnIdeal(g, p)
    BY <1>13, <2>1 DEF Drawn
  <2>8. R!Ends(g) \subseteq Screen => Cardinality(lit') = R!Larger(a, b) + 1
    BY <1>13, <2>2 DEF Drawn
  <2>9. R!Ends(g) \subseteq Screen =>
           R!Cardinality(lit') = R!Larger(R!Abs(g.x1 - g.x0), R!Abs(g.y1 - g.y0)) + 1
    BY <2>3, <2>8, SameCount
  <2> QED BY <2>6, <2>7, <2>9, Zenon DEF R!IdealLine
<1>20. g # R!NoFigure
  <2>1. R!NoFigure.kind = "none"
    BY DEF R!NoFigure
  <2> QED BY <1>16, <2>1
<1>21. g.dx = R!Dx(g.x0, g.y0, g.x1)' /\ g.dy = R!Dy(g.y0, g.y1)'
  BY <1>2, <1>3, <1>16 DEF R!Dx, R!Dy
<1>22. g.kind # "line"
  BY <1>16
<1> QED BY <1>2, <1>3, <1>15, <1>17, <1>18, <1>19, <1>20, <1>21, <1>22, Zenon DEF LineInv

(* Circles.  The eight pixels of an octant's, each by a swap and two signs.  *)
Flip(w, m, n, a, b) == IF w THEN <<m * b, n * a>> ELSE <<m * a, n * b>>

LEMMA SignTimes ==
  ASSUME NEW m \in {1, -1}, NEW a \in Int
  PROVE  m * a \in Int /\ (m = 1 => m * a = a) /\ (m = -1 => m * a = -a)
  OBVIOUS

LEMMA FlipIs ==
  ASSUME NEW w \in BOOLEAN, NEW m \in {1, -1}, NEW n \in {1, -1}, NEW a \in Int, NEW b \in Int,
         NEW p, p = Flip(w, m, n, a, b)
  PROVE  /\ p = <<p[1], p[2]>> /\ p[1] \in Int /\ p[2] \in Int
         /\ w => /\ (m = 1 /\ p[1] = b) \/ (m = -1 /\ p[1] = -b)
                 /\ (n = 1 /\ p[2] = a) \/ (n = -1 /\ p[2] = -a)
         /\ ~w => /\ (m = 1 /\ p[1] = a) \/ (m = -1 /\ p[1] = -a)
                  /\ (n = 1 /\ p[2] = b) \/ (n = -1 /\ p[2] = -b)
<1>1. /\ m * a \in Int /\ (m = 1 => m * a = a) /\ (m = -1 => m * a = -a)
      /\ m * b \in Int /\ (m = 1 => m * b = b) /\ (m = -1 => m * b = -b)
      /\ n * a \in Int /\ (n = 1 => n * a = a) /\ (n = -1 => n * a = -a)
      /\ n * b \in Int /\ (n = 1 => n * b = b) /\ (n = -1 => n * b = -b)
  BY SignTimes
<1>2. CASE w
  <2>1. p[1] = m * b /\ p[2] = n * a /\ p = <<p[1], p[2]>>
    BY <1>2 DEF Flip
  <2> QED BY <1>1, <1>2, <2>1
<1>3. CASE ~w
  <2>1. p[1] = m * a /\ p[2] = n * b /\ p = <<p[1], p[2]>>
    BY <1>3 DEF Flip
  <2> QED BY <1>1, <1>3, <2>1
<1> QED BY <1>2, <1>3

Parts(p, a, b) ==
    /\ p = <<p[1], p[2]>> /\ p[1] \in Int /\ p[2] \in Int
    /\ \/ (p[1] = b \/ p[1] = -b) /\ (p[2] = a \/ p[2] = -a)
       \/ (p[1] = a \/ p[1] = -a) /\ (p[2] = b \/ p[2] = -b)

LEMMA FlipParts ==
  ASSUME NEW w \in BOOLEAN, NEW m \in {1, -1}, NEW n \in {1, -1}, NEW a \in Int, NEW b \in Int,
         NEW p, p = Flip(w, m, n, a, b)
  PROVE  Parts(p, a, b)
<1>1. /\ p = <<p[1], p[2]>> /\ p[1] \in Int /\ p[2] \in Int
      /\ w => /\ (m = 1 /\ p[1] = b) \/ (m = -1 /\ p[1] = -b)
              /\ (n = 1 /\ p[2] = a) \/ (n = -1 /\ p[2] = -a)
      /\ ~w => /\ (m = 1 /\ p[1] = a) \/ (m = -1 /\ p[1] = -a)
               /\ (n = 1 /\ p[2] = b) \/ (n = -1 /\ p[2] = -b)
  BY FlipIs
<1> QED BY <1>1, Zenon DEF Parts

LEMMA OctantsIs ==
  ASSUME NEW a \in Int, NEW b \in Int, NEW p
  PROVE  p \in R!Octants(a, b) <=>
           /\ p = <<p[1], p[2]>>
           /\ \/ (p[1] = a \/ p[1] = -a) /\ (p[2] = b \/ p[2] = -b)
              \/ (p[1] = b \/ p[1] = -b) /\ (p[2] = a \/ p[2] = -a)
  BY DEF R!Octants

LEMMA OctantFlips ==
  ASSUME NEW a \in Int, NEW b \in Int, NEW p \in R!Octants(a, b)
  PROVE  \E w \in BOOLEAN, m \in {1, -1}, n \in {1, -1} : p = Flip(w, m, n, a, b)
<1>1. 1 * a = a /\ (-1) * a = -a /\ 1 * b = b /\ (-1) * b = -b
  OBVIOUS
<1>2. p = <<p[1], p[2]>>
  BY OctantsIs
<1>3. CASE (p[1] = a \/ p[1] = -a) /\ (p[2] = b \/ p[2] = -b)
  <2>1. PICK m \in {1, -1} : p[1] = m * a
    BY <1>1, <1>3
  <2>2. PICK n \in {1, -1} : p[2] = n * b
    BY <1>1, <1>3
  <2>3. p = Flip(FALSE, m, n, a, b)
    BY <1>2, <2>1, <2>2 DEF Flip
  <2> QED BY <2>3
<1>4. CASE (p[1] = b \/ p[1] = -b) /\ (p[2] = a \/ p[2] = -a)
  <2>1. PICK m \in {1, -1} : p[1] = m * b
    BY <1>1, <1>4
  <2>2. PICK n \in {1, -1} : p[2] = n * a
    BY <1>1, <1>4
  <2>3. p = Flip(TRUE, m, n, a, b)
    BY <1>2, <2>1, <2>2 DEF Flip
  <2> QED BY <2>3
<1> QED BY <1>3, <1>4, OctantsIs

LEMMA FlippedOctant ==
  ASSUME NEW w \in BOOLEAN, NEW m \in {1, -1}, NEW n \in {1, -1},
         NEW g \in Int, NEW d \in Int, NEW u \in Int, NEW v \in Int,
         <<u, v>> \in R!Octants(g, d)
  PROVE  Flip(w, m, n, u, v) \in R!Octants(g, d)
<1>1. PICK p : p = Flip(w, m, n, u, v)
  OBVIOUS
<1>2. \/ (u = g \/ u = -g) /\ (v = d \/ v = -d)
      \/ (u = d \/ u = -d) /\ (v = g \/ v = -g)
  BY DEF R!Octants
<1>3. Parts(p, u, v)
  BY <1>1, FlipParts
<1>4. -(-g) = g /\ -(-d) = d
  OBVIOUS
<1> QED BY <1>1, <1>2, <1>3, <1>4, OctantsIs DEF Parts

FlippedAlike(p, q, a, b, g, d) ==
    \/ /\ (p[1] = b /\ q[1] = d) \/ (p[1] = -b /\ q[1] = -d)
       /\ (p[2] = a /\ q[2] = g) \/ (p[2] = -a /\ q[2] = -g)
    \/ /\ (p[1] = a /\ q[1] = g) \/ (p[1] = -a /\ q[1] = -g)
       /\ (p[2] = b /\ q[2] = d) \/ (p[2] = -b /\ q[2] = -d)

LEMMA FlipAlike ==
  ASSUME NEW w \in BOOLEAN, NEW m \in {1, -1}, NEW n \in {1, -1},
         NEW a \in Int, NEW b \in Int, NEW g \in Int, NEW d \in Int,
         NEW p, p = Flip(w, m, n, a, b), NEW q, q = Flip(w, m, n, g, d)
  PROVE  FlippedAlike(p, q, a, b, g, d)
<1>1. 1 # -1 /\ (m = 1 \/ m = -1) /\ (n = 1 \/ n = -1)
  OBVIOUS
<1>2. /\ w => /\ (m = 1 /\ p[1] = b) \/ (m = -1 /\ p[1] = -b)
              /\ (n = 1 /\ p[2] = a) \/ (n = -1 /\ p[2] = -a)
      /\ ~w => /\ (m = 1 /\ p[1] = a) \/ (m = -1 /\ p[1] = -a)
               /\ (n = 1 /\ p[2] = b) \/ (n = -1 /\ p[2] = -b)
  BY FlipIs
<1>3. /\ w => /\ (m = 1 /\ q[1] = d) \/ (m = -1 /\ q[1] = -d)
              /\ (n = 1 /\ q[2] = g) \/ (n = -1 /\ q[2] = -g)
      /\ ~w => /\ (m = 1 /\ q[1] = g) \/ (m = -1 /\ q[1] = -g)
               /\ (n = 1 /\ q[2] = d) \/ (n = -1 /\ q[2] = -d)
  BY FlipIs
<1> QED BY <1>1, <1>2, <1>3, Zenon DEF FlippedAlike

LEMMA FlipNextTo ==
  ASSUME NEW w \in BOOLEAN, NEW m \in {1, -1}, NEW n \in {1, -1},
         NEW a \in Int, NEW b \in Int, NEW g \in Int, NEW d \in Int,
         R!NextTo(<<a, b>>, <<g, d>>)
  PROVE  R!NextTo(Flip(w, m, n, a, b), Flip(w, m, n, g, d))
<1>1. PICK p, q : p = Flip(w, m, n, a, b) /\ q = Flip(w, m, n, g, d)
  OBVIOUS
<1>2. /\ a # g \/ b # d
      /\ a - g <= 1 /\ g - a <= 1 /\ b - d <= 1 /\ d - b <= 1
  BY DEF R!NextTo, R!Abs
<1>3. FlippedAlike(p, q, a, b, g, d)
  BY <1>1, FlipAlike
<1>4. p[1] # q[1] \/ p[2] # q[2]
  BY <1>2, <1>3 DEF FlippedAlike
<1>5. R!Abs(p[1] - q[1]) <= 1 /\ R!Abs(p[2] - q[2]) <= 1
  BY <1>2, <1>3 DEF R!Abs, FlippedAlike
<1> QED BY <1>1, <1>4, <1>5 DEF R!NextTo

LEMMA FlipDiffers ==
  ASSUME NEW w \in BOOLEAN, NEW m \in {1, -1}, NEW n \in {1, -1},
         NEW a \in Int, NEW b \in Int, NEW g \in Int, NEW d \in Int, a # g \/ b # d
  PROVE  Flip(w, m, n, a, b) # Flip(w, m, n, g, d)
<1>1. PICK p, q : p = Flip(w, m, n, a, b) /\ q = Flip(w, m, n, g, d)
  OBVIOUS
<1>2. FlippedAlike(p, q, a, b, g, d)
  BY <1>1, FlipAlike
<1> QED BY <1>1, <1>2 DEF FlippedAlike

LEMMA FlipSquares ==
  ASSUME NEW w \in BOOLEAN, NEW m \in {1, -1}, NEW n \in {1, -1}, NEW a \in Int, NEW b \in Int,
         NEW p, p = Flip(w, m, n, a, b)
  PROVE  p[1] * p[1] + p[2] * p[2] = a * a + b * b
<1>1. (-a) * (-a) = a * a /\ (-b) * (-b) = b * b /\ a * a \in Int /\ b * b \in Int
  BY TimesSign
<1>2. Parts(p, a, b)
  BY FlipParts
<1>3. \/ p[1] * p[1] = b * b /\ p[2] * p[2] = a * a
      \/ p[1] * p[1] = a * a /\ p[2] * p[2] = b * b
  BY <1>1, <1>2 DEF Parts
<1> QED BY <1>1, <1>3

(* The error of a turn, which is that of the circle and twice the way come,  *)
(* keeps its pixels on the rim.                                              *)
ErrOf(a, b, r) == a * a + b * b - r * r + 2 * b + 2 * (r - a)
ErrBounds(a, b, e, r) ==
    /\ a - b >= 2 => e <= a - 1
    /\ a - b = 1 => e <= a
    /\ a = b => e <= a + 2
    /\ a = r => e >= b
    /\ a < r => e >= 2 - a

OnRim(r, p) ==
    /\ p \in R!Disc(r) \/ \E q \in R!Disc(r) : R!NextTo(p, q)
    /\ p \notin R!Disc(r - 2)

LEMMA TurnOnRim ==
  ASSUME NEW r \in Nat, NEW a \in Nat, NEW b \in Nat, a >= b, a <= r,
         NEW e \in Int, e = ErrOf(a, b, r), ErrBounds(a, b, e, r), NEW p \in R!Octants(a, b)
  PROVE  OnRim(r, p)
<1>1. PICK w \in BOOLEAN, m \in {1, -1}, n \in {1, -1} : p = Flip(w, m, n, a, b)
  BY OctantFlips
<1>2. PICK s \in Int, t \in Int, z \in Int : s = a * a /\ t = b * b /\ z = r * r
  OBVIOUS
<1>3. (a - 1) * (a - 1) = s - 2 * a + 1 /\ (r - 2) * (r - 2) = z - 4 * r + 4
  <2>1. (a - 1) * (a - 1) = a * a - 2 * a + 1 /\ (r - 2) * (r - 2) = r * r - 4 * r + 4
    OBVIOUS
  <2> QED BY <1>2, <2>1
<1>4. e = s + t - z + 2 * b + 2 * (r - a)
  BY <1>2 DEF ErrOf
<1>5. p[1] * p[1] + p[2] * p[2] = s + t
  BY <1>1, <1>2, FlipSquares
<1>6. p \in R!Disc(r) \/ \E q \in R!Disc(r) : R!NextTo(p, q)
  <2>1. CASE a = 0
    <3>1. b = 0 /\ s = 0 /\ t = 0 /\ z >= 0
      BY <1>2, <2>1
    <3>2. p = <<p[1], p[2]>> /\ p[1] = 0 /\ p[2] = 0
      <4>1. Parts(p, a, b)
        BY <1>1, FlipParts
      <4> QED BY <2>1, <3>1, <4>1 DEF Parts
    <3>3. 0 \in -r .. r
      OBVIOUS
    <3> QED BY <1>2, <1>5, <3>1, <3>2, <3>3 DEF R!Disc
  <2>2. CASE a # 0
    <3>1. PICK q : q = Flip(w, m, n, a - 1, b)
      OBVIOUS
    <3>2. q[1] * q[1] + q[2] * q[2] = s - 2 * a + 1 + t
      BY <1>2, <1>3, <3>1, FlipSquares
    <3>3. s - 2 * a + 1 + t <= z
      BY <1>4, <2>2 DEF ErrBounds
    <3>4. q = <<q[1], q[2]>> /\ q[1] \in -r .. r /\ q[2] \in -r .. r
      <4>1. Parts(q, a - 1, b)
        BY <3>1, FlipParts
      <4> QED BY <2>2, <4>1 DEF Parts
    <3>5. q \in R!Disc(r)
      BY <1>2, <3>2, <3>3, <3>4 DEF R!Disc
    <3>6. R!NextTo(<<a, b>>, <<a - 1, b>>)
      BY DEF R!NextTo, R!Abs
    <3>7. R!NextTo(p, q)
      BY <1>1, <3>1, <3>6, FlipNextTo
    <3> QED BY <3>5, <3>7
  <2> QED BY <2>1, <2>2
<1>7. p \notin R!Disc(r - 2)
  <2>1. SUFFICES ASSUME p \in R!Disc(r - 2) PROVE FALSE
    OBVIOUS
  <2>2. r >= 2 /\ s + t <= z - 4 * r + 4
    <3>1. p[1] \in -(r - 2) .. (r - 2) /\ p[1] * p[1] + p[2] * p[2] <= (r - 2) * (r - 2)
      BY <2>1 DEF R!Disc
    <3> QED BY <1>3, <1>5, <3>1
  <2>3. a = r \/ a < r
    OBVIOUS
  <2> QED BY <1>4, <2>2, <2>3 DEF ErrBounds
<1> QED BY <1>6, <1>7 DEF OnRim

(* A neighbour of a pixel that is lit with all its mirror images.            *)
Beside(a, b, s, u, v) ==
    /\ u \in Int /\ v \in Int /\ R!NextTo(<<a, b>>, <<u, v>>)
    /\ \E g, h \in Int : <<u, v>> \in R!Octants(g, h) /\ R!Octants(g, h) \subseteq s

LEMMA BesideFlips ==
  ASSUME NEW a \in Int, NEW b \in Int, NEW s, NEW u, NEW v, Beside(a, b, s, u, v),
         NEW w \in BOOLEAN, NEW m \in {1, -1}, NEW n \in {1, -1}
  PROVE  /\ Flip(w, m, n, u, v) \in s
         /\ R!NextTo(Flip(w, m, n, a, b), Flip(w, m, n, u, v))
<1>1. u \in Int /\ v \in Int /\ R!NextTo(<<a, b>>, <<u, v>>)
  BY DEF Beside
<1>2. PICK g \in Int, h \in Int : <<u, v>> \in R!Octants(g, h) /\ R!Octants(g, h) \subseteq s
  BY Zenon DEF Beside
<1>3. Flip(w, m, n, u, v) \in R!Octants(g, h)
  BY <1>1, <1>2, FlippedOctant
<1>4. R!NextTo(Flip(w, m, n, a, b), Flip(w, m, n, u, v))
  BY <1>1, FlipNextTo
<1> QED BY <1>2, <1>3, <1>4

LEMMA BesideIs ==
  ASSUME NEW a, NEW b, NEW s, NEW u \in Int, NEW v \in Int, NEW g \in Int, NEW h \in Int,
         <<u, v>> \in R!Octants(g, h), R!Octants(g, h) \subseteq s,
         R!NextTo(<<a, b>>, <<u, v>>)
  PROVE  Beside(a, b, s, u, v)
  BY Zenon DEF Beside

(* A pixel has two neighbours when the one it mirrors has.                   *)
TwoBeside(a, b, s) ==
    \E u1, v1, u2, v2 \in Int :
        Beside(a, b, s, u1, v1) /\ Beside(a, b, s, u2, v2) /\ (u1 # u2 \/ v1 # v2)

LEMMA TwoBesideIs ==
  ASSUME NEW a, NEW b, NEW s, NEW u1 \in Int, NEW v1 \in Int, NEW u2 \in Int, NEW v2 \in Int,
         Beside(a, b, s, u1, v1), Beside(a, b, s, u2, v2), u1 # u2 \/ v1 # v2
  PROVE  TwoBeside(a, b, s)
  BY Zenon DEF TwoBeside

LEMMA TwoNext ==
  ASSUME NEW a \in Int, NEW b \in Int, NEW p \in R!Octants(a, b), NEW s,
         TwoBeside(a, b, s)
  PROVE  \E q1, q2 \in s : q1 # q2 /\ R!NextTo(p, q1) /\ R!NextTo(p, q2)
<1>1. PICK w \in BOOLEAN, m \in {1, -1}, n \in {1, -1} : p = Flip(w, m, n, a, b)
  BY OctantFlips
<1>2. PICK u1 \in Int, v1 \in Int, u2 \in Int, v2 \in Int :
        Beside(a, b, s, u1, v1) /\ Beside(a, b, s, u2, v2) /\ (u1 # u2 \/ v1 # v2)
  BY Zenon DEF TwoBeside
<1>3. Flip(w, m, n, u1, v1) \in s /\ R!NextTo(p, Flip(w, m, n, u1, v1))
  BY <1>1, <1>2, BesideFlips, Zenon
<1>4. Flip(w, m, n, u2, v2) \in s /\ R!NextTo(p, Flip(w, m, n, u2, v2))
  BY <1>1, <1>2, BesideFlips, Zenon
<1>5. Flip(w, m, n, u1, v1) # Flip(w, m, n, u2, v2)
  BY <1>2, FlipDiffers
<1> QED BY <1>3, <1>4, <1>5, Zenon

LEMMA OctantHas ==
  ASSUME NEW a \in Int, NEW b \in Int
  PROVE  /\ <<a, b>> \in R!Octants(a, b) /\ <<b, a>> \in R!Octants(a, b)
         /\ <<a, -b>> \in R!Octants(a, b) /\ <<b, -a>> \in R!Octants(a, b)
  BY DEF R!Octants

LEMMA NextToIs ==
  ASSUME NEW a \in Int, NEW b \in Int, NEW u \in Int, NEW v \in Int, a # u \/ b # v,
         a - u <= 1, u - a <= 1, b - v <= 1, v - b <= 1
  PROVE  R!NextTo(<<a, b>>, <<u, v>>)
  BY DEF R!NextTo, R!Abs

(* The neighbour behind, for a pixel that is not the first.                  *)
LEMMA Behind ==
  ASSUME NEW a \in Int, NEW b \in Int, NEW s, NEW g \in Int, g = a \/ g = a + 1,
         R!Octants(g, b - 1) \subseteq s
  PROVE  Beside(a, b, s, g, b - 1)
<1>1. b - 1 \in Int /\ (a # g \/ b # b - 1) /\ a - g <= 1 /\ g - a <= 1 /\ b - (b - 1) <= 1
      /\ b - 1 - b <= 1
  OBVIOUS
<1>2. R!NextTo(<<a, b>>, <<g, b - 1>>)
  BY <1>1, NextToIs
<1>3. <<g, b - 1>> \in R!Octants(g, b - 1)
  BY <1>1, OctantHas, Zenon
<1> QED BY <1>1, <1>2, <1>3, BesideIs, Zenon

(* And the one before it.                                                    *)
LEMMA Before ==
  ASSUME NEW a \in Int, NEW b \in Int, NEW s, NEW g \in Int, g = a \/ g = a - 1,
         R!Octants(g, b + 1) \subseteq s
  PROVE  Beside(a, b, s, g, b + 1)
<1>1. b + 1 \in Int /\ (a # g \/ b # b + 1) /\ a - g <= 1 /\ g - a <= 1 /\ b - (b + 1) <= 1
      /\ b + 1 - b <= 1
  OBVIOUS
<1>2. R!NextTo(<<a, b>>, <<g, b + 1>>)
  BY <1>1, NextToIs
<1>3. <<g, b + 1>> \in R!Octants(g, b + 1)
  BY <1>1, OctantHas, Zenon
<1> QED BY <1>1, <1>2, <1>3, BesideIs, Zenon

(* Every pixel but the first octant's ends has a neighbour behind it and one *)
(* before it; at the ends the octants meet, and a neighbour is mirrored.     *)
LEMMA LinkedBoth ==
  ASSUME NEW a \in Nat, NEW b \in Nat, a >= b, NEW s, R!Octants(a, b) \subseteq s,
         b = 0 => a > 0,
         b > 0 => \E g \in {a, a + 1} : R!Octants(g, b - 1) \subseteq s,
         (\E g \in {a, a - 1} : R!Octants(g, b + 1) \subseteq s) \/ a = b \/ a = b + 1
  PROVE  TwoBeside(a, b, s)
<1>1. ASSUME b > 0
      PROVE  \E h \in Int : (h = a \/ h = a + 1) /\ R!Octants(h, b - 1) \subseteq s
                            /\ Beside(a, b, s, h, b - 1)
  <2>1. PICK h \in {a, a + 1} : R!Octants(h, b - 1) \subseteq s
    BY <1>1
  <2>2. h \in Int /\ (h = a \/ h = a + 1) /\ a \in Int /\ b \in Int
    BY <2>1
  <2>3. Beside(a, b, s, h, b - 1)
    BY <2>1, <2>2, Behind, Zenon
  <2> QED BY <2>1, <2>2, <2>3, Zenon
<1>2. ASSUME NEW g \in {a, a - 1}, R!Octants(g, b + 1) \subseteq s
      PROVE  TwoBeside(a, b, s)
  <2>1. g \in Int /\ (g = a \/ g = a - 1) /\ a \in Int /\ b \in Int /\ b + 1 \in Int
        /\ b - 1 \in Int /\ b - 1 # b + 1
    BY <1>2
  <2>2. Beside(a, b, s, g, b + 1)
    BY <1>2, <2>1, Before, Zenon
  <2>3. CASE b > 0
    <3>1. PICK h \in Int : Beside(a, b, s, h, b - 1)
      BY <1>1, <2>3, Zenon
    <3> QED BY <2>1, <2>2, <3>1, TwoBesideIs, Zenon
  <2>4. CASE b = 0
    <3>1. 1 # -1 /\ -1 \in Int /\ 1 \in Int
      OBVIOUS
    <3>2. <<g, -1>> \in R!Octants(g, 1)
      BY <2>1, <3>1, OctantHas, Zenon
    <3>3. R!Octants(g, 1) \subseteq s /\ Beside(a, b, s, g, 1)
      BY <1>2, <2>2, <2>4
    <3>4. R!NextTo(<<a, b>>, <<g, -1>>)
      BY <2>1, <2>4, NextToIs
    <3>5. Beside(a, b, s, g, -1)
      BY <2>1, <3>1, <3>2, <3>3, <3>4, BesideIs, Zenon
    <3> QED BY <2>1, <3>1, <3>3, <3>5, TwoBesideIs, Zenon
  <2> QED BY <2>3, <2>4
<1>3. ASSUME a = b \/ a = b + 1
      PROVE  TwoBeside(a, b, s)
  <2>1. CASE b > 0
    <3>1. PICK h \in Int : (h = a \/ h = a + 1) /\ R!Octants(h, b - 1) \subseteq s
                           /\ Beside(a, b, s, h, b - 1)
      BY <1>1, <2>1, Zenon
    <3>2. b - 1 \in Int /\ a \in Int /\ b \in Int
      OBVIOUS
    <3>3. CASE a = b
      <4>1. <<b - 1, h>> \in R!Octants(h, b - 1)
        BY <3>1, <3>2, OctantHas, Zenon
      <4>2. R!NextTo(<<a, b>>, <<b - 1, h>>) /\ h # b - 1
        BY <3>1, <3>2, <3>3, NextToIs
      <4>3. Beside(a, b, s, b - 1, h)
        BY <3>1, <3>2, <4>1, <4>2, BesideIs, Zenon
      <4> QED BY <3>1, <3>2, <4>2, <4>3, TwoBesideIs, Zenon
    <3>4. CASE a = b + 1
      <4>1. b - 1 # a
        BY <3>4
      <4>2. <<b, a>> \in R!Octants(a, b)
        BY <3>2, OctantHas, Zenon
      <4>3. R!NextTo(<<a, b>>, <<b, a>>)
        BY <3>4, NextToIs
      <4>4. Beside(a, b, s, b, a)
        BY <3>2, <4>2, <4>3, BesideIs, Zenon
      <4> QED BY <3>1, <3>2, <4>1, <4>4, TwoBesideIs, Zenon
    <3> QED BY <1>3, <3>3, <3>4
  <2>2. CASE b = 0
    <3>1. a = 1 /\ 0 \in Int /\ 1 \in Int /\ -1 \in Int /\ 1 # -1
      BY <1>3, <2>2
    <3>2. <<0, 1>> \in R!Octants(1, 0) /\ <<0, -1>> \in R!Octants(1, 0)
      BY <3>1, OctantHas
    <3>3. R!NextTo(<<1, 0>>, <<0, 1>>) /\ R!NextTo(<<1, 0>>, <<0, -1>>)
      BY <3>1, NextToIs
    <3>4. R!Octants(1, 0) \subseteq s
      BY <2>2, <3>1
    <3>5. Beside(1, 0, s, 0, 1) /\ Beside(1, 0, s, 0, -1)
      BY <3>1, <3>2, <3>3, <3>4, BesideIs, Zenon
    <3>6. TwoBeside(1, 0, s)
      BY <3>1, <3>5, TwoBesideIs, Zenon
    <3> QED BY <2>2, <3>1, <3>6
  <2> QED BY <2>1, <2>2
<1> QED BY <1>2, <1>3, Zenon

(* A circle in progress.                                                     *)
Linked(a, b) ==
    /\ a \in Nat /\ b \in Nat /\ a >= b /\ R!Octants(a, b) \subseteq lit
    /\ b = 0 => a = figure.r
    /\ b > 0 => \E g \in {a, a + 1} : R!Octants(g, b - 1) \subseteq lit
    /\ \/ \E g \in {a, a - 1} : R!Octants(g, b + 1) \subseteq lit
       \/ y = b + 1 /\ x \in {a, a - 1}

CircleIs(f) == f = [kind |-> f.kind, r |-> f.r] /\ f.r \in Int

CircleRuns ==
    /\ x \in Int /\ y \in Nat /\ err \in Int
    /\ figure.r < 0 => lit = {} /\ x = figure.r /\ y = 0
    /\ figure.r >= 0 =>
          /\ x <= figure.r /\ err = ErrOf(x, y, figure.r) /\ ErrBounds(x, y, err, figure.r)
          /\ y = 0 => x = figure.r
          /\ y > 0 => \E g \in {x, x + 1} : R!Octants(g, y - 1) \subseteq lit
          /\ \A p \in lit : /\ OnRim(figure.r, p)
                            /\ \E a, b : Linked(a, b) /\ p \in R!Octants(a, b)

CircleInv ==
    /\ figure.kind \in {"circle", "drawn_circle"} => CircleIs(figure)
    /\ figure.kind = "circle" => CircleRuns
    /\ figure.kind = "drawn_circle" => R!Ring(figure.r)

LEMMA LineInvStep ==
  ASSUME LineInv, CircleInv, [R!Next]_(R!rasterVars)
  PROVE  LineInv'
<1>1. ASSUME figure' # R!NoFigure, figure'.kind \notin {"line", "drawn_line"}, driver' = driver
      PROVE  LineInv'
  BY <1>1 DEF LineInv
<1>2. R!NoFigure.kind = "none"
  BY DEF R!NoFigure
<1>3. CASE \E x0, y0, x1, y1 \in Coord : R!draw_line(x0, y0, x1, y1)
  BY <1>3, LineBegins
<1>4. CASE R!LineTurn
  BY <1>4, LineTurned
<1>5. CASE R!LineEnd
  BY <1>5, LineEnds
<1>6. CASE \E r \in Radius : R!draw_circle(r)
  <2>1. figure'.kind = "circle" /\ driver' = driver
    BY <1>6 DEF R!draw_circle
  <2> QED BY <1>1, <1>2, <2>1
<1>7. CASE R!CircleTurn
  <2>1. figure'.kind = "circle" /\ driver' = driver
    BY <1>7 DEF R!CircleTurn
  <2> QED BY <1>1, <1>2, <2>1
<1>8. CASE R!CircleEnd
  <2>1. figure.kind = "circle" /\ figure' = [figure EXCEPT !.kind = "drawn_circle"]
        /\ driver' = driver
    BY <1>8 DEF R!CircleEnd
  <2>2. PICK f : f = figure /\ f = [kind |-> f.kind, r |-> f.r]
    BY <2>1 DEF CircleInv, CircleIs
  <2>3. figure'.kind = "drawn_circle"
    BY <2>1, <2>2
  <2> QED BY <1>1, <1>2, <2>1, <2>3
<1>9. CASE UNCHANGED R!rasterVars
  <2>1. /\ driver' = driver /\ figure' = figure /\ x' = x /\ y' = y /\ err' = err /\ lit' = lit
    BY <1>9 DEF R!rasterVars
  <2> QED
    BY <2>1 DEF LineInv, EndsWell, R!Ends64, R!Dx, R!Dy, RunsAway, Under, ErrIs, R!IdealLine
<1> QED BY <1>3, <1>4, <1>5, <1>6, <1>7, <1>8, <1>9 DEF R!Next

LEMMA LineInvAnswers ==
  ASSUME LineInv
  PROVE  LinesEnd
<1>1. ASSUME R!PastEnd PROVE driver = "fb64" /\ ~R!Ends64(figure)
  <2>1. PICK f : f = figure
    OBVIOUS
  <2>2. f.kind = "line" /\ ((x - f.x1) * f.sx > 0 \/ (y - f.y1) * f.sy > 0)
    BY <1>1, <2>1 DEF R!PastEnd
  <2>3. /\ LineIs(f) /\ driver \in {"fb", "fb64"}
        /\ IF EndsWell THEN \E u, v : Under(u, v) ELSE RunsAway
    BY <2>1, <2>2 DEF LineInv
  <2>4. ASSUME NEW u, NEW v, Under(u, v) PROVE FALSE
    <3>1. OnLine(u, v, Wide(f), High(f)) /\ <<x, y>> = Pos(f, u, v)
      BY <2>1, <2>4 DEF Under
    <3>2. /\ u \in Nat /\ v \in Nat /\ Wide(f) \in Nat /\ High(f) \in Nat
          /\ u <= Wide(f) /\ v <= High(f)
      BY <3>1 DEF OnLine
    <3>3. x = Pos(f, u, v)[1] /\ y = Pos(f, u, v)[2] /\ f.x0 \in Int /\ f.y0 \in Int
      BY <2>3, <3>1, LineFacts
    <3>4. ~((x - f.x1) * f.sx > 0)
      <4>1. \/ f.sx = 1 /\ x - f.x1 = u - Wide(f)
            \/ f.sx = -1 /\ x - f.x1 = Wide(f) - u
        BY <2>3, <3>2, <3>3, PosIs
      <4> QED BY <3>2, <4>1
    <3>5. ~((y - f.y1) * f.sy > 0)
      <4>1. \/ f.sy = 1 /\ y - f.y1 = v - High(f)
            \/ f.sy = -1 /\ y - f.y1 = High(f) - v
        BY <2>3, <3>2, <3>3, PosIs
      <4> QED BY <3>2, <4>1
    <3> QED BY <2>2, <3>4, <3>5
  <2>5. ~EndsWell
    BY <2>3, <2>4
  <2> QED BY <2>3, <2>5 DEF EndsWell
<1>2. figure.kind = "drawn_line" => R!IdealLine(figure) /\ (driver = "fb" \/ R!Ends64(figure))
  BY DEF LineInv, EndsWell
<1> QED BY <1>1, <1>2 DEF LinesEnd, R!LinesEnd

LEMMA CircleBegins ==
  ASSUME LineInv, NEW r \in Radius, R!draw_circle(r)
  PROVE  CircleInv'
<1>1. r \in Int
  BY FramebufferAssumption DEF R!RasterAssumption
<1>2. /\ lit' = {} /\ x' = r /\ y' = 0 /\ err' = 0 /\ figure' = [kind |-> "circle", r |-> r]
  BY DEF R!draw_circle, LineInv
<1>3. PICK f : f = figure'
  OBVIOUS
<1>4. f.kind = "circle" /\ f.r = r /\ CircleIs(f)
  BY <1>1, <1>2, <1>3 DEF CircleIs
<1>5. ASSUME r >= 0 PROVE 0 = ErrOf(r, 0, r) /\ ErrBounds(r, 0, 0, r)
  <2>1. 0 * 0 = 0 /\ r * r \in Int
    BY <1>1
  <2> QED BY <1>1, <1>5, <2>1 DEF ErrOf, ErrBounds
<1>6. CircleRuns'
  BY <1>1, <1>2, <1>3, <1>4, <1>5 DEF CircleRuns
<1> QED BY <1>3, <1>4, <1>6 DEF CircleInv

LEMMA CircleTurned ==
  ASSUME CircleInv, R!CircleTurn
  PROVE  CircleInv'
<1>1. PICK r, a, b, e : r = figure.r /\ a = x /\ b = y /\ e = err
  OBVIOUS
<1>2. CircleIs(figure) /\ CircleRuns /\ figure.kind = "circle" /\ figure' = figure /\ a >= b
  BY <1>1 DEF CircleInv, R!CircleTurn
<1>3. a \in Int /\ b \in Nat /\ e \in Int /\ r \in Int
  BY <1>1, <1>2 DEF CircleRuns, CircleIs
<1>4. r >= 0
  BY <1>1, <1>2, <1>3 DEF CircleRuns
<1>5. /\ a <= r /\ e = ErrOf(a, b, r) /\ ErrBounds(a, b, e, r)
      /\ b = 0 => a = r
      /\ b > 0 => \E g \in {a, a + 1} : R!Octants(g, b - 1) \subseteq lit
      /\ \A p \in lit : OnRim(r, p) /\ \E i, j : Linked(i, j) /\ p \in R!Octants(i, j)
  BY <1>1, <1>2, <1>4 DEF CircleRuns
<1>6. PICK k : k = e + 1 + 2 * (b + 1)
  OBVIOUS
<1>7. /\ x' = (IF 2 * (k - a) + 1 > 0 THEN a - 1 ELSE a)
      /\ err' = (IF 2 * (k - a) + 1 > 0 THEN k + 1 - 2 * (a - 1) ELSE k)
      /\ y' = b + 1 /\ lit' = lit \cup R!Octants(a, b)
  BY <1>1, <1>6 DEF R!CircleTurn
<1>8. PICK a2, e2 : a2 = x' /\ e2 = err'
  OBVIOUS
<1>9. a2 \in {a, a - 1} /\ a2 \in Int /\ e2 \in Int /\ a2 <= r /\ b + 1 \in Nat
  BY <1>3, <1>5, <1>6, <1>7, <1>8
<1>10. e2 = ErrOf(a2, b + 1, r)
  <2>1. PICK s \in Int, t \in Int, z \in Int : s = a * a /\ t = b * b /\ z = r * r
    BY <1>3
  <2>2. (a - 1) * (a - 1) = s - 2 * a + 1 /\ (b + 1) * (b + 1) = t + 2 * b + 1
    <3>1. (a - 1) * (a - 1) = a * a - 2 * a + 1 /\ (b + 1) * (b + 1) = b * b + 2 * b + 1
      BY <1>3
    <3> QED BY <2>1, <3>1
  <2>3. e = s + t - z + 2 * b + 2 * (r - a)
    BY <1>5, <2>1 DEF ErrOf
  <2>4. CASE 2 * (k - a) + 1 > 0
    <3>1. a2 = a - 1 /\ e2 = k + 1 - 2 * (a - 1)
      BY <1>7, <1>8, <2>4
    <3>2. a2 * a2 = s - 2 * a + 1
      BY <2>2, <3>1
    <3> QED BY <1>3, <1>6, <2>1, <2>2, <2>3, <3>1, <3>2 DEF ErrOf
  <2>5. CASE ~(2 * (k - a) + 1 > 0)
    <3>1. a2 = a /\ e2 = k
      BY <1>7, <1>8, <2>5
    <3> QED BY <1>3, <1>6, <2>1, <2>2, <2>3, <3>1 DEF ErrOf
  <2> QED BY <2>4, <2>5
<1>11. ErrBounds(a2, b + 1, e2, r)
  BY <1>2, <1>3, <1>5, <1>6, <1>7, <1>8 DEF ErrBounds
<1>12. R!Octants(a, b) \subseteq lit' /\ lit \subseteq lit'
  BY <1>7
<1>13. ASSUME NEW i, NEW j, Linked(i, j) PROVE Linked(i, j)'
  <2>1. /\ i \in Nat /\ j \in Nat /\ i >= j /\ R!Octants(i, j) \subseteq lit
        /\ j = 0 => i = figure.r
        /\ j > 0 => \E g \in {i, i + 1} : R!Octants(g, j - 1) \subseteq lit
        /\ \/ \E g \in {i, i - 1} : R!Octants(g, j + 1) \subseteq lit
           \/ y = j + 1 /\ x \in {i, i - 1}
    BY <1>13 DEF Linked
  <2>2. /\ R!Octants(i, j) \subseteq lit'
        /\ j > 0 => \E g \in {i, i + 1} : R!Octants(g, j - 1) \subseteq lit'
    BY <1>12, <2>1
  <2>3. \E g \in {i, i - 1} : R!Octants(g, j + 1) \subseteq lit'
    BY <1>1, <1>12, <2>1
  <2> QED BY <1>2, <2>1, <2>2, <2>3 DEF Linked, R!Octants
<1>14. Linked(a, b)'
  <2>1. y' = b + 1 /\ x' \in {a, a - 1} /\ a \in Nat
    BY <1>2, <1>3, <1>7, <1>8, <1>9
  <2>2. b > 0 => \E g \in {a, a + 1} : R!Octants(g, b - 1) \subseteq lit'
    BY <1>5, <1>12
  <2> QED BY <1>1, <1>2, <1>3, <1>5, <1>12, <2>1, <2>2 DEF Linked, R!Octants
<1>15. ASSUME NEW p \in lit' PROVE OnRim(r, p) /\ \E i, j : Linked(i, j)' /\ p \in R!Octants(i, j)
  <2>1. CASE p \in lit
    BY <1>5, <1>13, <2>1
  <2>2. CASE p \in R!Octants(a, b)
    <3>1. r \in Nat /\ a \in Nat
      BY <1>2, <1>3, <1>4
    <3>2. OnRim(r, p)
      BY <1>2, <1>3, <1>5, <2>2, <3>1, TurnOnRim
    <3> QED BY <1>14, <2>2, <3>2
  <2> QED BY <1>7, <2>1, <2>2
<1>16. \E g \in {a2, a2 + 1} : R!Octants(g, (b + 1) - 1) \subseteq lit'
  <2>1. (b + 1) - 1 = b /\ a \in {a2, a2 + 1}
    BY <1>3, <1>9
  <2> QED BY <1>12, <2>1
<1>17. CircleRuns'
  <2>1. ~(r < 0) /\ b + 1 # 0
    BY <1>3, <1>4
  <2>2. figure'.r = r /\ x' = a2 /\ y' = b + 1 /\ err' = e2
    BY <1>1, <1>2, <1>7, <1>8
  <2> QED BY <1>9, <1>10, <1>11, <1>15, <1>16, <2>1, <2>2 DEF CircleRuns, R!Octants
<1> QED BY <1>2, <1>17 DEF CircleInv

LEMMA CircleEnds ==
  ASSUME CircleInv, R!CircleEnd
  PROVE  CircleInv'
<1>1. PICK r : r = figure.r
  OBVIOUS
<1>2. /\ CircleIs(figure) /\ CircleRuns /\ lit' = lit /\ x < y
      /\ figure' = [figure EXCEPT !.kind = "drawn_circle"]
  BY DEF CircleInv, R!CircleEnd
<1>3. x \in Int /\ y \in Nat /\ r \in Int
  BY <1>1, <1>2 DEF CircleRuns, CircleIs
<1>4. PICK g : g = figure'
  OBVIOUS
<1>5. g = [kind |-> "drawn_circle", r |-> r]
  <2>1. PICK f : f = figure /\ f = [kind |-> f.kind, r |-> f.r]
    BY <1>2 DEF CircleIs
  <2> QED BY <1>1, <1>2, <1>4, <2>1
<1>6. g.kind = "drawn_circle" /\ g.r = r /\ CircleIs(g)
  BY <1>3, <1>5 DEF CircleIs
<1>7. r < 0 => lit = {}
  BY <1>1, <1>2 DEF CircleRuns
<1>8. ASSUME NEW p \in lit
      PROVE  /\ OnRim(r, p)
             /\ r > 0 => \E q1, q2 \in lit : q1 # q2 /\ R!NextTo(p, q1) /\ R!NextTo(p, q2)
  <2>1. r >= 0
    BY <1>3, <1>7
  <2>2. OnRim(r, p) /\ \E a, b : Linked(a, b) /\ p \in R!Octants(a, b)
    BY <1>1, <1>2, <2>1 DEF CircleRuns
  <2>3. PICK a, b : Linked(a, b) /\ p \in R!Octants(a, b)
    BY <2>2
  <2>4. ASSUME r > 0
        PROVE  \E q1, q2 \in lit : q1 # q2 /\ R!NextTo(p, q1) /\ R!NextTo(p, q2)
    <3>1. /\ a \in Nat /\ b \in Nat /\ a >= b /\ R!Octants(a, b) \subseteq lit
          /\ b = 0 => a = r
          /\ b > 0 => \E h \in {a, a + 1} : R!Octants(h, b - 1) \subseteq lit
          /\ \/ \E h \in {a, a - 1} : R!Octants(h, b + 1) \subseteq lit
             \/ y = b + 1 /\ x \in {a, a - 1}
      BY <1>1, <2>3 DEF Linked
    <3>2. y = b + 1 /\ x \in {a, a - 1} => a = b \/ a = b + 1
      BY <1>2, <1>3, <3>1
    <3>3. b = 0 => a > 0
      BY <2>4, <3>1
    <3>4. (\E h \in {a, a - 1} : R!Octants(h, b + 1) \subseteq lit) \/ a = b \/ a = b + 1
      BY <3>1, <3>2, Zenon
    <3>5. TwoBeside(a, b, lit)
      BY <3>1, <3>3, <3>4, LinkedBoth
    <3> QED BY <2>3, <3>1, <3>5, TwoNext
  <2> QED BY <2>2, <2>4
<1>9. R!Ring(r)'
  <2>1. ASSUME NEW p \in lit'
        PROVE  /\ p \in R!Disc(r) \/ \E q \in R!Disc(r) : R!NextTo(p, q)
               /\ p \notin R!Disc(r - 2)
               /\ r > 0 => \E q1, q2 \in lit' : q1 # q2 /\ R!NextTo(p, q1) /\ R!NextTo(p, q2)
    BY <1>2, <1>8 DEF OnRim
  <2>2. r < 0 => lit' = {}
    BY <1>2, <1>7
  <2> QED BY <2>1, <2>2, Zenon DEF R!Ring
<1> QED BY <1>4, <1>6, <1>9 DEF CircleInv

LEMMA CircleInvStep ==
  ASSUME LineInv, CircleInv, [R!Next]_(R!rasterVars)
  PROVE  CircleInv'
<1>1. ASSUME figure'.kind \notin {"circle", "drawn_circle"}
      PROVE  CircleInv'
  BY <1>1 DEF CircleInv
<1>2. CASE \E x0, y0, x1, y1 \in Coord : R!draw_line(x0, y0, x1, y1)
  <2>1. figure'.kind = "line"
    BY <1>2 DEF R!draw_line
  <2> QED BY <1>1, <2>1
<1>3. CASE R!LineTurn
  <2>1. figure'.kind = "line"
    BY <1>3 DEF R!LineTurn
  <2> QED BY <1>1, <2>1
<1>4. CASE R!LineEnd
  <2>1. figure.kind = "line" /\ figure' = [figure EXCEPT !.kind = "drawn_line"]
    BY <1>4 DEF R!LineEnd, R!AtEnd
  <2>2. PICK f : /\ f = figure
                 /\ f = [kind |-> f.kind, x0 |-> f.x0, y0 |-> f.y0, x1 |-> f.x1, y1 |-> f.y1,
                         dx |-> f.dx, dy |-> f.dy, sx |-> f.sx, sy |-> f.sy]
    BY <2>1 DEF LineInv, LineIs
  <2>3. figure'.kind = "drawn_line"
    BY <2>1, <2>2
  <2> QED BY <1>1, <2>3
<1>5. CASE \E r \in Radius : R!draw_circle(r)
  BY <1>5, CircleBegins
<1>6. CASE R!CircleTurn
  BY <1>6, CircleTurned
<1>7. CASE R!CircleEnd
  BY <1>7, CircleEnds
<1>8. CASE UNCHANGED R!rasterVars
  <2>1. /\ driver' = driver /\ figure' = figure /\ x' = x /\ y' = y /\ err' = err /\ lit' = lit
    BY <1>8 DEF R!rasterVars
  <2> QED BY <2>1 DEF CircleInv, CircleRuns, Linked, R!Ring
<1> QED BY <1>2, <1>3, <1>4, <1>5, <1>6, <1>7, <1>8 DEF R!Next

LEMMA RasterPart ==
  /\ ScreenInit => R!Init
  /\ [ScreenNext]_screenVars => [R!Next]_(R!rasterVars)
<1>1. ScreenInit => R!Init
  BY Zenon DEF ScreenInit
<1>2. [ScreenNext]_screenVars => R!Next \/ UNCHANGED rasterOwn
  BY Zenon DEF ScreenNext, screenVars, KeyboardStep, ConsoleStep, CanvasStep, RasterStep, BootStep
<1>3. UNCHANGED rasterOwn => UNCHANGED R!rasterVars
  BY DEF rasterOwn, R!rasterVars
<1> QED BY <1>1, <1>2, <1>3

RasterInv == LineInv /\ CircleInv

LEMMA RasterInvInit == R!Init => RasterInv
<1> SUFFICES ASSUME R!Init PROVE RasterInv
  OBVIOUS
<1>1. figure.kind = "none"
  BY DEF R!Init, R!NoFigure
<1> QED BY <1>1, LineInvInit DEF RasterInv, CircleInv

(* RasterInv holds in every state of the composition.                        *)
THEOREM RasterInvariant == ScreenSpec => []RasterInv
<1>1. ScreenInit => RasterInv
  BY RasterInvInit, RasterPart
<1>2. RasterInv /\ [ScreenNext]_screenVars => RasterInv'
  BY LineInvStep, CircleInvStep, RasterPart DEF RasterInv
<1> QED BY <1>1, <1>2, PTL DEF ScreenSpec

(* fb_draw_line never passes the end of a line, between any two points, and  *)
(* the pixels it has drawn are within half a one of the ideal line, one for  *)
(* each step of its longer side; fb64_draw_line finishes only the calls that *)
(* Ends64 names, and passes the end of none of them.                         *)
THEOREM LineCorrect == ScreenSpec => []LinesEnd
<1>1. RasterInv => LinesEnd
  BY LineInvAnswers DEF RasterInv
<1> QED BY <1>1, RasterInvariant, PTL

(* A circle of any radius is closed and within one pixel of the filled one's *)
(* rim.                                                                      *)
THEOREM CircleCorrect == ScreenSpec => []CirclesClose
<1>1. RasterInv => CirclesClose
  BY DEF RasterInv, CircleInv, CirclesClose, R!CirclesClose
<1> QED BY <1>1, RasterInvariant, PTL

(* Every figure of both framebuffer drivers is the one asked for.            *)
THEOREM FiguresCorrect == ScreenSpec => []FiguresRight
<1>1. LinesEnd /\ CirclesClose => FiguresRight
  BY DEF FiguresRight
<1> QED BY <1>1, LineCorrect, CircleCorrect, PTL

-----------------------------------------------------------------------------
(* PanicScreen.  A screen is put together from pieces; what is known of two  *)
(* pieces gives what is known of one behind the other.                       *)
Names ==
    {"background", "title_bar", "box", "button", "top", "bottom", "left", "right", "foot_bar",
     "title", "detected", "halted", "Error_Code", "code", "Description", "description",
     "Exception", "number", "Architecture", "arch", "Fault_Addr", "cr2", "diagnostic", "issue",
     "address", "foot", "EXCEPTION", "REGISTER_DUMP", "label", "RIP", "RSP", "RBP", "RAX",
     "EBX_label", "EBX", "ECX_label", "ECX", "EDX_label", "EDX", "FAULT_ADDRESS",
     "Error_Code_raw", "err_code"}
Boxes == [name : Names, kind : {"fill", "text"}, x : Int, y : Int, w : Int, h : Int]
Excused == {"EBX_label", "EBX", "ECX_label"}

LEMMA FillIs ==
  ASSUME NEW n \in Names, NEW a \in Int, NEW b \in Int, NEW w \in Int, NEW h \in Int
  PROVE  /\ P!Fill(n, a, b, w, h) \in Boxes
         /\ P!Fill(n, a, b, w, h).name = n /\ P!Fill(n, a, b, w, h).kind = "fill"
         /\ P!Fill(n, a, b, w, h).x = a /\ P!Fill(n, a, b, w, h).y = b
         /\ P!Fill(n, a, b, w, h).w = w /\ P!Fill(n, a, b, w, h).h = h
  BY DEF P!Fill, Boxes

LEMMA CaptionIs ==
  ASSUME NEW n \in Names, NEW a \in Int, NEW b \in Int, NEW k \in Int
  PROVE  /\ P!Caption(n, a, b, k) \in Boxes
         /\ P!Caption(n, a, b, k).name = n /\ P!Caption(n, a, b, k).kind = "text"
         /\ P!Caption(n, a, b, k).x = a /\ P!Caption(n, a, b, k).y = b
         /\ P!Caption(n, a, b, k).w = 8 * k /\ P!Caption(n, a, b, k).h = 16
<1>1. P!Caption(n, a, b, k)
        = [name |-> n, kind |-> "text", x |-> a, y |-> b, w |-> k * 8, h |-> 16]
  <2>1. FW = 8 /\ FH = 16
    BY FontAssumption DEF P!CanvasAssumption
  <2> QED BY <2>1, Zenon DEF P!Caption
<1>2. k * 8 = 8 * k /\ k * 8 \in Int
  OBVIOUS
<1> QED BY <1>1, <1>2 DEF Boxes

(* Everything of s is on the screen, not above lo, and no text of it reaches *)
(* below hi or is drawn over by the rest of s, but for the excused ones.     *)
Laid(s, lo, hi) ==
    /\ s \in Seq(Boxes)
    /\ \A i \in DOMAIN s : /\ P!Inside(s[i]) /\ s[i].y >= lo
                           /\ s[i].kind = "text" => s[i].y + s[i].h <= hi
    /\ \A i, j \in DOMAIN s :
          i < j /\ s[i].kind = "text" /\ P!Meet(s[i], s[j]) => s[i].name \in Excused

LEMMA CatIs ==
  ASSUME NEW s \in Seq(Boxes), NEW t \in Seq(Boxes)
  PROVE  /\ s \o t \in Seq(Boxes) /\ Len(s) \in Nat /\ Len(t) \in Nat
         /\ DOMAIN (s \o t) = 1 .. Len(s) + Len(t)
         /\ DOMAIN s = 1 .. Len(s) /\ DOMAIN t = 1 .. Len(t)
         /\ \A i \in 1 .. Len(s) : (s \o t)[i] = s[i]
         /\ \A i \in 1 .. Len(t) : (s \o t)[Len(s) + i] = t[i]
  OBVIOUS

(* An element of the whole is one of s or, further on, one of t.             *)
LEMMA CatParts ==
  ASSUME NEW s \in Seq(Boxes), NEW t \in Seq(Boxes), NEW i \in DOMAIN (s \o t)
  PROVE  \/ i \in DOMAIN s /\ i <= Len(s) /\ (s \o t)[i] = s[i]
         \/ \E k \in DOMAIN t : i = Len(s) + k /\ i > Len(s) /\ (s \o t)[i] = t[k]
<1>1. i \in 1 .. Len(s) + Len(t) /\ Len(s) \in Nat /\ Len(t) \in Nat
  BY CatIs
<1>2. CASE i <= Len(s)
  BY <1>1, <1>2, CatIs
<1>3. CASE i > Len(s)
  <2>1. PICK k \in 1 .. Len(t) : i = Len(s) + k
    <3>1. i - Len(s) \in 1 .. Len(t) /\ i = Len(s) + (i - Len(s))
      BY <1>1, <1>3
    <3> QED BY <3>1
  <2>2. (s \o t)[i] = t[k] /\ k \in DOMAIN t
    BY <2>1, CatIs
  <2> QED BY <1>3, <2>1, <2>2
<1> QED BY <1>1, <1>2, <1>3

(* Two pieces, if nothing of the second meets a text of the first that is    *)
(* not excused.                                                              *)
LEMMA LaidCat ==
  ASSUME NEW s, NEW t, NEW lo \in Int, NEW hi \in Int, NEW mid \in Int, NEW at \in Int,
         Laid(s, lo, mid), Laid(t, at, hi), lo <= at, mid <= hi,
         \A i \in DOMAIN s, j \in DOMAIN t :
             s[i].kind = "text" /\ P!Meet(s[i], t[j]) => s[i].name \in Excused
  PROVE  Laid(s \o t, lo, hi)
<1>1. s \in Seq(Boxes) /\ t \in Seq(Boxes)
  BY DEF Laid
<1> DEFINE u == s \o t
<1>2. u \in Seq(Boxes)
  BY <1>1, CatIs
<1>3. ASSUME NEW i \in DOMAIN u
      PROVE  /\ P!Inside(u[i]) /\ u[i].y >= lo
             /\ u[i].kind = "text" => u[i].y + u[i].h <= hi
  <2>1. CASE i \in DOMAIN s /\ u[i] = s[i]
    <3>1. P!Inside(s[i]) /\ s[i].y >= lo /\ (s[i].kind = "text" => s[i].y + s[i].h <= mid)
      BY <2>1, Zenon DEF Laid
    <3>2. s[i].y \in Int /\ s[i].h \in Int
      <4>1. s[i] \in Boxes
        BY <1>1, <2>1
      <4> QED BY <4>1 DEF Boxes
    <3>3. s[i].y + s[i].h <= mid => s[i].y + s[i].h <= hi
      BY <3>2
    <3> QED BY <2>1, <3>1, <3>3, Zenon
  <2>2. CASE \E k \in DOMAIN t : u[i] = t[k]
    <3>1. PICK k \in DOMAIN t : u[i] = t[k]
      BY <2>2, Zenon
    <3>2. P!Inside(t[k]) /\ t[k].y >= at /\ (t[k].kind = "text" => t[k].y + t[k].h <= hi)
      BY Zenon DEF Laid
    <3>3. t[k].y \in Int
      <4>1. t[k] \in Boxes
        BY <1>1
      <4> QED BY <4>1 DEF Boxes
    <3>4. t[k].y >= at => t[k].y >= lo
      BY <3>3
    <3> QED BY <3>1, <3>2, <3>4, Zenon
  <2> QED BY <1>1, <2>1, <2>2, CatParts, Zenon
<1>4. ASSUME NEW i \in DOMAIN u, NEW j \in DOMAIN u, i < j, u[i].kind = "text",
             P!Meet(u[i], u[j])
      PROVE  u[i].name \in Excused
  <2>1. \/ i \in DOMAIN s /\ i <= Len(s) /\ u[i] = s[i]
        \/ \E k \in DOMAIN t : i = Len(s) + k /\ i > Len(s) /\ u[i] = t[k]
    BY <1>1, CatParts, Zenon
  <2>2. \/ j \in DOMAIN s /\ j <= Len(s) /\ u[j] = s[j]
        \/ \E k \in DOMAIN t : j = Len(s) + k /\ j > Len(s) /\ u[j] = t[k]
    BY <1>1, CatParts, Zenon
  <2> HIDE DEF u
  <2>3. CASE i \in DOMAIN s /\ i <= Len(s) /\ u[i] = s[i]
    <3>1. CASE j \in DOMAIN s /\ j <= Len(s) /\ u[j] = s[j]
      BY <1>4, <2>3, <3>1, Zenon DEF Laid
    <3>2. CASE \E k \in DOMAIN t : j = Len(s) + k /\ j > Len(s) /\ u[j] = t[k]
      BY <1>4, <2>3, <3>2, Zenon
    <3> QED BY <2>2, <3>1, <3>2, Zenon
  <2>4. CASE \E k \in DOMAIN t : i = Len(s) + k /\ i > Len(s) /\ u[i] = t[k]
    <3>1. PICK k \in DOMAIN t : i = Len(s) + k /\ i > Len(s) /\ u[i] = t[k]
      BY <2>4, Zenon
    <3>2. i \in Int /\ j \in Int /\ Len(s) \in Nat /\ DOMAIN t = 1 .. Len(t) /\ Len(t) \in Nat
      BY <1>1, <1>2, CatIs DEF u
    <3>3. ~(j <= Len(s))
      BY <1>4, <3>1, <3>2
    <3>4. PICK l \in DOMAIN t : j = Len(s) + l /\ u[j] = t[l]
      BY <2>2, <3>3, Zenon
    <3>5. k < l
      BY <1>4, <3>1, <3>2, <3>4
    <3> QED BY <1>4, <3>1, <3>4, <3>5, Zenon DEF Laid
  <2> QED BY <2>1, <2>3, <2>4, Zenon
<1> QED BY <1>2, <1>3, <1>4, Zenon DEF Laid

(* The second piece begins where the texts of the first end.                 *)
LEMMA LaidBelow ==
  ASSUME NEW s, NEW t, NEW lo \in Int, NEW hi \in Int, NEW mid \in Int, NEW at \in Int,
         Laid(s, lo, mid), Laid(t, at, hi), lo <= at, mid <= at, mid <= hi
  PROVE  Laid(s \o t, lo, hi)
<1>1. ASSUME NEW i \in DOMAIN s, NEW j \in DOMAIN t, s[i].kind = "text"
      PROVE  ~P!Meet(s[i], t[j])
  <2>1. s[i] \in Boxes /\ t[j] \in Boxes
    BY DEF Laid
  <2>2. s[i].y + s[i].h <= mid /\ t[j].y >= at
    BY <1>1, Zenon DEF Laid
  <2>3. s[i].y \in Int /\ s[i].h \in Int /\ t[j].y \in Int
    BY <2>1 DEF Boxes
  <2>4. ~(t[j].y < s[i].y + s[i].h)
    BY <2>2, <2>3
  <2> QED BY <2>4, Zenon DEF P!Meet
<1> QED BY <1>1, LaidCat, Zenon

LEMMA OneIs ==
  ASSUME NEW T, NEW b \in T
  PROVE  <<b>> \in Seq(T) /\ DOMAIN <<b>> = {1} /\ <<b>>[1] = b
<1>1. <<b>> \in Seq(T) /\ Len(<<b>>) = 1 /\ <<b>>[1] = b
  OBVIOUS
<1>2. DOMAIN <<b>> = 1 .. Len(<<b>>)
  BY <1>1
<1>3. 1 .. 1 = {1}
  OBVIOUS
<1> QED BY <1>1, <1>2, <1>3

LEMMA TwoIs == ASSUME NEW T, NEW b \in T, NEW d \in T PROVE <<b, d>> = <<b>> \o <<d>>
<1>1. <<b>> \in Seq(T) /\ <<d>> \in Seq(T) /\ <<b, d>> \in Seq(T)
  OBVIOUS
<1>2. Len(<<b>> \o <<d>>) = Len(<<b, d>>)
  OBVIOUS
<1>3. ASSUME NEW i \in 1 .. Len(<<b>> \o <<d>>) PROVE (<<b>> \o <<d>>)[i] = <<b, d>>[i]
  <2>1. i = 1 \/ i = 2
    OBVIOUS
  <2> QED BY <2>1
<1>4. <<b>> \o <<d>> \in Seq(T)
  BY <1>1, ConcatProperties, Zenon
<1> QED BY <1>1, <1>2, <1>3, <1>4, SeqEqual

LEMMA LaidOne ==
  ASSUME NEW b \in Boxes, NEW lo \in Int, NEW hi \in Int, P!Inside(b), b.y >= lo,
         b.kind = "text" => b.y + b.h <= hi
  PROVE  Laid(<<b>>, lo, hi)
<1>1. <<b>> \in Seq(Boxes) /\ DOMAIN <<b>> = {1} /\ <<b>>[1] = b
  BY OneIs, Zenon
<1>2. ASSUME NEW i \in DOMAIN <<b>> PROVE <<b>>[i] = b
  BY <1>1
<1>3. ASSUME NEW i \in DOMAIN <<b>>, NEW j \in DOMAIN <<b>> PROVE ~(i < j)
  BY <1>1
<1> QED BY <1>1, <1>2, <1>3, Zenon DEF Laid

LEMMA LaidNone == ASSUME NEW lo, NEW hi PROVE Laid(<<>>, lo, hi)
  BY DEF Laid

(* Two boxes, the first a fill or beside the second.                         *)
LEMMA LaidTwo ==
  ASSUME NEW b \in Boxes, NEW d \in Boxes, NEW lo \in Int, NEW hi \in Int,
         P!Inside(b), b.y >= lo, b.kind = "text" => b.y + b.h <= hi,
         P!Inside(d), d.y >= lo, d.kind = "text" => d.y + d.h <= hi,
         b.kind = "text" /\ P!Meet(b, d) => b.name \in Excused
  PROVE  Laid(<<b, d>>, lo, hi)
<1>1. Laid(<<b>>, lo, hi) /\ Laid(<<d>>, lo, hi)
  BY LaidOne, Zenon
<1>2. /\ \A i \in DOMAIN <<b>> : <<b>>[i] = b
      /\ \A i \in DOMAIN <<d>> : <<d>>[i] = d
  <2>1. /\ DOMAIN <<b>> = {1} /\ <<b>>[1] = b
        /\ DOMAIN <<d>> = {1} /\ <<d>>[1] = d
    BY OneIs, Zenon
  <2> QED BY <2>1, Zenon
<1>3. \A i \in DOMAIN <<b>>, j \in DOMAIN <<d>> :
         <<b>>[i].kind = "text" /\ P!Meet(<<b>>[i], <<d>>[j]) => <<b>>[i].name \in Excused
  BY <1>2, Zenon
<1>4. lo <= lo /\ hi <= hi
  OBVIOUS
<1>5. Laid(<<b>> \o <<d>>, lo, hi)
  BY <1>1, <1>3, <1>4, LaidCat, Zenon
<1> QED BY <1>5, TwoIs, Zenon

-----------------------------------------------------------------------------
(* A screen large enough: pieces of two boxes.                               *)
Large == P!Width \in Nat /\ P!Height \in Nat /\ P!Width >= 640 /\ P!Height >= 480

LEMMA TextsInLine ==
  ASSUME Large, NEW n \in Names, NEW m \in Names, NEW a \in Int, NEW b \in Int, NEW top \in Int,
         NEW k \in Nat, NEW l \in Nat, a + 8 * k <= b, b + 8 * l <= P!Width,
         top + 16 <= P!Height
  PROVE  Laid(<<P!Caption(n, a, top, k), P!Caption(m, b, top, l)>>, top, top + 16)
<1>1. PICK p \in Boxes, q \in Boxes :
        /\ p = P!Caption(n, a, top, k) /\ q = P!Caption(m, b, top, l)
        /\ p.x = a /\ p.y = top /\ p.w = 8 * k /\ p.h = 16
        /\ q.x = b /\ q.y = top /\ q.w = 8 * l /\ q.h = 16
  BY CaptionIs
<1>2. P!Inside(p) /\ P!Inside(q)
  BY <1>1 DEF P!Inside, Large
<1>3. ~P!Meet(p, q)
  BY <1>1 DEF P!Meet
<1>4. top \in Int /\ top + 16 \in Int /\ p.y >= top /\ q.y >= top
      /\ p.y + p.h <= top + 16 /\ q.y + q.h <= top + 16
  BY <1>1
<1>5. Laid(<<p, q>>, top, top + 16)
  BY <1>2, <1>3, <1>4, LaidTwo, Zenon
<1> QED BY <1>1, <1>5, Zenon

LEMMA TextsInColumn ==
  ASSUME Large, NEW n \in Names, NEW m \in Names, NEW a \in Int, NEW b \in Int, NEW top \in Int,
         NEW below \in Int, NEW k \in Nat, NEW l \in Nat, a + 8 * k <= P!Width,
         b + 8 * l <= P!Width, top + 16 <= below, below + 16 <= P!Height
  PROVE  Laid(<<P!Caption(n, a, top, k), P!Caption(m, b, below, l)>>, top, below + 16)
<1>1. PICK p \in Boxes, q \in Boxes :
        /\ p = P!Caption(n, a, top, k) /\ q = P!Caption(m, b, below, l)
        /\ p.x = a /\ p.y = top /\ p.w = 8 * k /\ p.h = 16
        /\ q.x = b /\ q.y = below /\ q.w = 8 * l /\ q.h = 16
  BY CaptionIs
<1>2. P!Inside(p) /\ P!Inside(q)
  BY <1>1 DEF P!Inside, Large
<1>3. ~P!Meet(p, q)
  BY <1>1 DEF P!Meet
<1>4. top \in Int /\ below + 16 \in Int /\ p.y >= top /\ q.y >= top
      /\ p.y + p.h <= below + 16 /\ q.y + q.h <= below + 16
  BY <1>1
<1>5. Laid(<<p, q>>, top, below + 16)
  BY <1>2, <1>3, <1>4, LaidTwo, Zenon
<1> QED BY <1>1, <1>5, Zenon

LEMMA OneText ==
  ASSUME Large, NEW n \in Names, NEW a \in Int, NEW top \in Int, NEW k \in Nat,
         a + 8 * k <= P!Width, top + 16 <= P!Height
  PROVE  Laid(<<P!Caption(n, a, top, k)>>, top, top + 16)
<1>1. PICK p \in Boxes : /\ p = P!Caption(n, a, top, k)
                         /\ p.x = a /\ p.y = top /\ p.w = 8 * k /\ p.h = 16
  BY CaptionIs
<1>2. P!Inside(p)
  BY <1>1 DEF P!Inside, Large
<1>3. top \in Int /\ top + 16 \in Int /\ p.y >= top /\ p.y + p.h <= top + 16
  BY <1>1
<1>4. Laid(<<p>>, top, top + 16)
  BY <1>2, <1>3, LaidOne, Zenon
<1> QED BY <1>1, <1>4, Zenon

(* A centered text lies on the screen, and all but the widest screens cut it.*)
LEMMA CenteredIs ==
  ASSUME P!Width \in Nat, NEW k \in Nat
  PROVE  \E a \in Int : /\ \A n, top : P!Centered(n, top, k) = P!Caption(n, a, top, k)
                        /\ 8 * k <= P!Width => a + 8 * k <= P!Width
<1>1. FW = 8
  BY FontAssumption DEF P!CanvasAssumption
<1>2. PICK a \in Int : a = IF P!Width > k * 8 THEN (P!Width - k * 8) \div 2 ELSE 0
  OBVIOUS
<1>3. 8 * k <= P!Width => a + 8 * k <= P!Width
  BY <1>2
<1>4. ASSUME NEW n, NEW top PROVE P!Centered(n, top, k) = P!Caption(n, a, top, k)
  BY <1>1, <1>2, Zenon DEF P!Centered
<1> QED BY <1>3, <1>4, Zenon

(* Fills, and a fill behind or before a text.                                *)
LEMMA OneFill ==
  ASSUME Large, NEW n \in Names, NEW a \in Int, NEW top \in Int, NEW w \in Int, NEW h \in Int,
         a + w <= P!Width, top + h <= P!Height, NEW hi \in Int
  PROVE  Laid(<<P!Fill(n, a, top, w, h)>>, top, hi)
<1>1. PICK p \in Boxes : /\ p = P!Fill(n, a, top, w, h) /\ p.kind = "fill"
                         /\ p.x = a /\ p.y = top /\ p.w = w /\ p.h = h
  BY FillIs
<1>2. P!Inside(p) /\ p.y >= top /\ ~(p.kind = "text")
  BY <1>1 DEF P!Inside, Large
<1>3. Laid(<<p>>, top, hi)
  BY <1>2, LaidOne, Zenon
<1> QED BY <1>1, <1>3, Zenon

LEMMA TwoFills ==
  ASSUME Large, NEW n \in Names, NEW a \in Int, NEW b \in Int, NEW w \in Int, NEW h \in Int,
         NEW m \in Names, NEW d \in Int, NEW e \in Int, NEW v \in Int, NEW g \in Int,
         a + w <= P!Width, b + h <= P!Height, d + v <= P!Width, e + g <= P!Height,
         NEW lo \in Int, NEW hi \in Int, lo <= b, lo <= e
  PROVE  Laid(<<P!Fill(n, a, b, w, h), P!Fill(m, d, e, v, g)>>, lo, hi)
<1>1. PICK p \in Boxes, q \in Boxes :
        /\ p = P!Fill(n, a, b, w, h) /\ q = P!Fill(m, d, e, v, g)
        /\ p.kind = "fill" /\ q.kind = "fill"
        /\ p.x = a /\ p.y = b /\ p.w = w /\ p.h = h
        /\ q.x = d /\ q.y = e /\ q.w = v /\ q.h = g
  BY FillIs
<1>2. P!Inside(p) /\ P!Inside(q) /\ p.y >= lo /\ q.y >= lo
  BY <1>1 DEF P!Inside, Large
<1>3. ~(p.kind = "text") /\ ~(q.kind = "text")
  BY <1>1
<1>4. Laid(<<p, q>>, lo, hi)
  BY <1>2, <1>3, LaidTwo, Zenon
<1> QED BY <1>1, <1>4, Zenon

LEMMA TextThenFill ==
  ASSUME Large, NEW n \in Names, NEW a \in Int, NEW top \in Int, NEW k \in Nat,
         NEW m \in Names, NEW d \in Int, NEW e \in Int, NEW v \in Int, NEW g \in Int,
         a + 8 * k <= P!Width, d + v <= P!Width, e + g <= P!Height, top + 16 <= e, 0 <= g
  PROVE  Laid(<<P!Caption(n, a, top, k), P!Fill(m, d, e, v, g)>>, top, top + 16)
<1>1. PICK p \in Boxes, q \in Boxes :
        /\ p = P!Caption(n, a, top, k) /\ q = P!Fill(m, d, e, v, g) /\ q.kind = "fill"
        /\ p.x = a /\ p.y = top /\ p.w = 8 * k /\ p.h = 16
        /\ q.x = d /\ q.y = e /\ q.w = v /\ q.h = g
  BY CaptionIs, FillIs
<1>2. P!Inside(p) /\ P!Inside(q)
  BY <1>1 DEF P!Inside, Large
<1>3. ~P!Meet(p, q) /\ ~(q.kind = "text")
  BY <1>1 DEF P!Meet
<1>4. top \in Int /\ top + 16 \in Int /\ p.y >= top /\ q.y >= top /\ p.y + p.h <= top + 16
  BY <1>1
<1>5. Laid(<<p, q>>, top, top + 16)
  BY <1>2, <1>3, <1>4, LaidTwo, Zenon
<1> QED BY <1>1, <1>5, Zenon

LEMMA FillThenText ==
  ASSUME Large, NEW n \in Names, NEW a \in Int, NEW top \in Int, NEW k \in Nat,
         NEW m \in Names, NEW d \in Int, NEW e \in Int, NEW v \in Int, NEW g \in Int,
         a + 8 * k <= P!Width, d + v <= P!Width, e + g <= P!Height, e <= top,
         top + 16 <= P!Height
  PROVE  Laid(<<P!Fill(m, d, e, v, g), P!Caption(n, a, top, k)>>, e, top + 16)
<1>1. PICK p \in Boxes, q \in Boxes :
        /\ p = P!Fill(m, d, e, v, g) /\ q = P!Caption(n, a, top, k) /\ p.kind = "fill"
        /\ q.x = a /\ q.y = top /\ q.w = 8 * k /\ q.h = 16
        /\ p.x = d /\ p.y = e /\ p.w = v /\ p.h = g
  BY CaptionIs, FillIs
<1>2. P!Inside(p) /\ P!Inside(q)
  BY <1>1 DEF P!Inside, Large
<1>3. ~(p.kind = "text")
  BY <1>1
<1>4. e \in Int /\ top + 16 \in Int /\ p.y >= e /\ q.y >= e /\ q.y + q.h <= top + 16
  BY <1>1
<1>5. Laid(<<p, q>>, e, top + 16)
  BY <1>2, <1>3, <1>4, LaidTwo, Zenon
<1> QED BY <1>1, <1>5, Zenon

(* The places on a screen whose size is one of Sizes.                        *)
LEMMA SizeIs ==
  ASSUME size \in Sizes
  PROVE  /\ P!Width \in 1 .. Uint - 1 /\ P!Height \in 1 .. Uint - 1
         /\ Uint \in Nat /\ Uint >= 1024
  BY FontAssumption DEF P!CanvasAssumption, P!Width, P!Height

Wrapped(a, b) == IF a >= b THEN a - b ELSE a - b + Uint

LEMMA MinusIs ==
  ASSUME NEW a \in 1 .. Uint - 1, NEW b \in 1 .. Uint, Uint \in Nat, Uint >= 1024
  PROVE  P!Minus(a, b) = Wrapped(a, b)
<1>1. CASE a >= b
  <2>1. a - b \in 0 .. Uint - 1
    BY <1>1
  <2>2. (a - b) % Uint = a - b
    BY <2>1
  <2> QED BY <1>1, <2>2 DEF P!Minus, Wrapped
<1>2. CASE a < b
  <2>1. a - b + Uint \in 0 .. Uint - 1
    BY <1>2
  <2>2. a - b = Uint * (-1) + (a - b + Uint)
    OBVIOUS
  <2>3. (a - b) % Uint = a - b + Uint
    BY <2>1, <2>2
  <2> QED BY <1>2, <2>3 DEF P!Minus, Wrapped
<1> QED BY <1>1, <1>2

LEMMA MinusAt ==
  ASSUME size \in Sizes, NEW b \in 1 .. Uint
  PROVE  P!Minus(P!Width, b) = Wrapped(P!Width, b) /\ P!Minus(P!Height, b) = Wrapped(P!Height, b)
<1>1. /\ P!Width \in 1 .. Uint - 1 /\ P!Height \in 1 .. Uint - 1
      /\ Uint \in Nat /\ Uint >= 1024
  BY SizeIs
<1> QED BY <1>1, MinusIs, Zenon

LEMMA CellIs == FW = 8 /\ FH = 16 /\ P!Top = 48 /\ P!BoxTop = 112 /\ P!Line = 22 /\ P!Left = 40
  BY FontAssumption DEF P!CanvasAssumption, P!Top, P!BoxTop, P!Line, P!Left

LEMMA FootIs ==
  ASSUME size \in Sizes, NEW k \in Nat
  PROVE  \E a \in Int, f \in Int, t \in Int :
            /\ P!Foot(k) = <<P!Fill("foot_bar", 0, f, P!Width, 28), P!Caption("foot", a, t, k)>>
            /\ 8 * k <= P!Width => a + 8 * k <= P!Width
            /\ P!Height >= 28 => f = P!Height - 28 /\ t = P!Height - 22
            /\ P!Height < 28 => f > P!Height
<1>1. /\ P!Width \in Nat /\ P!Height \in 1 .. Uint - 1
      /\ Uint \in Nat /\ Uint >= 1024
  BY SizeIs
<1>2. PICK a \in Int : /\ \A n, top : P!Centered(n, top, k) = P!Caption(n, a, top, k)
                       /\ 8 * k <= P!Width => a + 8 * k <= P!Width
  BY <1>1, CenteredIs, Zenon
<1>3. PICK f : f = P!Minus(P!Height, 28)
  OBVIOUS
<1>4. PICK t : t = P!Minus(P!Height, 22)
  OBVIOUS
<1>5. f = Wrapped(P!Height, 28)
  <2>1. PICK b \in 1 .. Uint : b = 28
    BY <1>1
  <2>2. P!Minus(P!Height, b) = Wrapped(P!Height, b)
    BY MinusAt, Zenon
  <2> QED BY <1>3, <2>1, <2>2
<1>6. t = Wrapped(P!Height, 22)
  <2>1. PICK b \in 1 .. Uint : b = 22
    BY <1>1
  <2>2. P!Minus(P!Height, b) = Wrapped(P!Height, b)
    BY MinusAt, Zenon
  <2> QED BY <1>4, <2>1, <2>2
<1>7. /\ f \in Int /\ t \in Int
      /\ P!Height >= 28 => f = P!Height - 28 /\ t = P!Height - 22
      /\ P!Height < 28 => f > P!Height
  BY <1>1, <1>5, <1>6 DEF Wrapped
<1>8. P!Foot(k) = <<P!Fill("foot_bar", 0, f, P!Width, 28), P!Caption("foot", a, t, k)>>
  <2>1. FH + 12 = 28 /\ FH + 6 = 22
    BY CellIs
  <2> QED BY <1>2, <1>3, <1>4, <2>1, Zenon DEF P!Foot, P!Bar
<1> QED BY <1>2, <1>7, <1>8, Zenon

LEMMA FootLaid ==
  ASSUME Large, size \in Sizes, NEW k \in Nat, 8 * k <= 640
  PROVE  Laid(P!Foot(k), P!Height - 28, P!Height - 6)
<1>1. PICK a \in Int, f \in Int, t \in Int :
        /\ P!Foot(k) = <<P!Fill("foot_bar", 0, f, P!Width, 28), P!Caption("foot", a, t, k)>>
        /\ 8 * k <= P!Width => a + 8 * k <= P!Width
        /\ P!Height >= 28 => f = P!Height - 28 /\ t = P!Height - 22
  BY FootIs, Zenon
<1>2. /\ a + 8 * k <= P!Width /\ f = P!Height - 28 /\ t = P!Height - 22
      /\ P!Width \in Int /\ P!Height \in Int /\ 28 \in Int
      /\ 0 + P!Width <= P!Width /\ f + 28 <= P!Height /\ f <= t /\ t + 16 <= P!Height
      /\ t + 16 = P!Height - 6 /\ 0 \in Int
  BY <1>1 DEF Large
<1>3. "foot_bar" \in Names /\ "foot" \in Names
  BY DEF Names
<1>4. Laid(<<P!Fill("foot_bar", 0, f, P!Width, 28), P!Caption("foot", a, t, k)>>, f, t + 16)
  BY <1>2, <1>3, FillThenText, Zenon
<1> QED BY <1>1, <1>2, <1>4, Zenon

(* The main screen.                                                          *)
LEMMA BoxRowLaid ==
  ASSUME Large, NEW i \in 0 .. 4, NEW label \in Names, NEW value \in Names, NEW k \in 0 .. 44
  PROVE  Laid(P!BoxRow(i, 112, label, value, k), 120 + 20 * i, 136 + 20 * i)
<1>1. PICK a \in Int, b \in Int, top \in Int :
        /\ a = P!Width \div 6 + 16 /\ b = P!Width \div 6 + 16 + 104 /\ top = 120 + 20 * i
  BY DEF Large
<1>2. P!BoxRow(i, 112, label, value, k)
        = <<P!Caption(label, a, top, 13), P!Caption(value, b, top, k)>>
  <2>1. /\ P!Width \div 6 + 16 = a /\ P!Width \div 6 + 16 + FW * 13 = b
        /\ 112 + 8 + (FH + 4) * i = top
    BY <1>1, CellIs
  <2> QED BY <2>1, Zenon DEF P!BoxRow
<1>3. /\ a + 8 * 13 <= b /\ b + 8 * k <= P!Width /\ top + 16 <= P!Height /\ 13 \in Nat
      /\ k \in Nat /\ top + 16 = 136 + 20 * i
  BY <1>1 DEF Large
<1>4. Laid(<<P!Caption(label, a, top, 13), P!Caption(value, b, top, k)>>, top, top + 16)
  BY <1>3, TextsInLine, Zenon
<1> QED BY <1>1, <1>2, <1>3, <1>4, Zenon

LEMMA BoxRowsLaid == ASSUME Large PROVE Laid(P!BoxRows, 120, 216)
<1>1. /\ P!BoxTop = 112 /\ P!CodeLength = 28 /\ P!DescLength = 44 /\ P!Hex64 = 18
  BY CellIs DEF P!CodeLength, P!DescLength, P!Hex64
<1>2. /\ {"Error_Code", "code", "Description", "description", "Exception", "number",
          "Architecture", "arch", "Fault_Addr", "cr2"} \subseteq Names
      /\ {28, 44, 13, 6, 18} \subseteq 0 .. 44
  BY DEF Names
<1>3. PICK r0, r1, r2, r3, r4 :
        /\ r0 = P!BoxRow(0, 112, "Error_Code", "code", 28)
        /\ r1 = P!BoxRow(1, 112, "Description", "description", 44)
        /\ r2 = P!BoxRow(2, 112, "Exception", "number", 13)
        /\ r3 = P!BoxRow(3, 112, "Architecture", "arch", 6)
        /\ r4 = IF int_no = 14 THEN P!BoxRow(4, 112, "Fault_Addr", "cr2", 18) ELSE <<>>
  BY Zenon
<1>4. Laid(r0, 120, 136)
  <2>1. 120 + 20 * 0 = 120 /\ 136 + 20 * 0 = 136 /\ 0 \in 0 .. 4
    OBVIOUS
  <2> QED BY <1>2, <1>3, <2>1, BoxRowLaid
<1>5. Laid(r1, 140, 156)
  <2>1. 120 + 20 * 1 = 140 /\ 136 + 20 * 1 = 156 /\ 1 \in 0 .. 4
    OBVIOUS
  <2> QED BY <1>2, <1>3, <2>1, BoxRowLaid
<1>6. Laid(r2, 160, 176)
  <2>1. 120 + 20 * 2 = 160 /\ 136 + 20 * 2 = 176 /\ 2 \in 0 .. 4
    OBVIOUS
  <2> QED BY <1>2, <1>3, <2>1, BoxRowLaid
<1>7. Laid(r3, 180, 196)
  <2>1. 120 + 20 * 3 = 180 /\ 136 + 20 * 3 = 196 /\ 3 \in 0 .. 4
    OBVIOUS
  <2> QED BY <1>2, <1>3, <2>1, BoxRowLaid
<1>8. Laid(r4, 200, 216)
  <2>1. 120 + 20 * 4 = 200 /\ 136 + 20 * 4 = 216 /\ 4 \in 0 .. 4
    OBVIOUS
  <2>2. Laid(P!BoxRow(4, 112, "Fault_Addr", "cr2", 18), 200, 216)
    BY <1>2, <2>1, BoxRowLaid
  <2> QED BY <1>3, <2>2, LaidNone, Zenon
<1>9. Laid(r0 \o r1, 120, 156)
  BY <1>4, <1>5, LaidBelow
<1>10. Laid((r0 \o r1) \o r2, 120, 176)
  BY <1>6, <1>9, LaidBelow
<1>11. Laid(((r0 \o r1) \o r2) \o r3, 120, 196)
  BY <1>7, <1>10, LaidBelow
<1>12. Laid((((r0 \o r1) \o r2) \o r3) \o r4, 120, 216)
  BY <1>8, <1>11, LaidBelow
<1>13. P!BoxRows = (((r0 \o r1) \o r2) \o r3) \o r4
  BY <1>1, <1>3, ZenonT(40) DEF P!BoxRows
<1> QED BY <1>12, <1>13

LEMMA Minus232 == ASSUME size \in Sizes PROVE P!Minus(P!Width, 232) = Wrapped(P!Width, 232)
<1>1. PICK b \in 1 .. Uint : b = 232
  BY SizeIs
<1>2. P!Minus(P!Width, b) = Wrapped(P!Width, b)
  BY MinusAt, Zenon
<1> QED BY <1>1, <1>2

LEMMA ButtonIs ==
  ASSUME NEW a
  PROVE  P!Button("diagnostic", a, 252, 31)
           = (<<P!Fill("button", a, 252, 272, 28)>>
              \o (<<P!Fill("top", a, 252, 272, 1), P!Fill("bottom", a, 279, 272, 1)>>
                  \o <<P!Fill("left", a, 252, 1, 28), P!Fill("right", a + 272 - 1, 252, 1, 28)>>))
             \o <<P!Caption("diagnostic", a + 12, 258, 31)>>
<1>1. 31 * FW + 24 = 272 /\ FH + 12 = 28 /\ 252 + (FH + 12) - 1 = 279 /\ 252 + 6 = 258
  BY CellIs
<1>2. <<P!Fill("button", a, 252, 31 * FW + 24, FH + 12)>> = <<P!Fill("button", a, 252, 272, 28)>>
  BY <1>1, Zenon
<1>3. P!Frame(a, 252, 31 * FW + 24, FH + 12)
        = <<P!Fill("top", a, 252, 272, 1), P!Fill("bottom", a, 279, 272, 1)>>
          \o <<P!Fill("left", a, 252, 1, 28), P!Fill("right", a + 272 - 1, 252, 1, 28)>>
  <2>1. P!Fill("bottom", a, 252 + (FH + 12) - 1, 31 * FW + 24, 1)
          = P!Fill("bottom", a, 279, 272, 1)
    BY <1>1, Zenon
  <2>2. P!Fill("right", a + (31 * FW + 24) - 1, 252, 1, FH + 12)
          = P!Fill("right", a + 272 - 1, 252, 1, 28)
    BY <1>1, Zenon
  <2>3. P!Fill("top", a, 252, 31 * FW + 24, 1) = P!Fill("top", a, 252, 272, 1)
    BY <1>1, Zenon
  <2>4. P!Fill("left", a, 252, 1, FH + 12) = P!Fill("left", a, 252, 1, 28)
    BY <1>1, Zenon
  <2> QED BY <2>1, <2>2, <2>3, <2>4 DEF P!Frame
<1>4. <<P!Caption("diagnostic", a + 12, 252 + 6, 31)>>
        = <<P!Caption("diagnostic", a + 12, 258, 31)>>
  BY <1>1
<1> QED BY <1>2, <1>3, <1>4, ZenonT(40) DEF P!Button

LEMMA ButtonLaid ==
  ASSUME Large, NEW a \in Int, a + 272 <= P!Width
  PROVE  Laid(P!Button("diagnostic", a, 252, 31), 252, 274)
<1>1. /\ {"button", "top", "bottom", "left", "right", "diagnostic"} \subseteq Names
      /\ 252 + 28 - 1 = 279 /\ 252 + 6 = 258 /\ a + 272 - 1 \in Int /\ a + 12 \in Int
  BY DEF Names
<1>2. PICK p : p = <<P!Fill("button", a, 252, 272, 28)>>
  OBVIOUS
<1>3. PICK q : q = <<P!Fill("top", a, 252, 272, 1), P!Fill("bottom", a, 279, 272, 1)>>
  OBVIOUS
<1>4. PICK r : r = <<P!Fill("left", a, 252, 1, 28), P!Fill("right", a + 272 - 1, 252, 1, 28)>>
  OBVIOUS
<1>5. PICK t : t = <<P!Caption("diagnostic", a + 12, 258, 31)>>
  OBVIOUS
<1>6. Laid(p, 252, 252)
  BY <1>1, <1>2, OneFill DEF Large
<1>7. Laid(q, 252, 252)
  BY <1>1, <1>3, TwoFills DEF Large
<1>8. Laid(r, 252, 252)
  <2>1. a + 272 - 1 + 1 <= P!Width
    BY DEF Large
  <2> QED BY <1>1, <1>4, <2>1, TwoFills DEF Large
<1>9. Laid(t, 258, 274)
  <2>1. a + 12 + 8 * 31 <= P!Width /\ 258 + 16 <= P!Height /\ 258 + 16 = 274
    BY DEF Large
  <2> QED BY <1>1, <1>5, <2>1, OneText
<1>10. Laid(q \o r, 252, 252)
  BY <1>7, <1>8, LaidBelow
<1>11. Laid(p \o (q \o r), 252, 252)
  BY <1>6, <1>10, LaidBelow
<1>12. Laid((p \o (q \o r)) \o t, 252, 274)
  BY <1>9, <1>11, LaidBelow
<1>13. P!Button("diagnostic", a, 252, 31) = (p \o (q \o r)) \o t
  <2>1. P!Button("diagnostic", a, 252, 31)
           = (<<P!Fill("button", a, 252, 272, 28)>>
              \o (<<P!Fill("top", a, 252, 272, 1), P!Fill("bottom", a, 279, 272, 1)>>
                  \o <<P!Fill("left", a, 252, 1, 28), P!Fill("right", a + 272 - 1, 252, 1, 28)>>))
             \o <<P!Caption("diagnostic", a + 12, 258, 31)>>
    BY ButtonIs
  <2> QED BY <1>2, <1>3, <1>4, <1>5, <2>1
<1> QED BY <1>12, <1>13

(* Both screens begin with the background and the bar.                       *)
Start == <<P!fb_clear, P!Bar("title_bar", 0)>>

LEMMA StartFills ==
  Start = <<P!Fill("background", 0, 0, P!Width, P!Height),
            P!Fill("title_bar", 0, 0, P!Width, 28)>>
<1>1. FH + 12 = 28
  BY CellIs
<1> QED BY <1>1, Zenon DEF Start, P!fb_clear, P!Bar

LEMMA StartLaid == ASSUME Large PROVE Laid(Start, 0, 0)
<1>1. "background" \in Names /\ "title_bar" \in Names
  BY DEF Names
<1>2. Laid(<<P!Fill("background", 0, 0, P!Width, P!Height),
             P!Fill("title_bar", 0, 0, P!Width, 28)>>, 0, 0)
  BY <1>1, TwoFills DEF Large
<1> QED BY <1>2, StartFills, Zenon

LEMMA Doubled ==
  ASSUME size \in Sizes
  PROVE  (P!Width * 2) % Uint \in Nat /\ (P!Width * 2) % Uint <= P!Width * 2
<1>1. P!Width \in 1 .. Uint - 1 /\ Uint \in Nat /\ Uint >= 1024
  BY SizeIs
<1>2. CASE P!Width * 2 < Uint
  <2>1. P!Width * 2 \in 0 .. Uint - 1
    BY <1>1, <1>2
  <2>2. (P!Width * 2) % Uint = P!Width * 2
    BY <1>1, <2>1
  <2> QED BY <1>1, <2>2
<1>3. CASE P!Width * 2 >= Uint
  <2>1. PICK r \in 0 .. Uint - 1 : P!Width * 2 = Uint * 1 + r
    <3>1. P!Width * 2 - Uint \in 0 .. Uint - 1 /\ P!Width * 2 = Uint * 1 + (P!Width * 2 - Uint)
      BY <1>1, <1>3
    <3> QED BY <3>1
  <2>2. (P!Width * 2) % Uint = r
    BY <1>1, <2>1
  <2> QED BY <1>1, <2>1, <2>2
<1> QED BY <1>1, <1>2, <1>3

MainParts(s, t, box, rows, button, u, f) ==
    (((((s \o t) \o box) \o rows) \o button) \o u) \o f

(* What the main screen is, and where its texts, its box and its button are. *)
MainPlaces(a, b, c1, c2, c3, c4, c5) ==
    /\ P!MainScreen =
         MainParts(Start,
             <<P!Caption("title", a, 6, 25), P!Caption("detected", b, 48, 35)>>,
             <<P!Caption("halted", c1, 72, 45), P!Fill("box", c2, 112, c3, 120)>>,
             P!BoxRows, P!Button("diagnostic", c4, 252, 31),
             <<P!Caption("issue", c5, 300, 44), P!Caption("address", c1, 322, 45)>>,
             P!Foot(49))
    /\ c2 + c3 <= P!Width
    /\ c4 = P!Minus(P!Width, 232) \div 2
    /\ P!Width >= 640 => /\ a + 8 * 25 <= P!Width /\ b + 8 * 35 <= P!Width
                         /\ c1 + 8 * 45 <= P!Width /\ c5 + 8 * 44 <= P!Width

LEMMA MainIs ==
  ASSUME size \in Sizes
  PROVE  \E a, b, c1, c2, c3, c4, c5 \in Int : MainPlaces(a, b, c1, c2, c3, c4, c5)
<1>1. P!Width \in Nat
  BY SizeIs
<1>2. PICK a \in Int : /\ \A n, top : P!Centered(n, top, 25) = P!Caption(n, a, top, 25)
                       /\ 8 * 25 <= P!Width => a + 8 * 25 <= P!Width
  BY <1>1, CenteredIs, 25 \in Nat, Zenon
<1>3. PICK b \in Int : /\ \A n, top : P!Centered(n, top, 35) = P!Caption(n, b, top, 35)
                       /\ 8 * 35 <= P!Width => b + 8 * 35 <= P!Width
  BY <1>1, CenteredIs, 35 \in Nat, Zenon
<1>4. PICK c1 \in Int : /\ \A n, top : P!Centered(n, top, 45) = P!Caption(n, c1, top, 45)
                        /\ 8 * 45 <= P!Width => c1 + 8 * 45 <= P!Width
  BY <1>1, CenteredIs, 45 \in Nat, Zenon
<1>5. PICK c5 \in Int : /\ \A n, top : P!Centered(n, top, 44) = P!Caption(n, c5, top, 44)
                        /\ 8 * 44 <= P!Width => c5 + 8 * 44 <= P!Width
  BY <1>1, CenteredIs, 44 \in Nat, Zenon
<1>6. PICK c2 \in Int, c3 \in Int : /\ c2 = P!Width \div 6 /\ c3 = ((P!Width * 2) % Uint) \div 3
                                   /\ c2 + c3 <= P!Width
  <2>1. (P!Width * 2) % Uint \in Nat /\ (P!Width * 2) % Uint <= P!Width * 2
    BY Doubled
  <2>2. PICK m \in Nat : m = (P!Width * 2) % Uint
    BY <2>1
  <2>3. P!Width \div 6 \in Int /\ m \div 3 \in Int /\ P!Width \div 6 + m \div 3 <= P!Width
    BY <1>1, <2>1, <2>2
  <2> QED BY <2>2, <2>3
<1>7. PICK c4 \in Int : c4 = P!Minus(P!Width, 232) \div 2
  <2>1. P!Minus(P!Width, 232) \in Int
    <3>1. P!Width \in 1 .. Uint - 1 /\ Uint \in Nat
      BY SizeIs
    <3>2. P!Minus(P!Width, 232) = Wrapped(P!Width, 232)
      BY Minus232
    <3> QED BY <3>1, <3>2 DEF Wrapped
  <2> QED BY <2>1
<1>8. /\ P!Top = 48 /\ P!Top + FH + 8 = 72 /\ P!BoxTop = 112 /\ FH * 6 + 24 = 120
      /\ P!BoxTop + FH * 6 + 24 + 20 = 252 /\ P!BoxTop + FH * 6 + 24 + 20 + FH + 12 + 20 = 300
      /\ P!BoxTop + FH * 6 + 24 + 20 + FH + 12 + 20 + FH + 6 = 322 /\ FW * 26 + 24 = 232
  BY CellIs
<1>9. P!MainScreen =
        MainParts(Start,
            <<P!Caption("title", a, 6, 25), P!Caption("detected", b, 48, 35)>>,
            <<P!Caption("halted", c1, 72, 45),
              P!Fill("box", c2, 112, c3, 120)>>,
            P!BoxRows, P!Button("diagnostic", c4, 252, 31),
            <<P!Caption("issue", c5, 300, 44), P!Caption("address", c1, 322, 45)>>,
            P!Foot(49))
  <2>1. <<P!Centered("title", 6, 25), P!Centered("detected", P!Top, 35)>>
          = <<P!Caption("title", a, 6, 25), P!Caption("detected", b, 48, 35)>>
    <3>1. P!Top = 48
      BY <1>8
    <3> QED BY <1>2, <1>3, <3>1, Zenon
  <2>2. << P!Centered("halted", P!Top + FH + 8, 45),
           P!Fill("box", P!Width \div 6, P!BoxTop, ((P!Width * 2) % Uint) \div 3, FH * 6 + 24) >>
          = <<P!Caption("halted", c1, 72, 45), P!Fill("box", c2, 112, c3, 120)>>
    <3>1. P!Top + FH + 8 = 72 /\ P!BoxTop = 112 /\ FH * 6 + 24 = 120
      BY <1>8, Zenon
    <3>2. P!Centered("halted", P!Top + FH + 8, 45) = P!Caption("halted", c1, 72, 45)
      BY <1>4, <3>1, Zenon
    <3>3. P!Fill("box", P!Width \div 6, P!BoxTop, ((P!Width * 2) % Uint) \div 3, FH * 6 + 24)
            = P!Fill("box", c2, 112, c3, 120)
      BY <1>6, <3>1, Zenon
    <3> QED BY <3>2, <3>3, Zenon
  <2>3. P!Button("diagnostic", P!Minus(P!Width, FW * 26 + 24) \div 2,
                 P!BoxTop + FH * 6 + 24 + 20, 31) = P!Button("diagnostic", c4, 252, 31)
    <3>1. P!BoxTop + FH * 6 + 24 + 20 = 252 /\ FW * 26 + 24 = 232
      BY <1>8, Zenon
    <3> QED BY <1>7, <3>1, Zenon
  <2>4. << P!Centered("issue", P!BoxTop + FH * 6 + 24 + 20 + FH + 12 + 20, 44),
           P!Centered("address", P!BoxTop + FH * 6 + 24 + 20 + FH + 12 + 20 + FH + 6, 45) >>
          = <<P!Caption("issue", c5, 300, 44), P!Caption("address", c1, 322, 45)>>
    <3>1. /\ P!BoxTop + FH * 6 + 24 + 20 + FH + 12 + 20 = 300
          /\ P!BoxTop + FH * 6 + 24 + 20 + FH + 12 + 20 + FH + 6 = 322
      BY <1>8, Zenon
    <3>2. P!Centered("issue", P!BoxTop + FH * 6 + 24 + 20 + FH + 12 + 20, 44)
            = P!Caption("issue", c5, 300, 44)
      <4>1. PICK e : e = P!BoxTop + FH * 6 + 24 + 20 + FH + 12 + 20
        OBVIOUS
      <4>2. P!Centered("issue", e, 44) = P!Caption("issue", c5, 300, 44)
        <5>1. e = 300
          BY <3>1, <4>1, Zenon
        <5> QED BY <1>5, <5>1, Zenon
      <4> QED BY <4>1, <4>2, Zenon
    <3>3. P!Centered("address", P!BoxTop + FH * 6 + 24 + 20 + FH + 12 + 20 + FH + 6, 45)
            = P!Caption("address", c1, 322, 45)
      <4>1. PICK e : e = P!BoxTop + FH * 6 + 24 + 20 + FH + 12 + 20 + FH + 6
        OBVIOUS
      <4>2. P!Centered("address", e, 45) = P!Caption("address", c1, 322, 45)
        <5>1. e = 322
          BY <3>1, <4>1, Zenon
        <5> QED BY <1>4, <5>1, Zenon
      <4> QED BY <4>1, <4>2, Zenon
    <3> QED BY <3>2, <3>3, Zenon
  <2> QED BY <2>1, <2>2, <2>3, <2>4, ZenonT(40) DEF P!MainScreen, MainParts, Start
<1>10. P!Width >= 640 => /\ a + 8 * 25 <= P!Width /\ b + 8 * 35 <= P!Width
                         /\ c1 + 8 * 45 <= P!Width /\ c5 + 8 * 44 <= P!Width
  BY <1>1, <1>2, <1>3, <1>4, <1>5
<1>11. MainPlaces(a, b, c1, c2, c3, c4, c5)
  BY <1>6, <1>7, <1>9, <1>10 DEF MainPlaces
<1> QED BY <1>11, Zenon

LEMMA MainLaid ==
  ASSUME Large, size \in Sizes
  PROVE  Laid(P!MainScreen, 0, P!Height - 6)
<1>1. PICK a \in Int, b \in Int, c1 \in Int, c2 \in Int, c3 \in Int, c4 \in Int, c5 \in Int :
        MainPlaces(a, b, c1, c2, c3, c4, c5)
  BY MainIs, Zenon
<1>2. PICK t : t = <<P!Caption("title", a, 6, 25), P!Caption("detected", b, 48, 35)>>
  OBVIOUS
<1>3. PICK box : box = <<P!Caption("halted", c1, 72, 45), P!Fill("box", c2, 112, c3, 120)>>
  OBVIOUS
<1>4. PICK u : u = <<P!Caption("issue", c5, 300, 44), P!Caption("address", c1, 322, 45)>>
  OBVIOUS
<1>5. /\ a + 8 * 25 <= P!Width /\ b + 8 * 35 <= P!Width
      /\ c1 + 8 * 45 <= P!Width /\ c5 + 8 * 44 <= P!Width
      /\ c2 + c3 <= P!Width
      /\ {"title", "detected", "halted", "box", "issue", "address"} \subseteq Names
  BY <1>1 DEF Large, Names, MainPlaces
<1>6. Laid(t, 6, 64)
  <2>1. 6 + 16 <= 48 /\ 48 + 16 <= P!Height /\ 48 + 16 = 64
    BY DEF Large
  <2> QED BY <1>2, <1>5, <2>1, TextsInColumn
<1>7. Laid(box, 72, 88)
  <2>1. 72 + 16 <= 112 /\ 112 + 120 <= P!Height /\ 72 + 16 = 88
    BY DEF Large
  <2> QED BY <1>3, <1>5, <2>1, TextThenFill
<1>8. Laid(P!BoxRows, 120, 216)
  BY BoxRowsLaid
<1>9. Laid(P!Button("diagnostic", c4, 252, 31), 252, 274)
  <2>1. P!Minus(P!Width, 232) = P!Width - 232
    <3>1. P!Width \in 1 .. Uint - 1 /\ Uint \in Nat
      BY SizeIs
    <3>2. P!Minus(P!Width, 232) = Wrapped(P!Width, 232)
      BY Minus232
    <3> QED BY <3>1, <3>2 DEF Wrapped, Large
  <2>2. c4 + 272 <= P!Width
    BY <1>1, <2>1 DEF Large, MainPlaces
  <2> QED BY <2>2, ButtonLaid
<1>10. Laid(u, 300, 338)
  <2>1. 300 + 16 <= 322 /\ 322 + 16 <= P!Height /\ 322 + 16 = 338
    BY DEF Large
  <2> QED BY <1>4, <1>5, <2>1, TextsInColumn
<1>11. Laid(P!Foot(49), P!Height - 28, P!Height - 6)
  BY FootLaid
<1>12. Laid(Start \o t, 0, 64)
  BY <1>6, StartLaid, LaidBelow
<1>13. Laid((Start \o t) \o box, 0, 88)
  BY <1>7, <1>12, LaidBelow
<1>14. Laid(((Start \o t) \o box) \o P!BoxRows, 0, 216)
  BY <1>8, <1>13, LaidBelow
<1>15. Laid((((Start \o t) \o box) \o P!BoxRows) \o P!Button("diagnostic", c4, 252, 31), 0, 274)
  BY <1>9, <1>14, LaidBelow
<1>16. Laid(((((Start \o t) \o box) \o P!BoxRows) \o P!Button("diagnostic", c4, 252, 31)) \o u,
            0, 338)
  BY <1>10, <1>15, LaidBelow
<1>17. Laid(MainParts(Start, t, box, P!BoxRows, P!Button("diagnostic", c4, 252, 31), u,
                      P!Foot(49)), 0, P!Height - 6)
  <2>1. P!Height - 28 \in Int /\ P!Height - 6 \in Int /\ 338 <= P!Height - 28
        /\ 338 <= P!Height - 6 /\ 0 <= P!Height - 28
    BY DEF Large
  <2> QED BY <1>11, <1>16, <2>1, LaidBelow DEF MainParts
<1> QED BY <1>1, <1>2, <1>3, <1>4, <1>17 DEF MainPlaces


-----------------------------------------------------------------------------
(* The report.                                                               *)
LEMMA LabelledIs ==
  ASSUME NEW top, NEW label, NEW value, NEW k, NEW col, NEW m
  PROVE  P!Labelled(top, label, k, col, value, m)
           = <<P!Caption(label, 40, top, k), P!Caption(value, 40 + 8 * col, top, m)>>
<1>1. P!Left = 40 /\ FW = 8
  BY CellIs
<1> QED BY <1>1, Zenon DEF P!Labelled

LEMMA LabelledLaid ==
  ASSUME Large, NEW top \in Int, top + 16 <= 480, NEW label \in Names, NEW value \in Names,
         NEW k \in Nat, NEW col \in Nat, NEW m \in Nat, k <= col, col + m <= 75
  PROVE  Laid(P!Labelled(top, label, k, col, value, m), top, top + 16)
<1>1. /\ 40 \in Int /\ 40 + 8 * col \in Int /\ 40 + 8 * k <= 40 + 8 * col
      /\ 40 + 8 * col + 8 * m <= P!Width /\ top + 16 <= P!Height
  BY DEF Large
<1>2. Laid(<<P!Caption(label, 40, top, k), P!Caption(value, 40 + 8 * col, top, m)>>,
           top, top + 16)
  BY <1>1, TextsInLine
<1> QED BY <1>2, LabelledIs, Zenon

LEMMA PairIs ==
  ASSUME NEW b \in Boxes, NEW d \in Boxes
  PROVE  \A i \in DOMAIN <<b, d>> : <<b, d>>[i] \in {b, d}
OBVIOUS

(* Two pairs of texts, side by side.                                         *)
LEMMA PairsInLine ==
  ASSUME NEW lo \in Int, NEW hi \in Int, NEW b \in Boxes, NEW d \in Boxes, NEW e \in Boxes,
         NEW g \in Boxes, Laid(<<b, d>>, lo, hi), Laid(<<e, g>>, lo, hi),
         b.x + b.w <= e.x, b.x + b.w <= g.x, d.x + d.w <= e.x, d.x + d.w <= g.x
  PROVE  Laid(<<b, d>> \o <<e, g>>, lo, hi)
<1>1. ASSUME NEW i \in DOMAIN <<b, d>>, NEW j \in DOMAIN <<e, g>>
      PROVE  ~P!Meet(<<b, d>>[i], <<e, g>>[j])
  <2>1. PICK p \in {b, d} : p = <<b, d>>[i]
    BY PairIs
  <2>2. PICK q \in {e, g} : q = <<e, g>>[j]
    BY PairIs
  <2>3. ~(q.x < p.x + p.w)
    <3>1. p.x + p.w <= q.x /\ p.x \in Int /\ p.w \in Int /\ q.x \in Int
      BY DEF Boxes
    <3> QED BY <3>1
  <2>4. ~P!Meet(p, q)
    BY <2>3, Zenon DEF P!Meet
  <2> QED BY <2>1, <2>2, <2>4, Zenon
<1>2. lo <= lo /\ hi <= hi
  OBVIOUS
<1> QED BY <1>1, <1>2, LaidCat, Zenon

LEMMA RegisterRowLaid ==
  ASSUME Large, NEW top \in Int, top + 16 <= 480, NEW r \in Names, NEW s \in Names
  PROVE  Laid(P!RegisterRow(top, r, s), top, top + 16)
<1>1. "label" \in Names
  BY DEF Names
<1>2. PICK b \in Boxes : b = P!Caption("label", 40, top, 5) /\ b.x = 40 /\ b.w = 8 * 5
  BY <1>1, CaptionIs
<1>3. PICK d \in Boxes : d = P!Caption(r, 104, top, 18) /\ d.x = 104 /\ d.w = 8 * 18
  BY CaptionIs
<1>4. PICK e \in Boxes : e = P!Caption("label", 264, top, 5) /\ e.x = 264 /\ e.w = 8 * 5
  BY <1>1, CaptionIs
<1>5. PICK g \in Boxes : g = P!Caption(s, 312, top, 18) /\ g.x = 312 /\ g.w = 8 * 18
  BY CaptionIs
<1>6. Laid(<<b, d>>, top, top + 16)
  <2>1. 40 + 8 * 5 <= 104 /\ 104 + 8 * 18 <= P!Width /\ top + 16 <= P!Height
    BY DEF Large
  <2> QED BY <1>1, <1>2, <1>3, <2>1, TextsInLine
<1>7. Laid(<<e, g>>, top, top + 16)
  <2>1. 264 + 8 * 5 <= 312 /\ 312 + 8 * 18 <= P!Width /\ top + 16 <= P!Height
    BY DEF Large
  <2> QED BY <1>1, <1>4, <1>5, <2>1, TextsInLine
<1>8. Laid(<<b, d>> \o <<e, g>>, top, top + 16)
  <2>1. /\ b.x + b.w <= e.x /\ b.x + b.w <= g.x /\ d.x + d.w <= e.x /\ d.x + d.w <= g.x
        /\ top \in Int /\ top + 16 \in Int
    BY <1>2, <1>3, <1>4, <1>5
  <2> QED BY <1>6, <1>7, <2>1, PairsInLine, Zenon
<1>9. P!RegisterRow(top, r, s) = <<b, d>> \o <<e, g>>
  <2>1. P!Labelled(top, "label", 5, 8, r, 18) = <<b, d>>
    <3>1. 40 + 8 * 8 = 104
      OBVIOUS
    <3>2. P!Labelled(top, "label", 5, 8, r, 18)
            = <<P!Caption("label", 40, top, 5), P!Caption(r, 40 + 8 * 8, top, 18)>>
      BY LabelledIs, Zenon
    <3> QED BY <1>2, <1>3, <3>1, <3>2, Zenon
  <2>2. P!Left + FW * 28 = 264 /\ P!Left + FW * 34 = 312 /\ P!Hex64 = 18
    BY CellIs DEF P!Hex64
  <2>3. <<P!Caption("label", P!Left + FW * 28, top, 5), P!Caption(s, P!Left + FW * 34, top, 18)>>
          = <<e, g>>
    BY <1>4, <1>5, <2>2, Zenon
  <2> QED BY <2>1, <2>2, <2>3, Zenon DEF P!RegisterRow
<1> QED BY <1>8, <1>9

(* EDX lies on EBX and the label of ECX, and on nothing else.                *)
LEMMA LastRegistersLaid ==
  ASSUME Large, NEW top \in Int, top + 16 <= 480
  PROVE  Laid(P!LastRegisters(top), top, top + 16)
<1>1. /\ {"EBX_label", "EBX", "ECX_label", "ECX", "EDX_label", "EDX"} \subseteq Names
      /\ "EBX_label" \in Excused /\ "EBX" \in Excused /\ "ECX_label" \in Excused
  BY DEF Names, Excused
<1>2. PICK b \in Boxes : b = P!Caption("EBX_label", 40, top, 5) /\ b.name = "EBX_label"
  BY <1>1, CaptionIs
<1>3. PICK d \in Boxes : d = P!Caption("EBX", 104, top, 18) /\ d.name = "EBX"
  BY <1>1, CaptionIs
<1>4. PICK e \in Boxes : e = P!Caption("ECX_label", 200, top, 5) /\ e.name = "ECX_label"
  BY <1>1, CaptionIs
<1>5. PICK g \in Boxes : g = P!Caption("ECX", 248, top, 18) /\ g.x = 248
  BY <1>1, CaptionIs
<1>6. PICK p \in Boxes : p = P!Caption("EDX_label", 40, top, 6) /\ p.x = 40 /\ p.w = 8 * 6
  BY <1>1, CaptionIs
<1>7. PICK q \in Boxes : q = P!Caption("EDX", 104, top, 18) /\ q.x = 104 /\ q.w = 8 * 18
  BY <1>1, CaptionIs
<1>8. top + 16 <= P!Height /\ top + 16 \in Int /\ top <= top /\ top + 16 <= top + 16
  BY DEF Large
<1>9. Laid(<<b, d>>, top, top + 16)
  <2>1. 40 + 8 * 5 <= 104 /\ 104 + 8 * 18 <= P!Width
    BY DEF Large
  <2> QED BY <1>1, <1>2, <1>3, <1>8, <2>1, TextsInLine
<1>10. Laid(<<e, g>>, top, top + 16)
  <2>1. 200 + 8 * 5 <= 248 /\ 248 + 8 * 18 <= P!Width
    BY DEF Large
  <2> QED BY <1>1, <1>4, <1>5, <1>8, <2>1, TextsInLine
<1>11. Laid(<<p, q>>, top, top + 16)
  <2>1. 40 + 8 * 6 <= 104 /\ 104 + 8 * 18 <= P!Width
    BY DEF Large
  <2> QED BY <1>1, <1>6, <1>7, <1>8, <2>1, TextsInLine
<1>12. \A i \in DOMAIN <<b, d>> : <<b, d>>[i].name \in Excused
  <2>1. \A i \in DOMAIN <<b, d>> : <<b, d>>[i] \in {b, d}
    BY PairIs
  <2> QED BY <1>1, <1>2, <1>3, <2>1
<1>13. Laid(<<b, d>> \o <<e, g>>, top, top + 16)
  BY <1>8, <1>9, <1>10, <1>12, LaidCat, Zenon
<1>14. PICK w : w = <<b, d>> \o <<e, g>>
  OBVIOUS
<1>15. ASSUME NEW i \in DOMAIN w PROVE w[i].name \in Excused \/ w[i].x = 248
  <2>1. <<b, d>> \in Seq(Boxes) /\ <<e, g>> \in Seq(Boxes)
    OBVIOUS
  <2>2. \/ \E k \in DOMAIN <<b, d>> : w[i] = <<b, d>>[k]
        \/ \E k \in DOMAIN <<e, g>> : w[i] = <<e, g>>[k]
    BY <1>14, <2>1, CatParts, Zenon
  <2>3. \A k \in DOMAIN <<e, g>> : <<e, g>>[k] \in {e, g}
    BY PairIs
  <2>4. CASE \E k \in DOMAIN <<b, d>> : w[i] = <<b, d>>[k]
    BY <1>12, <2>4, Zenon
  <2>5. CASE \E k \in DOMAIN <<e, g>> : w[i] = <<e, g>>[k]
    <3>1. w[i] = e \/ w[i] = g
      BY <2>3, <2>5, Zenon
    <3>2. e.name \in Excused /\ g.x = 248
      BY <1>1, <1>4, <1>5, Zenon
    <3> QED BY <3>1, <3>2, Zenon
  <2> QED BY <2>2, <2>4, <2>5, Zenon
<1>16. ASSUME NEW i \in DOMAIN w, NEW j \in DOMAIN <<p, q>>, P!Meet(w[i], <<p, q>>[j])
       PROVE  w[i].name \in Excused
  <2>1. PICK v : v = w[i]
    OBVIOUS
  <2>2. PICK u \in {p, q} : u = <<p, q>>[j]
    BY PairIs
  <2>3. u.x + u.w <= 248 /\ u.x + u.w \in Int
    BY <1>6, <1>7
  <2>4. v.x < u.x + u.w
    BY <1>16, <2>1, <2>2, Zenon DEF P!Meet
  <2>5. ~(v.x = 248)
    BY <2>3, <2>4
  <2>6. w[i].name \in Excused \/ w[i].x = 248
    BY <1>15
  <2> QED BY <2>1, <2>5, <2>6
<1>17. Laid(w \o <<p, q>>, top, top + 16)
  <2>1. Laid(w, top, top + 16)
    BY <1>13, <1>14, Zenon
  <2> QED BY <1>8, <1>11, <1>16, <2>1, LaidCat, Zenon
<1>18. P!LastRegisters(top) = (<<b, d>> \o <<e, g>>) \o <<p, q>>
  <2>1. 40 + 8 * 8 = 104
    OBVIOUS
  <2>2. P!Labelled(top, "EBX_label", 5, 8, "EBX", 18) = <<b, d>>
    <3>1. P!Labelled(top, "EBX_label", 5, 8, "EBX", 18)
            = <<P!Caption("EBX_label", 40, top, 5), P!Caption("EBX", 40 + 8 * 8, top, 18)>>
      BY LabelledIs, Zenon
    <3> QED BY <1>2, <1>3, <2>1, <3>1, Zenon
  <2>3. P!Labelled(top, "EDX_label", 6, 8, "EDX", 18) = <<p, q>>
    <3>1. P!Labelled(top, "EDX_label", 6, 8, "EDX", 18)
            = <<P!Caption("EDX_label", 40, top, 6), P!Caption("EDX", 40 + 8 * 8, top, 18)>>
      BY LabelledIs, Zenon
    <3> QED BY <1>6, <1>7, <2>1, <3>1, Zenon
  <2>4. P!Left + FW * 20 = 200 /\ P!Left + FW * 26 = 248 /\ P!Hex64 = 18
    BY CellIs DEF P!Hex64
  <2>5. <<P!Caption("ECX_label", P!Left + FW * 20, top, 5),
          P!Caption("ECX", P!Left + FW * 26, top, 18)>> = <<e, g>>
    BY <1>4, <1>5, <2>4, Zenon
  <2> QED BY <2>2, <2>3, <2>4, <2>5, Zenon DEF P!LastRegisters
<1> QED BY <1>14, <1>17, <1>18

LEMMA RegistersLaid == ASSUME Large PROVE Laid(P!Registers(166), 166, 226)
<1>1. P!Line = 22
  BY CellIs
<1>2. {"RIP", "RSP", "RBP", "RAX"} \subseteq Names
  BY DEF Names
<1>3. Laid(P!RegisterRow(166, "RIP", "RSP"), 166, 182)
  BY <1>2, RegisterRowLaid
<1>4. Laid(P!RegisterRow(188, "RBP", "RAX"), 188, 204)
  BY <1>2, RegisterRowLaid
<1>5. Laid(P!LastRegisters(210), 210, 226)
  BY LastRegistersLaid
<1>6. PICK r, s, t : /\ r = P!RegisterRow(166, "RIP", "RSP")
                     /\ s = P!RegisterRow(188, "RBP", "RAX") /\ t = P!LastRegisters(210)
  BY Zenon
<1>7. Laid(r \o s, 166, 204)
  BY <1>3, <1>4, <1>6, LaidBelow
<1>8. Laid((r \o s) \o t, 166, 226)
  BY <1>5, <1>6, <1>7, LaidBelow
<1>9. P!Registers(166) = (r \o s) \o t
  <2>1. 166 + P!Line = 188 /\ 166 + 2 * P!Line = 210
    BY <1>1
  <2> QED BY <1>6, <2>1, Zenon DEF P!Registers
<1> QED BY <1>8, <1>9

LEMMA FaultReportIs ==
  ASSUME NEW top \in Nat
  PROVE  P!FaultReport(top)
           = (<<P!Caption("FAULT_ADDRESS", 40, top, 15), P!Caption("cr2", 40, top + 26, 18)>>
              \o P!Labelled(top + 56, "Error_Code_raw", 18, 20, "err_code", 10)) \o P!Foot(46)
<1>1. /\ P!Left = 40 /\ top + P!Line + 4 = top + 26 /\ top + 2 * P!Line + 12 = top + 56
      /\ P!Hex64 = 18 /\ P!Hex32 = 10
  BY CellIs DEF P!Hex64, P!Hex32
<1>2. <<P!Caption("FAULT_ADDRESS", P!Left, top, 15),
        P!Caption("cr2", P!Left, top + P!Line + 4, P!Hex64)>>
        = <<P!Caption("FAULT_ADDRESS", 40, top, 15), P!Caption("cr2", 40, top + 26, 18)>>
  BY <1>1, Zenon
<1>3. P!Labelled(top + 2 * P!Line + 12, "Error_Code_raw", 18, 20, "err_code", P!Hex32)
        = P!Labelled(top + 56, "Error_Code_raw", 18, 20, "err_code", 10)
  BY <1>1, Zenon
<1> QED BY <1>2, <1>3, Zenon DEF P!FaultReport

LEMMA FaultReportLaid ==
  ASSUME Large, size \in Sizes, NEW top \in Nat, top <= 240
  PROVE  Laid(P!FaultReport(top), top, P!Height - 6)
<1>1. {"FAULT_ADDRESS", "cr2", "Error_Code_raw", "err_code"} \subseteq Names
  BY DEF Names
<1>2. PICK r, s, t : /\ r = <<P!Caption("FAULT_ADDRESS", 40, top, 15),
                              P!Caption("cr2", 40, top + 26, 18)>>
                     /\ s = P!Labelled(top + 56, "Error_Code_raw", 18, 20, "err_code", 10)
                     /\ t = P!Foot(46)
  BY Zenon
<1>3. Laid(r, top, top + 42)
  <2>1. /\ 40 + 8 * 15 <= P!Width /\ 40 + 8 * 18 <= P!Width /\ top + 16 <= top + 26
        /\ top + 26 + 16 <= P!Height /\ top + 26 + 16 = top + 42
    BY DEF Large
  <2> QED BY <1>1, <1>2, <2>1, TextsInColumn
<1>4. Laid(s, top + 56, top + 72)
  <2>1. top + 56 + 16 <= 480 /\ top + 56 + 16 = top + 72 /\ top + 56 \in Int
    OBVIOUS
  <2>2. Laid(P!Labelled(top + 56, "Error_Code_raw", 18, 20, "err_code", 10),
             top + 56, top + 56 + 16)
    BY <1>1, <2>1, LabelledLaid
  <2> QED BY <1>2, <2>1, <2>2, Zenon
<1>5. Laid(t, P!Height - 28, P!Height - 6)
  <2>1. 8 * 46 <= 640 /\ 46 \in Nat
    OBVIOUS
  <2> QED BY <1>2, <2>1, FootLaid, Zenon
<1>6. Laid(r \o s, top, top + 72)
  BY <1>3, <1>4, LaidBelow
<1>7. Laid((r \o s) \o t, top, P!Height - 6)
  <2>1. P!Height - 28 \in Int /\ P!Height - 6 \in Int /\ top + 72 <= P!Height - 28
        /\ top + 72 <= P!Height - 6 /\ top <= P!Height - 28 /\ top + 72 \in Int
    BY DEF Large
  <2> QED BY <1>5, <1>6, <2>1, LaidBelow
<1> QED BY <1>2, <1>7, FaultReportIs, Zenon

After == IF arch = "x86_64" THEN 240 ELSE 166

ReportParts(s, t, l1, l2, l3, d, r, f) == ((((((s \o t) \o l1) \o l2) \o l3) \o d) \o r) \o f

ReportPlaces(a) ==
    /\ P!Report =
         ReportParts(Start,
             <<P!Caption("title", a, 6, 34), P!Caption("EXCEPTION", 40, 40, 12)>>,
             P!Labelled(66, "Exception", 10, 16, "number", 3),
             P!Labelled(88, "Error_Code", 13, 16, "code", 28),
             P!Labelled(110, "Description", 13, 16, "description", 44),
             <<P!Caption("REGISTER_DUMP", 40, 140, 17)>>,
             IF arch = "x86_64" THEN P!Registers(166) ELSE <<>>,
             IF int_no = 14 THEN P!FaultReport(After) ELSE <<>>)
    /\ 8 * 34 <= P!Width => a + 8 * 34 <= P!Width

LEMMA ReportIs == ASSUME P!Width \in Nat PROVE \E a \in Int : ReportPlaces(a)
<1>1. PICK a \in Int : /\ \A n, top : P!Centered(n, top, 34) = P!Caption(n, a, top, 34)
                       /\ 8 * 34 <= P!Width => a + 8 * 34 <= P!Width
  BY CenteredIs, 34 \in Nat, Zenon
<1>2. PICK y1, y2, y3, y4, y5, regions, last :
        /\ y1 = FH + 24 /\ y2 = FH + 24 + P!Line + 4
        /\ y3 = FH + 24 + P!Line + 4 + P!Line
        /\ y4 = FH + 24 + P!Line + 4 + 2 * P!Line
        /\ y5 = FH + 24 + P!Line + 4 + 3 * P!Line + 8
        /\ regions = FH + 24 + P!Line + 4 + 3 * P!Line + 8 + P!Line + 4
        /\ last = FH + 24 + P!Line + 4 + 3 * P!Line + 8 + P!Line + 4 + 3 * P!Line + 8
  BY Zenon
<1>3. /\ y1 = 40 /\ y2 = 66 /\ y3 = 88 /\ y4 = 110 /\ y5 = 140 /\ regions = 166 /\ last = 240
      /\ P!Left = 40 /\ P!CodeLength = 28 /\ P!DescLength = 44
  BY <1>2, CellIs DEF P!CodeLength, P!DescLength
<1>4. P!Report =
        ReportParts(Start,
            <<P!Centered("title", 6, 34), P!Caption("EXCEPTION", P!Left, y1, 12)>>,
            P!Labelled(y2, "Exception", 10, 16, "number", 3),
            P!Labelled(y3, "Error_Code", 13, 16, "code", P!CodeLength),
            P!Labelled(y4, "Description", 13, 16, "description", P!DescLength),
            <<P!Caption("REGISTER_DUMP", P!Left, y5, 17)>>,
            IF arch = "x86_64" THEN P!Registers(regions) ELSE <<>>,
            IF int_no = 14 THEN P!FaultReport(IF arch = "x86_64" THEN last ELSE regions)
            ELSE <<>>)
  BY <1>2, ZenonT(40) DEF P!Report, ReportParts, Start
<1>5. /\ y1 = 40 /\ y2 = 66 /\ y3 = 88 /\ y4 = 110 /\ y5 = 140
      /\ P!Left = 40 /\ P!CodeLength = 28 /\ P!DescLength = 44
  BY <1>3, Zenon
<1>6. <<P!Centered("title", 6, 34), P!Caption("EXCEPTION", P!Left, y1, 12)>>
        = <<P!Caption("title", a, 6, 34), P!Caption("EXCEPTION", 40, 40, 12)>>
  BY <1>1, <1>5, Zenon
<1>7. (IF arch = "x86_64" THEN last ELSE regions) = After /\ regions = 166
  BY <1>3, Zenon DEF After
<1>8. /\ P!Labelled(y2, "Exception", 10, 16, "number", 3)
           = P!Labelled(66, "Exception", 10, 16, "number", 3)
      /\ P!Labelled(y3, "Error_Code", 13, 16, "code", P!CodeLength)
           = P!Labelled(88, "Error_Code", 13, 16, "code", 28)
      /\ P!Labelled(y4, "Description", 13, 16, "description", P!DescLength)
           = P!Labelled(110, "Description", 13, 16, "description", 44)
      /\ <<P!Caption("REGISTER_DUMP", P!Left, y5, 17)>>
           = <<P!Caption("REGISTER_DUMP", 40, 140, 17)>>
  BY <1>5
<1>9. ReportPlaces(a)
  BY <1>1, <1>4, <1>6, <1>7, <1>8 DEF ReportPlaces
<1> QED BY <1>9, Zenon

LEMMA ReportLaid ==
  ASSUME Large, size \in Sizes
  PROVE  Laid(P!Report, 0, P!Height - 6)
<1>1. P!Width \in Nat
  BY DEF Large
<1>2. PICK a \in Int : ReportPlaces(a)
  BY <1>1, ReportIs, Zenon
<1>3. PICK t, l1, l2, l3, d, r, f :
        /\ t = <<P!Caption("title", a, 6, 34), P!Caption("EXCEPTION", 40, 40, 12)>>
        /\ l1 = P!Labelled(66, "Exception", 10, 16, "number", 3)
        /\ l2 = P!Labelled(88, "Error_Code", 13, 16, "code", 28)
        /\ l3 = P!Labelled(110, "Description", 13, 16, "description", 44)
        /\ d = <<P!Caption("REGISTER_DUMP", 40, 140, 17)>>
        /\ r = IF arch = "x86_64" THEN P!Registers(166) ELSE <<>>
        /\ f = IF int_no = 14 THEN P!FaultReport(After) ELSE <<>>
  BY Zenon
<1>4. {"title", "EXCEPTION", "Exception", "number", "Error_Code", "code", "Description",
       "description", "REGISTER_DUMP"} \subseteq Names
  BY DEF Names
<1>5. Laid(t, 6, 56)
  <2>1. /\ a + 8 * 34 <= P!Width /\ 40 + 8 * 12 <= P!Width /\ 6 + 16 <= 40
        /\ 40 + 16 <= P!Height /\ 40 + 16 = 56
    BY <1>2 DEF Large, ReportPlaces
  <2>2. Laid(<<P!Caption("title", a, 6, 34), P!Caption("EXCEPTION", 40, 40, 12)>>, 6, 40 + 16)
    BY <1>4, <2>1, TextsInColumn
  <2> QED BY <1>3, <2>1, <2>2
<1>6. Laid(l1, 66, 82)
  <2>1. Laid(P!Labelled(66, "Exception", 10, 16, "number", 3), 66, 66 + 16)
    BY <1>4, LabelledLaid
  <2>2. 66 + 16 = 82
    OBVIOUS
  <2> QED BY <1>3, <2>1, <2>2, Zenon
<1>7. Laid(l2, 88, 104)
  <2>1. Laid(P!Labelled(88, "Error_Code", 13, 16, "code", 28), 88, 88 + 16)
    BY <1>4, LabelledLaid
  <2>2. 88 + 16 = 104
    OBVIOUS
  <2> QED BY <1>3, <2>1, <2>2, Zenon
<1>8. Laid(l3, 110, 126)
  <2>1. Laid(P!Labelled(110, "Description", 13, 16, "description", 44), 110, 110 + 16)
    BY <1>4, LabelledLaid
  <2>2. 110 + 16 = 126
    OBVIOUS
  <2> QED BY <1>3, <2>1, <2>2, Zenon
<1>9. Laid(d, 140, 156)
  <2>1. 40 + 8 * 17 <= P!Width /\ 140 + 16 <= P!Height
    BY DEF Large
  <2> QED BY <1>3, <1>4, <2>1, OneText
<1>10. /\ Laid(r, 166, IF arch = "x86_64" THEN 226 ELSE 166)
       /\ Laid(f, After, P!Height - 6)
  <2>1. After \in Nat /\ After <= 240
    BY DEF After
  <2>2. Laid(P!FaultReport(After), After, P!Height - 6)
    BY <2>1, FaultReportLaid
  <2> QED BY <1>3, <2>2, RegistersLaid, LaidNone, Zenon
<1>11. Laid(Start \o t, 0, 56)
  BY <1>5, StartLaid, LaidBelow
<1>12. Laid((Start \o t) \o l1, 0, 82)
  BY <1>6, <1>11, LaidBelow
<1>13. Laid(((Start \o t) \o l1) \o l2, 0, 104)
  BY <1>7, <1>12, LaidBelow
<1>14. Laid((((Start \o t) \o l1) \o l2) \o l3, 0, 126)
  BY <1>8, <1>13, LaidBelow
<1>15. Laid(((((Start \o t) \o l1) \o l2) \o l3) \o d, 0, 156)
  BY <1>9, <1>14, LaidBelow
<1>16. PICK m : m = IF arch = "x86_64" THEN 226 ELSE 166
  OBVIOUS
<1>17. m \in Int /\ 156 <= m /\ 156 <= 166 /\ After \in Int /\ m <= After /\ 0 <= After
       /\ P!Height - 6 \in Int /\ m <= P!Height - 6
  BY <1>16 DEF After, Large
<1>18. Laid((((((Start \o t) \o l1) \o l2) \o l3) \o d) \o r, 0, m)
  <2>1. Laid(r, 166, m)
    BY <1>10, <1>16, Zenon
  <2> QED BY <1>15, <1>17, <2>1, LaidBelow
<1>19. Laid(ReportParts(Start, t, l1, l2, l3, d, r, f), 0, P!Height - 6)
  BY <1>10, <1>17, <1>18, LaidBelow DEF ReportParts
<1> QED BY <1>2, <1>3, <1>19 DEF ReportPlaces

-----------------------------------------------------------------------------
(* The fills of a screen of any size.                                        *)
Fitting(s) == s \in Seq(Boxes) /\ P!FillsFit(s)

LEMMA FitsCat ==
  ASSUME NEW s \in Seq(Boxes), NEW t \in Seq(Boxes)
  PROVE  s \o t \in Seq(Boxes) /\ (P!FillsFit(s \o t) <=> P!FillsFit(s) /\ P!FillsFit(t))
<1>1. /\ s \o t \in Seq(Boxes) /\ Len(s) \in Nat /\ Len(t) \in Nat
      /\ DOMAIN (s \o t) = 1 .. Len(s) + Len(t)
      /\ DOMAIN s = 1 .. Len(s) /\ DOMAIN t = 1 .. Len(t)
      /\ \A i \in 1 .. Len(s) : (s \o t)[i] = s[i]
      /\ \A i \in 1 .. Len(t) : (s \o t)[Len(s) + i] = t[i]
  BY CatIs
<1>2. ASSUME P!FillsFit(s), P!FillsFit(t) PROVE P!FillsFit(s \o t)
  <2>1. ASSUME NEW i \in DOMAIN (s \o t), (s \o t)[i].kind = "fill"
        PROVE  P!Inside((s \o t)[i])
    <3>1. \/ \E k \in DOMAIN s : (s \o t)[i] = s[k]
          \/ \E k \in DOMAIN t : (s \o t)[i] = t[k]
      BY CatParts, Zenon
    <3>2. PICK u : u = (s \o t)[i]
      OBVIOUS
    <3>3. u.kind = "fill"
      BY <2>1, <3>2, Zenon
    <3>4. CASE \E k \in DOMAIN s : u = s[k]
      <4>1. PICK k \in DOMAIN s : u = s[k]
        BY <3>4, Zenon
      <4> QED BY <1>2, <3>2, <3>3, <4>1, Zenon DEF P!FillsFit
    <3>5. CASE \E k \in DOMAIN t : u = t[k]
      <4>1. PICK k \in DOMAIN t : u = t[k]
        BY <3>5, Zenon
      <4> QED BY <1>2, <3>2, <3>3, <4>1, Zenon DEF P!FillsFit
    <3> QED BY <3>1, <3>2, <3>4, <3>5, Zenon
  <2> QED BY <2>1, Zenon DEF P!FillsFit
<1>3. ASSUME P!FillsFit(s \o t) PROVE P!FillsFit(s)
  <2>1. ASSUME NEW i \in DOMAIN s PROVE i \in DOMAIN (s \o t) /\ (s \o t)[i] = s[i]
    BY <1>1
  <2> QED BY <1>3, <2>1, Zenon DEF P!FillsFit
<1>4. ASSUME P!FillsFit(s \o t) PROVE P!FillsFit(t)
  <2>1. ASSUME NEW i \in DOMAIN t
        PROVE  Len(s) + i \in DOMAIN (s \o t) /\ (s \o t)[Len(s) + i] = t[i]
    BY <1>1
  <2> QED BY <1>4, <2>1, Zenon DEF P!FillsFit
<1> QED BY <1>1, <1>2, <1>3, <1>4, Zenon

LEMMA FittingCat == ASSUME NEW s, NEW t, Fitting(s), Fitting(t) PROVE Fitting(s \o t)
  BY FitsCat, Zenon DEF Fitting

LEMMA PairFits ==
  ASSUME NEW b \in Boxes, NEW d \in Boxes
  PROVE  /\ <<b, d>> \in Seq(Boxes)
         /\ P!FillsFit(<<b, d>>) <=> /\ b.kind = "fill" => P!Inside(b)
                                     /\ d.kind = "fill" => P!Inside(d)
<1>1. /\ <<b, d>> \in Seq(Boxes)
      /\ 1 \in DOMAIN <<b, d>> /\ 2 \in DOMAIN <<b, d>>
      /\ <<b, d>>[1] = b /\ <<b, d>>[2] = d
  OBVIOUS
<1>2. \A i \in DOMAIN <<b, d>> : <<b, d>>[i] \in {b, d}
  BY PairIs
<1>3. ASSUME P!FillsFit(<<b, d>>)
      PROVE  (b.kind = "fill" => P!Inside(b)) /\ (d.kind = "fill" => P!Inside(d))
  BY <1>1, <1>3, Zenon DEF P!FillsFit
<1>4. ASSUME b.kind = "fill" => P!Inside(b), d.kind = "fill" => P!Inside(d)
      PROVE  P!FillsFit(<<b, d>>)
  <2>1. ASSUME NEW i \in DOMAIN <<b, d>>, <<b, d>>[i].kind = "fill" PROVE P!Inside(<<b, d>>[i])
    <3>1. <<b, d>>[i] = b \/ <<b, d>>[i] = d
      BY <1>2, Zenon
    <3> QED BY <1>4, <2>1, <3>1, Zenon
  <2> QED BY <2>1, Zenon DEF P!FillsFit
<1> QED BY <1>1, <1>3, <1>4, Zenon

LEMMA OneFits ==
  ASSUME NEW b \in Boxes
  PROVE  <<b>> \in Seq(Boxes) /\ (P!FillsFit(<<b>>) <=> (b.kind = "fill" => P!Inside(b)))
<1>1. <<b>> \in Seq(Boxes) /\ DOMAIN <<b>> = {1} /\ <<b>>[1] = b
  BY OneIs, Zenon
<1> QED BY <1>1, Zenon DEF P!FillsFit

LEMMA TextsFit ==
  ASSUME NEW n \in Names, NEW m \in Names, NEW a \in Int, NEW b \in Int, NEW d \in Int,
         NEW e \in Int, NEW k \in Int, NEW l \in Int
  PROVE  Fitting(<<P!Caption(n, a, b, k), P!Caption(m, d, e, l)>>)
<1>1. PICK p \in Boxes : p = P!Caption(n, a, b, k) /\ p.kind = "text"
  BY CaptionIs
<1>2. PICK q \in Boxes : q = P!Caption(m, d, e, l) /\ q.kind = "text"
  BY CaptionIs
<1>3. ~(p.kind = "fill") /\ ~(q.kind = "fill")
  BY <1>1, <1>2
<1> QED BY <1>1, <1>2, <1>3, PairFits, Zenon DEF Fitting

LEMMA TextFits ==
  ASSUME NEW n \in Names, NEW a \in Int, NEW b \in Int, NEW k \in Int
  PROVE  Fitting(<<P!Caption(n, a, b, k)>>)
<1>1. PICK p \in Boxes : p = P!Caption(n, a, b, k) /\ p.kind = "text"
  BY CaptionIs
<1>2. ~(p.kind = "fill")
  BY <1>1
<1> QED BY <1>1, <1>2, OneFits, Zenon DEF Fitting

LEMMA FillsAre ==
  ASSUME NEW n \in Names, NEW a \in Int, NEW b \in Int, NEW w \in Int, NEW h \in Int,
         NEW m \in Names, NEW d \in Int, NEW e \in Int, NEW v \in Int, NEW g \in Int
  PROVE  /\ <<P!Fill(n, a, b, w, h), P!Fill(m, d, e, v, g)>> \in Seq(Boxes)
         /\ P!FillsFit(<<P!Fill(n, a, b, w, h), P!Fill(m, d, e, v, g)>>)
              <=> /\ a + w <= P!Width /\ b + h <= P!Height
                  /\ d + v <= P!Width /\ e + g <= P!Height
<1>1. PICK p \in Boxes : /\ p = P!Fill(n, a, b, w, h) /\ p.kind = "fill"
                         /\ p.x = a /\ p.y = b /\ p.w = w /\ p.h = h
  BY FillIs
<1>2. PICK q \in Boxes : /\ q = P!Fill(m, d, e, v, g) /\ q.kind = "fill"
                         /\ q.x = d /\ q.y = e /\ q.w = v /\ q.h = g
  BY FillIs
<1>3. /\ P!Inside(p) <=> a + w <= P!Width /\ b + h <= P!Height
      /\ P!Inside(q) <=> d + v <= P!Width /\ e + g <= P!Height
  BY <1>1, <1>2, Zenon DEF P!Inside
<1> QED BY <1>1, <1>2, <1>3, PairFits, Zenon

LEMMA FillIsAlone ==
  ASSUME NEW n \in Names, NEW a \in Int, NEW b \in Int, NEW w \in Int, NEW h \in Int
  PROVE  /\ <<P!Fill(n, a, b, w, h)>> \in Seq(Boxes)
         /\ P!FillsFit(<<P!Fill(n, a, b, w, h)>>) <=> a + w <= P!Width /\ b + h <= P!Height
<1>1. PICK p \in Boxes : /\ p = P!Fill(n, a, b, w, h) /\ p.kind = "fill"
                         /\ p.x = a /\ p.y = b /\ p.w = w /\ p.h = h
  BY FillIs
<1>2. P!Inside(p) <=> a + w <= P!Width /\ b + h <= P!Height
  BY <1>1, Zenon DEF P!Inside
<1> QED BY <1>1, <1>2, OneFits, Zenon

LEMMA FillTextFits ==
  ASSUME NEW n \in Names, NEW a \in Int, NEW b \in Int, NEW w \in Int, NEW h \in Int,
         NEW m \in Names, NEW d \in Int, NEW e \in Int, NEW k \in Int
  PROVE  /\ <<P!Fill(n, a, b, w, h), P!Caption(m, d, e, k)>> \in Seq(Boxes)
         /\ P!FillsFit(<<P!Fill(n, a, b, w, h), P!Caption(m, d, e, k)>>)
              <=> a + w <= P!Width /\ b + h <= P!Height
<1>1. PICK p \in Boxes : /\ p = P!Fill(n, a, b, w, h) /\ p.kind = "fill"
                         /\ p.x = a /\ p.y = b /\ p.w = w /\ p.h = h
  BY FillIs
<1>2. PICK q \in Boxes : q = P!Caption(m, d, e, k) /\ q.kind = "text"
  BY CaptionIs
<1>3. (P!Inside(p) <=> a + w <= P!Width /\ b + h <= P!Height) /\ ~(q.kind = "fill")
  <2>1. P!Inside(p) <=> a + w <= P!Width /\ b + h <= P!Height
    BY <1>1, Zenon DEF P!Inside
  <2> QED BY <1>2, <2>1
<1> QED BY <1>1, <1>2, <1>3, PairFits, Zenon

LEMMA TextFillFits ==
  ASSUME NEW n \in Names, NEW a \in Int, NEW b \in Int, NEW w \in Int, NEW h \in Int,
         NEW m \in Names, NEW d \in Int, NEW e \in Int, NEW k \in Int
  PROVE  /\ <<P!Caption(m, d, e, k), P!Fill(n, a, b, w, h)>> \in Seq(Boxes)
         /\ P!FillsFit(<<P!Caption(m, d, e, k), P!Fill(n, a, b, w, h)>>)
              <=> a + w <= P!Width /\ b + h <= P!Height
<1>1. PICK p \in Boxes : /\ p = P!Fill(n, a, b, w, h) /\ p.kind = "fill"
                         /\ p.x = a /\ p.y = b /\ p.w = w /\ p.h = h
  BY FillIs
<1>2. PICK q \in Boxes : q = P!Caption(m, d, e, k) /\ q.kind = "text"
  BY CaptionIs
<1>3. (P!Inside(p) <=> a + w <= P!Width /\ b + h <= P!Height) /\ ~(q.kind = "fill")
  <2>1. P!Inside(p) <=> a + w <= P!Width /\ b + h <= P!Height
    BY <1>1, Zenon DEF P!Inside
  <2> QED BY <1>2, <2>1
<1> QED BY <1>1, <1>2, <1>3, PairFits, Zenon

(* The pieces.                                                               *)
LEMMA StartFits ==
  ASSUME P!Width \in Nat, P!Height \in Nat
  PROVE  Start \in Seq(Boxes) /\ (P!FillsFit(Start) <=> P!Height >= 28)
<1>1. /\ "background" \in Names /\ "title_bar" \in Names
      /\ P!Width \in Int /\ P!Height \in Int /\ 0 \in Int /\ 28 \in Int
  BY DEF Names
<1>2. PICK s : s = <<P!Fill("background", 0, 0, P!Width, P!Height),
                     P!Fill("title_bar", 0, 0, P!Width, 28)>>
  OBVIOUS
<1>3. /\ s \in Seq(Boxes)
      /\ P!FillsFit(s) <=> /\ 0 + P!Width <= P!Width /\ 0 + P!Height <= P!Height
                           /\ 0 + P!Width <= P!Width /\ 0 + 28 <= P!Height
  BY <1>1, <1>2, FillsAre
<1>4. /\ 0 + P!Width <= P!Width /\ 0 + P!Height <= P!Height
      /\ (0 + 28 <= P!Height) <=> (P!Height >= 28)
  OBVIOUS
<1> QED BY <1>2, <1>3, <1>4, StartFills, Zenon

LEMMA FootFits ==
  ASSUME size \in Sizes, NEW k \in Nat
  PROVE  P!Foot(k) \in Seq(Boxes) /\ (P!FillsFit(P!Foot(k)) <=> P!Height >= 28)
<1>1. PICK a \in Int, f \in Int, t \in Int :
            /\ P!Foot(k) = <<P!Fill("foot_bar", 0, f, P!Width, 28), P!Caption("foot", a, t, k)>>
            /\ P!Height >= 28 => f = P!Height - 28 /\ t = P!Height - 22
            /\ P!Height < 28 => f > P!Height
  BY FootIs, Zenon
<1>2. "foot_bar" \in Names /\ "foot" \in Names
  BY DEF Names
<1>3. P!Width \in Int /\ P!Height \in Int /\ 0 \in Int /\ 28 \in Int /\ k \in Int
  BY SizeIs
<1>4. PICK s : s = <<P!Fill("foot_bar", 0, f, P!Width, 28), P!Caption("foot", a, t, k)>>
  OBVIOUS
<1>5. s \in Seq(Boxes) /\ (P!FillsFit(s) <=> 0 + P!Width <= P!Width /\ f + 28 <= P!Height)
  BY <1>2, <1>3, <1>4, FillTextFits
<1>6. 0 + P!Width <= P!Width /\ (f + 28 <= P!Height <=> P!Height >= 28)
  BY <1>1, <1>3
<1> QED BY <1>1, <1>4, <1>5, <1>6, Zenon

LEMMA BoxRowFits ==
  ASSUME P!Width \in Nat, NEW i \in 0 .. 4, NEW label \in Names, NEW value \in Names,
         NEW k \in Int
  PROVE  Fitting(P!BoxRow(i, 112, label, value, k))
<1>1. PICK a \in Int, b \in Int, d \in Int :
        /\ a = P!Width \div 6 + 16 /\ b = P!Width \div 6 + 16 + FW * 13
        /\ d = 112 + 8 + (FH + 4) * i
  BY CellIs
<1>2. Fitting(<<P!Caption(label, a, d, 13), P!Caption(value, b, d, k)>>)
  BY <1>1, TextsFit
<1> QED BY <1>1, <1>2, Zenon DEF P!BoxRow

LEMMA NoneFits == Fitting(<<>>)
<1>1. <<>> \in Seq(Boxes) /\ DOMAIN <<>> = {}
  OBVIOUS
<1> QED BY <1>1, Zenon DEF Fitting, P!FillsFit

LEMMA BoxRowsFit == ASSUME P!Width \in Nat PROVE Fitting(P!BoxRows)
<1>1. /\ P!BoxTop = 112 /\ P!CodeLength = 28 /\ P!DescLength = 44 /\ P!Hex64 = 18
  BY CellIs DEF P!CodeLength, P!DescLength, P!Hex64
<1>2. {"Error_Code", "code", "Description", "description", "Exception", "number",
       "Architecture", "arch", "Fault_Addr", "cr2"} \subseteq Names
  BY DEF Names
<1>3. PICK r0, r1, r2, r3, r4 :
        /\ r0 = P!BoxRow(0, 112, "Error_Code", "code", 28)
        /\ r1 = P!BoxRow(1, 112, "Description", "description", 44)
        /\ r2 = P!BoxRow(2, 112, "Exception", "number", 13)
        /\ r3 = P!BoxRow(3, 112, "Architecture", "arch", 6)
        /\ r4 = IF int_no = 14 THEN P!BoxRow(4, 112, "Fault_Addr", "cr2", 18) ELSE <<>>
  BY Zenon
<1>4. Fitting(r0)
  BY <1>2, <1>3, BoxRowFits
<1>5. Fitting(r1)
  BY <1>2, <1>3, BoxRowFits
<1>6. Fitting(r2)
  BY <1>2, <1>3, BoxRowFits
<1>7. Fitting(r3)
  BY <1>2, <1>3, BoxRowFits
<1>8. Fitting(r4)
  <2>1. Fitting(P!BoxRow(4, 112, "Fault_Addr", "cr2", 18))
    BY <1>2, BoxRowFits
  <2> QED BY <1>3, <2>1, NoneFits, Zenon
<1>9. Fitting((((r0 \o r1) \o r2) \o r3) \o r4)
  BY <1>4, <1>5, <1>6, <1>7, <1>8, FittingCat, Zenon
<1>10. P!BoxRows = (((r0 \o r1) \o r2) \o r3) \o r4
  BY <1>1, <1>3, ZenonT(40) DEF P!BoxRows
<1> QED BY <1>9, <1>10

LEMMA ButtonFits ==
  ASSUME P!Width \in Nat, P!Height \in Nat, NEW a \in Int
  PROVE  /\ P!Button("diagnostic", a, 252, 31) \in Seq(Boxes)
         /\ P!FillsFit(P!Button("diagnostic", a, 252, 31))
              <=> a + 272 <= P!Width /\ 280 <= P!Height
<1>1. {"button", "top", "bottom", "left", "right", "diagnostic"} \subseteq Names
  BY DEF Names
<1>2. PICK p : p = <<P!Fill("button", a, 252, 272, 28)>>
  OBVIOUS
<1>3. PICK q : q = <<P!Fill("top", a, 252, 272, 1), P!Fill("bottom", a, 279, 272, 1)>>
  OBVIOUS
<1>4. PICK r : r = <<P!Fill("left", a, 252, 1, 28), P!Fill("right", a + 272 - 1, 252, 1, 28)>>
  OBVIOUS
<1>5. PICK t : t = <<P!Caption("diagnostic", a + 12, 258, 31)>>
  OBVIOUS
<1>6. p \in Seq(Boxes) /\ (P!FillsFit(p) <=> a + 272 <= P!Width /\ 252 + 28 <= P!Height)
  BY <1>1, <1>2, FillIsAlone
<1>7. q \in Seq(Boxes) /\ (P!FillsFit(q) <=> /\ a + 272 <= P!Width /\ 252 + 1 <= P!Height
                                            /\ a + 272 <= P!Width /\ 279 + 1 <= P!Height)
  BY <1>1, <1>3, FillsAre
<1>8. r \in Seq(Boxes) /\ (P!FillsFit(r) <=> /\ a + 1 <= P!Width /\ 252 + 28 <= P!Height
                                            /\ a + 272 - 1 + 1 <= P!Width /\ 252 + 28 <= P!Height)
  <2>1. a + 272 - 1 \in Int
    OBVIOUS
  <2> QED BY <1>1, <1>4, <2>1, FillsAre
<1>9. Fitting(t)
  <2>1. a + 12 \in Int
    OBVIOUS
  <2> QED BY <1>1, <1>5, <2>1, TextFits
<1>10. /\ q \o r \in Seq(Boxes)
       /\ P!FillsFit(q \o r) <=> P!FillsFit(q) /\ P!FillsFit(r)
  BY <1>7, <1>8, FitsCat, Zenon
<1>11. /\ p \o (q \o r) \in Seq(Boxes)
       /\ P!FillsFit(p \o (q \o r)) <=> P!FillsFit(p) /\ P!FillsFit(q \o r)
  BY <1>6, <1>10, FitsCat, Zenon
<1>12. /\ (p \o (q \o r)) \o t \in Seq(Boxes)
       /\ P!FillsFit((p \o (q \o r)) \o t) <=> P!FillsFit(p \o (q \o r))
  BY <1>9, <1>11, FitsCat, Zenon DEF Fitting
<1>13. P!Button("diagnostic", a, 252, 31) = (p \o (q \o r)) \o t
  <2>1. P!Button("diagnostic", a, 252, 31)
           = (<<P!Fill("button", a, 252, 272, 28)>>
              \o (<<P!Fill("top", a, 252, 272, 1), P!Fill("bottom", a, 279, 272, 1)>>
                  \o <<P!Fill("left", a, 252, 1, 28), P!Fill("right", a + 272 - 1, 252, 1, 28)>>))
             \o <<P!Caption("diagnostic", a + 12, 258, 31)>>
    BY ButtonIs
  <2> QED BY <1>2, <1>3, <1>4, <1>5, <2>1
<1>14. /\ a + 272 <= P!Width /\ 252 + 28 <= P!Height <=> a + 272 <= P!Width /\ 280 <= P!Height
       /\ a + 272 <= P!Width /\ 280 <= P!Height =>
            /\ 252 + 1 <= P!Height /\ 279 + 1 <= P!Height /\ a + 1 <= P!Width
            /\ a + 272 - 1 + 1 <= P!Width
  OBVIOUS
<1>15. P!FillsFit((p \o (q \o r)) \o t) <=> P!FillsFit(p) /\ P!FillsFit(q) /\ P!FillsFit(r)
  BY <1>10, <1>11, <1>12, Zenon
<1>16. /\ P!FillsFit(p) => a + 272 <= P!Width /\ 280 <= P!Height
       /\ a + 272 <= P!Width /\ 280 <= P!Height =>
            P!FillsFit(p) /\ P!FillsFit(q) /\ P!FillsFit(r)
  BY <1>6, <1>7, <1>8, <1>14
<1> QED BY <1>12, <1>13, <1>15, <1>16, Zenon

(* The button is what needs room.                                            *)
LEMMA MainFits ==
  ASSUME size \in Sizes
  PROVE  /\ P!MainScreen \in Seq(Boxes)
         /\ P!FillsFit(P!MainScreen) <=> P!Width >= 311 /\ P!Height >= 280
<1>1. PICK a \in Int, b \in Int, c1 \in Int, c2 \in Int, c3 \in Int, c4 \in Int, c5 \in Int :
        MainPlaces(a, b, c1, c2, c3, c4, c5)
  BY MainIs, Zenon
<1>2. /\ P!Width \in Nat /\ P!Height \in Nat /\ P!Width \in 1 .. Uint - 1
      /\ Uint \in Nat /\ Uint >= 1024
  BY SizeIs
<1>3. PICK t : t = <<P!Caption("title", a, 6, 25), P!Caption("detected", b, 48, 35)>>
  OBVIOUS
<1>4. PICK box : box = <<P!Caption("halted", c1, 72, 45), P!Fill("box", c2, 112, c3, 120)>>
  OBVIOUS
<1>5. PICK u : u = <<P!Caption("issue", c5, 300, 44), P!Caption("address", c1, 322, 45)>>
  OBVIOUS
<1>6. {"title", "detected", "halted", "box", "issue", "address"} \subseteq Names
  BY DEF Names
<1>7. Fitting(t) /\ Fitting(u)
  <2>1. Fitting(t)
    BY <1>3, <1>6, TextsFit
  <2>2. Fitting(u)
    BY <1>5, <1>6, TextsFit
  <2> QED BY <2>1, <2>2
<1>8. box \in Seq(Boxes) /\ (P!FillsFit(box) <=> 232 <= P!Height)
  <2>1. box \in Seq(Boxes) /\ (P!FillsFit(box) <=> c2 + c3 <= P!Width /\ 112 + 120 <= P!Height)
    BY <1>4, <1>6, TextFillFits
  <2>2. c2 + c3 <= P!Width /\ 112 + 120 = 232
    BY <1>1, <1>2 DEF MainPlaces
  <2> QED BY <2>1, <2>2, Zenon
<1>9. PICK button : button = P!Button("diagnostic", c4, 252, 31)
  OBVIOUS
<1>10. button \in Seq(Boxes)
       /\ (P!FillsFit(button) <=> c4 + 272 <= P!Width /\ 280 <= P!Height)
  <2>1. /\ P!Button("diagnostic", c4, 252, 31) \in Seq(Boxes)
        /\ P!FillsFit(P!Button("diagnostic", c4, 252, 31))
             <=> c4 + 272 <= P!Width /\ 280 <= P!Height
    BY <1>2, ButtonFits
  <2> QED BY <1>9, <2>1
<1>11. PICK f : f = P!Foot(49)
  OBVIOUS
<1>12. f \in Seq(Boxes) /\ (P!FillsFit(f) <=> P!Height >= 28)
  BY <1>11, FootFits
<1>13. Start \in Seq(Boxes) /\ (P!FillsFit(Start) <=> P!Height >= 28)
  BY <1>2, StartFits, Zenon
<1>14. PICK s1 : s1 = Start \o t
  OBVIOUS
<1>15. PICK s2 : s2 = s1 \o box
  OBVIOUS
<1>16. PICK s3 : s3 = s2 \o P!BoxRows
  OBVIOUS
<1>17. PICK s4 : s4 = s3 \o button
  OBVIOUS
<1>18. PICK s5 : s5 = s4 \o u
  OBVIOUS
<1>19. s1 \in Seq(Boxes) /\ (P!FillsFit(s1) <=> P!FillsFit(Start))
  BY <1>7, <1>13, <1>14, FitsCat, Zenon DEF Fitting
<1>20. s2 \in Seq(Boxes) /\ (P!FillsFit(s2) <=> P!FillsFit(s1) /\ P!FillsFit(box))
  BY <1>8, <1>15, <1>19, FitsCat, Zenon
<1>21. s3 \in Seq(Boxes) /\ (P!FillsFit(s3) <=> P!FillsFit(s2))
  BY <1>2, <1>16, <1>20, BoxRowsFit, FitsCat, Zenon DEF Fitting
<1>22. s4 \in Seq(Boxes) /\ (P!FillsFit(s4) <=> P!FillsFit(s3) /\ P!FillsFit(button))
  BY <1>10, <1>17, <1>21, FitsCat, Zenon
<1>23. s5 \in Seq(Boxes) /\ (P!FillsFit(s5) <=> P!FillsFit(s4))
  BY <1>7, <1>18, <1>22, FitsCat, Zenon DEF Fitting
<1>24. s5 \o f \in Seq(Boxes) /\ (P!FillsFit(s5 \o f) <=> P!FillsFit(s5) /\ P!FillsFit(f))
  BY <1>12, <1>23, FitsCat, Zenon
<1>25. P!MainScreen = s5 \o f
  BY <1>1, <1>3, <1>4, <1>5, <1>9, <1>11, <1>14, <1>15, <1>16, <1>17, <1>18
     DEF MainParts, MainPlaces
<1>26. c4 + 272 <= P!Width <=> P!Width >= 311
  <2>1. P!Minus(P!Width, 232) = Wrapped(P!Width, 232)
    BY Minus232
  <2>3. CASE P!Width >= 232
    BY <1>1, <1>2, <2>1, <2>3 DEF Wrapped, MainPlaces
  <2>4. CASE P!Width < 232
    <3>1. c4 = (P!Width - 232 + Uint) \div 2
      BY <1>1, <1>2, <2>1, <2>4 DEF Wrapped, MainPlaces
    <3>2. c4 >= 0
      BY <1>2, <3>1
    <3> QED BY <1>2, <2>4, <3>2
  <2> QED BY <1>2, <2>3, <2>4
<1>27. P!FillsFit(P!MainScreen)
         <=> P!FillsFit(Start) /\ P!FillsFit(box) /\ P!FillsFit(button) /\ P!FillsFit(f)
  BY <1>19, <1>20, <1>21, <1>22, <1>23, <1>24, <1>25, Zenon
<1>28. /\ P!Height >= 280 => P!Height >= 28 /\ 232 <= P!Height
       /\ 280 <= P!Height <=> P!Height >= 280
  BY <1>2
<1>29. P!FillsFit(P!MainScreen) <=> P!Width >= 311 /\ P!Height >= 280
  BY <1>8, <1>10, <1>12, <1>13, <1>26, <1>27, <1>28
<1> QED BY <1>24, <1>25, <1>29, Zenon

LEMMA LabelledFits ==
  ASSUME NEW top \in Int, NEW label \in Names, NEW value \in Names, NEW k \in Nat,
         NEW col \in Nat, NEW m \in Nat
  PROVE  Fitting(P!Labelled(top, label, k, col, value, m))
<1>1. 40 + 8 * col \in Int /\ 40 \in Int /\ k \in Int /\ m \in Int
  OBVIOUS
<1>2. Fitting(<<P!Caption(label, 40, top, k), P!Caption(value, 40 + 8 * col, top, m)>>)
  BY <1>1, TextsFit
<1> QED BY <1>2, LabelledIs, Zenon

LEMMA RegisterRowFits ==
  ASSUME NEW top \in Int, NEW r \in Names, NEW s \in Names
  PROVE  Fitting(P!RegisterRow(top, r, s))
<1>1. "label" \in Names
  BY DEF Names
<1>2. P!Left + FW * 28 = 264 /\ P!Left + FW * 34 = 312 /\ P!Hex64 = 18
  BY CellIs DEF P!Hex64
<1>3. Fitting(P!Labelled(top, "label", 5, 8, r, 18))
  BY <1>1, LabelledFits
<1>4. Fitting(<<P!Caption("label", 264, top, 5), P!Caption(s, 312, top, 18)>>)
  BY <1>1, TextsFit
<1>5. PICK p, q : /\ p = P!Labelled(top, "label", 5, 8, r, 18)
                  /\ q = <<P!Caption("label", 264, top, 5), P!Caption(s, 312, top, 18)>>
  BY Zenon
<1>6. P!RegisterRow(top, r, s) = p \o q
  <2>1. <<P!Caption("label", P!Left + FW * 28, top, 5),
          P!Caption(s, P!Left + FW * 34, top, 18)>> = q
    BY <1>2, <1>5, Zenon
  <2> QED BY <1>2, <1>5, <2>1, Zenon DEF P!RegisterRow
<1>7. Fitting(p) /\ Fitting(q)
  BY <1>3, <1>4, <1>5
<1> QED BY <1>6, <1>7, FittingCat, Zenon

LEMMA LastRegistersFit ==
  ASSUME NEW top \in Int
  PROVE  Fitting(P!LastRegisters(top))
<1>1. {"EBX_label", "EBX", "ECX_label", "ECX", "EDX_label", "EDX"} \subseteq Names
  BY DEF Names
<1>2. P!Left + FW * 20 = 200 /\ P!Left + FW * 26 = 248 /\ P!Hex64 = 18
  BY CellIs DEF P!Hex64
<1>3. Fitting(P!Labelled(top, "EBX_label", 5, 8, "EBX", 18))
  BY <1>1, LabelledFits
<1>4. Fitting(<<P!Caption("ECX_label", 200, top, 5), P!Caption("ECX", 248, top, 18)>>)
  BY <1>1, TextsFit
<1>5. Fitting(P!Labelled(top, "EDX_label", 6, 8, "EDX", 18))
  BY <1>1, LabelledFits
<1>6. PICK p, q, r : /\ p = P!Labelled(top, "EBX_label", 5, 8, "EBX", 18)
                     /\ q = <<P!Caption("ECX_label", 200, top, 5),
                              P!Caption("ECX", 248, top, 18)>>
                     /\ r = P!Labelled(top, "EDX_label", 6, 8, "EDX", 18)
  BY Zenon
<1>7. P!LastRegisters(top) = (p \o q) \o r
  <2>1. <<P!Caption("ECX_label", P!Left + FW * 20, top, 5),
          P!Caption("ECX", P!Left + FW * 26, top, 18)>> = q
    BY <1>2, <1>6, Zenon
  <2> QED BY <1>2, <1>6, <2>1, Zenon DEF P!LastRegisters
<1>8. Fitting(p) /\ Fitting(q) /\ Fitting(r)
  BY <1>3, <1>4, <1>5, <1>6, Zenon
<1>9. Fitting(p \o q)
  BY <1>8, FittingCat, Zenon
<1> QED BY <1>7, <1>8, <1>9, FittingCat, Zenon

LEMMA RegistersFit == Fitting(P!Registers(166))
<1>1. {"RIP", "RSP", "RBP", "RAX"} \subseteq Names
  BY DEF Names
<1>2. PICK y1 \in Int, y2 \in Int : y1 = 166 + P!Line /\ y2 = 166 + 2 * P!Line
  BY CellIs
<1>3. PICK r, s, t : /\ r = P!RegisterRow(166, "RIP", "RSP")
                     /\ s = P!RegisterRow(y1, "RBP", "RAX") /\ t = P!LastRegisters(y2)
  BY Zenon
<1>4. Fitting(r)
  BY <1>1, <1>3, RegisterRowFits
<1>5. Fitting(s)
  BY <1>1, <1>3, RegisterRowFits
<1>6. Fitting(t)
  BY <1>3, LastRegistersFit, Zenon
<1>7. P!Registers(166) = (r \o s) \o t
  BY <1>2, <1>3, Zenon DEF P!Registers
<1> QED BY <1>4, <1>5, <1>6, <1>7, FittingCat, Zenon

LEMMA FaultReportFits ==
  ASSUME size \in Sizes, P!Height >= 28, NEW top \in Nat
  PROVE  Fitting(P!FaultReport(top))
<1>1. {"FAULT_ADDRESS", "cr2", "Error_Code_raw", "err_code"} \subseteq Names
  BY DEF Names
<1>2. PICK r, s, t : /\ r = <<P!Caption("FAULT_ADDRESS", 40, top, 15),
                              P!Caption("cr2", 40, top + 26, 18)>>
                     /\ s = P!Labelled(top + 56, "Error_Code_raw", 18, 20, "err_code", 10)
                     /\ t = P!Foot(46)
  BY Zenon
<1>3. Fitting(r)
  <2>1. top \in Int /\ top + 26 \in Int
    OBVIOUS
  <2> QED BY <1>1, <1>2, <2>1, TextsFit
<1>4. Fitting(s)
  <2>1. top + 56 \in Int
    OBVIOUS
  <2>2. Fitting(P!Labelled(top + 56, "Error_Code_raw", 18, 20, "err_code", 10))
    BY <1>1, <2>1, LabelledFits
  <2> QED BY <1>2, <2>2, Zenon
<1>5. Fitting(t)
  BY <1>2, FootFits DEF Fitting
<1> QED BY <1>2, <1>3, <1>4, <1>5, FaultReportIs, FittingCat, Zenon

LEMMA ReportFits ==
  ASSUME size \in Sizes, P!Height >= 28
  PROVE  Fitting(P!Report)
<1>1. P!Width \in Nat /\ P!Height \in Nat
  BY SizeIs
<1>2. PICK a \in Int : ReportPlaces(a)
  BY <1>1, ReportIs, Zenon
<1>3. PICK t, l1, l2, l3, d, r, f :
        /\ t = <<P!Caption("title", a, 6, 34), P!Caption("EXCEPTION", 40, 40, 12)>>
        /\ l1 = P!Labelled(66, "Exception", 10, 16, "number", 3)
        /\ l2 = P!Labelled(88, "Error_Code", 13, 16, "code", 28)
        /\ l3 = P!Labelled(110, "Description", 13, 16, "description", 44)
        /\ d = <<P!Caption("REGISTER_DUMP", 40, 140, 17)>>
        /\ r = IF arch = "x86_64" THEN P!Registers(166) ELSE <<>>
        /\ f = IF int_no = 14 THEN P!FaultReport(After) ELSE <<>>
  BY Zenon
<1>4. {"title", "EXCEPTION", "Exception", "number", "Error_Code", "code", "Description",
       "description", "REGISTER_DUMP"} \subseteq Names
  BY DEF Names
<1>5. Fitting(t)
  BY <1>3, <1>4, TextsFit
<1>6. Fitting(l1)
  <2>1. Fitting(P!Labelled(66, "Exception", 10, 16, "number", 3))
    BY <1>4, LabelledFits
  <2> QED BY <1>3, <2>1, Zenon
<1>7. Fitting(l2)
  <2>1. Fitting(P!Labelled(88, "Error_Code", 13, 16, "code", 28))
    BY <1>4, LabelledFits
  <2> QED BY <1>3, <2>1, Zenon
<1>8. Fitting(l3)
  <2>1. Fitting(P!Labelled(110, "Description", 13, 16, "description", 44))
    BY <1>4, LabelledFits
  <2> QED BY <1>3, <2>1, Zenon
<1>9. Fitting(d)
  BY <1>3, <1>4, TextFits
<1>10. Fitting(r)
  BY <1>3, RegistersFit, NoneFits, Zenon
<1>11. Fitting(f)
  <2>1. After \in Nat
    BY DEF After
  <2>2. Fitting(P!FaultReport(After))
    BY <2>1, FaultReportFits
  <2> QED BY <1>3, <2>2, NoneFits, Zenon
<1>12. Fitting(Start)
  BY <1>1, StartFits, Zenon DEF Fitting
<1>13. Fitting(ReportParts(Start, t, l1, l2, l3, d, r, f))
  <2>1. Fitting(Start \o t)
    BY <1>5, <1>12, FittingCat, Zenon
  <2>2. Fitting((Start \o t) \o l1)
    BY <1>6, <2>1, FittingCat, Zenon
  <2>3. Fitting(((Start \o t) \o l1) \o l2)
    BY <1>7, <2>2, FittingCat, Zenon
  <2>4. Fitting((((Start \o t) \o l1) \o l2) \o l3)
    BY <1>8, <2>3, FittingCat, Zenon
  <2>5. Fitting(((((Start \o t) \o l1) \o l2) \o l3) \o d)
    BY <1>9, <2>4, FittingCat, Zenon
  <2>6. Fitting((((((Start \o t) \o l1) \o l2) \o l3) \o d) \o r)
    BY <1>10, <2>5, FittingCat, Zenon
  <2> QED BY <1>11, <2>6, FittingCat, Zenon DEF ReportParts
<1> QED BY <1>2, <1>3, <1>13 DEF ReportPlaces

-----------------------------------------------------------------------------
(* What holds of the screen whatever has been drawn on it.                   *)
CanvasInv ==
    /\ size \in Sizes
    /\ P!Width >= 311 /\ P!Height >= 280 => P!FillsFit(canvas)
    /\ Large => Laid(canvas, 0, P!Height - 6)

LEMMA SameSize ==
  ASSUME size' = size
  PROVE  /\ P!Width' = P!Width /\ P!Height' = P!Height /\ (Large' <=> Large)
         /\ \A s, lo, hi : Laid(s, lo, hi)' <=> Laid(s, lo, hi)
         /\ \A s : P!FillsFit(s)' <=> P!FillsFit(s)
<1>1. P!Width' = P!Width /\ P!Height' = P!Height
  BY DEF P!Width, P!Height
<1>2. ASSUME NEW b PROVE P!Inside(b)' <=> P!Inside(b)
  BY <1>1, Zenon DEF P!Inside
<1>3. ASSUME NEW s, NEW lo, NEW hi PROVE Laid(s, lo, hi)' <=> Laid(s, lo, hi)
  BY <1>2, Zenon DEF Laid, P!Meet
<1>4. ASSUME NEW s PROVE P!FillsFit(s)' <=> P!FillsFit(s)
  BY <1>2, Zenon DEF P!FillsFit
<1>5. Large' <=> Large
  BY <1>1 DEF Large
<1> QED BY <1>1, <1>3, <1>4, <1>5, Zenon

LEMMA CanvasPart ==
  /\ ScreenInit => P!Init
  /\ [ScreenNext]_screenVars => P!Next \/ UNCHANGED canvasOwn
<1>1. ScreenInit => P!Init
  BY Zenon DEF ScreenInit
<1>2. [ScreenNext]_screenVars => P!Next \/ UNCHANGED canvasOwn
  BY Zenon DEF ScreenNext, screenVars, KeyboardStep, ConsoleStep, CanvasStep, RasterStep, BootStep
<1> QED BY <1>1, <1>2

LEMMA CanvasInvInit == P!Init => CanvasInv
<1> SUFFICES ASSUME P!Init PROVE CanvasInv
  OBVIOUS
<1>1. size \in Sizes /\ canvas = <<>>
  BY DEF P!Init
<1>2. P!FillsFit(<<>>)
  BY NoneFits, Zenon DEF Fitting
<1> QED BY <1>1, <1>2, LaidNone, Zenon DEF CanvasInv

LEMMA CanvasInvStep ==
  ASSUME CanvasInv, P!Next \/ UNCHANGED canvasOwn
  PROVE  CanvasInv'
<1>1. size' = size /\ (canvas' = canvas \/ canvas' = P!MainScreen \/ canvas' = P!Report)
  BY DEF P!Next, P!panic_draw_main, P!panic_draw_detail, canvasOwn
<1>2. size \in Sizes /\ P!Width \in Nat /\ P!Height \in Nat
  BY SizeIs DEF CanvasInv
<1>3. P!Height >= 280 => P!Height >= 28
  BY <1>2
<1>4. /\ P!Width >= 311 /\ P!Height >= 280 => P!FillsFit(canvas')
      /\ Large => Laid(canvas', 0, P!Height - 6)
  <2>1. CASE canvas' = canvas
    BY <2>1, Zenon DEF CanvasInv
  <2>2. CASE canvas' = P!MainScreen
    BY <1>2, <2>2, MainFits, MainLaid, Zenon
  <2>3. CASE canvas' = P!Report
    <3>1. Large => Laid(P!Report, 0, P!Height - 6)
      BY <1>2, ReportLaid, Zenon
    <3>2. P!Height >= 28 => P!FillsFit(P!Report)
      BY <1>2, ReportFits, Zenon DEF Fitting
    <3> QED BY <1>3, <2>3, <3>1, <3>2, Zenon
  <2> QED BY <1>1, <2>1, <2>2, <2>3, Zenon
<1> QED BY <1>1, <1>2, <1>4, SameSize, Zenon DEF CanvasInv

(* A text that lies under something drawn later is an excused one.           *)
LEMMA HiddenIsExcused ==
  ASSUME NEW lo, NEW hi, Laid(canvas, lo, hi)
  PROVE  P!Legible
<1>1. \A i \in DOMAIN canvas : P!Inside(canvas[i])
  BY Zenon DEF Laid
<1>2. \A i, j \in DOMAIN canvas :
         j > i /\ canvas[i].kind = "text" /\ P!Meet(canvas[i], canvas[j])
            => canvas[i].name \in Excused
  <2>1. DOMAIN canvas = 1 .. Len(canvas) /\ Len(canvas) \in Nat
    BY DEF Laid
  <2>2. \A i, j \in DOMAIN canvas : j > i => i < j
    BY <2>1
  <2> QED BY <2>2, Zenon DEF Laid
<1>3. P!Hidden \subseteq Excused
  BY <1>2, Zenon DEF P!Hidden
<1> QED BY <1>1, <1>3, Zenon DEF P!Legible, Excused

LEMMA CanvasInvAnswers == CanvasInv => ReportOnScreen
<1> SUFFICES ASSUME CanvasInv PROVE ReportOnScreen
  OBVIOUS
<1>1. size \in Sizes /\ P!Width \in Nat /\ P!Height \in Nat
  BY SizeIs DEF CanvasInv
<1>2. 36 * FW + 23 = 311 /\ 10 * FH + 120 = 280
  BY CellIs
<1>3. P!FillsFit(P!MainScreen) <=> P!Width >= 311 /\ P!Height >= 280
  BY <1>1, MainFits, Zenon
<1>4. P!FillsFit(P!MainScreen) => P!FillsFit(canvas)
  BY <1>3, Zenon DEF CanvasInv
<1>5. P!Width >= 640 /\ P!Height >= 480 => P!Legible
  <2>1. P!Width >= 640 /\ P!Height >= 480 => Large
    BY <1>1 DEF Large
  <2> QED BY <2>1, HiddenIsExcused, Zenon DEF CanvasInv
<1> QED BY <1>2, <1>3, <1>4, <1>5, Zenon DEF ReportOnScreen, P!ReportOnScreen

(* CanvasInv holds in every state of the composition.                        *)
THEOREM CanvasInvariant == ScreenSpec => []CanvasInv
<1>1. ScreenInit => CanvasInv
  BY CanvasInvInit, CanvasPart
<1>2. CanvasInv /\ [ScreenNext]_screenVars => CanvasInv'
  BY CanvasInvStep, CanvasPart
<1> QED BY <1>1, <1>2, PTL DEF ScreenSpec

(* kernel_panic's fills stay in the framebuffer exactly from 311 by 280      *)
(* pixels on, the report's whenever the main screen's do; from 640 by 480 on *)
(* every text is on the screen, and EDX alone is drawn over others.          *)
THEOREM PanicScreenCorrect == ScreenSpec => []ReportOnScreen
<1> QED BY CanvasInvAnswers, CanvasInvariant, PTL
=============================================================================
