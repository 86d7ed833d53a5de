-------------------------- MODULE DisplayWriterProofs --------------------------
(***************************************************************************)
(* Proofs about the kernel's text output, for every font, every spacing,   *)
(* every screen that has room for a character and every text.              *)
(***************************************************************************)
EXTENDS KernelMain, TLAPS

-----------------------------------------------------------------------------
(* Arithmetic of the grid.                                                 *)

(* The whole part of a quotient.                                           *)
LEMMA Quotient ==
  ASSUME NEW n \in Nat, NEW d \in Nat \ {0}
  PROVE  n \div d \in Nat /\ d * (n \div d) <= n /\ n < d * (n \div d) + d
BY SMT

LEMMA ProductMonotone ==
  ASSUME NEW a \in Nat, NEW b \in Nat, NEW c \in Nat, a <= b
  PROVE  a * c \in Nat /\ b * c \in Nat /\ a * c <= b * c
BY SMT

LEMMA Distribute ==
  ASSUME NEW a \in Nat, NEW b \in Nat, NEW c \in Nat
  PROVE  (a + b) * c = a * c + b * c /\ a * c = c * a
BY SMT

(* The column of a pixel is what its word number leaves modulo the stride. *)
LEMMA Remainder ==
  ASSUME NEW n \in Nat, NEW d \in Nat \ {0}, NEW q \in Nat, n < d
  PROVE  (n + q * d) % d = n
BY SMT

(* Cells of size `size` laid over `extent` pixels: at least one fits, and  *)
(* a pixel of a cell that fits is inside, also when pixels are left over.  *)
LEMMA CellInside ==
  ASSUME NEW extent \in Nat, NEW font \in Nat \ {0}, NEW spacing \in Nat, font + spacing <= extent
  PROVE  /\ extent \div (font + spacing) \in Nat \ {0}
         /\ \A cell \in Nat, x \in 0 .. font - 1 :
              cell < extent \div (font + spacing)
                => /\ cell * (font + spacing) + x \in Nat
                   /\ cell * (font + spacing) + x < extent
<1> DEFINE size == font + spacing
           n == extent \div size
<1>1. size \in Nat \ {0} /\ size <= extent /\ font <= size
  OBVIOUS
<1> HIDE DEF size
<1>2. n \in Nat /\ size * n <= extent /\ extent < size * n + size
  BY <1>1, Quotient
<1> HIDE DEF n
<1>3. n # 0
  <2>1. CASE n = 0
    <3>1. size * n = 0
      BY <1>1, <2>1
    <3> QED BY <1>1, <1>2, <3>1
  <2> QED BY <2>1
<1>4. ASSUME NEW cell \in Nat, NEW x \in 0 .. font - 1, cell < n
      PROVE  cell * size + x \in Nat /\ cell * size + x < extent
  <2>1. (cell + 1) * size <= n * size /\ cell * size \in Nat
    BY <1>1, <1>2, <1>4, ProductMonotone
  <2>2. (cell + 1) * size = cell * size + size
    <3>1. (cell + 1) * size = cell * size + 1 * size
      BY <1>1, Distribute
    <3> QED BY <1>1, <3>1
  <2>3. n * size = size * n
    BY <1>1, <1>2, Distribute
  <2>4. x \in Nat /\ x < size
    BY <1>1
  <2> QED BY <1>1, <1>2, <2>1, <2>2, <2>3, <2>4
<1> QED BY <1>2, <1>3, <1>4 DEF n, size

(* The grid is not empty, and what a cell covers is on the screen.         *)
LEMMA GridOnScreen ==
  ASSUME graphics_info \in Screens
  PROVE  /\ columns \in Nat \ {0} /\ lines \in Nat \ {0}
         /\ \A c \in Nat, x \in 0 .. FONT_WIDTH - 1 : c < columns
              => c * CellWidth + x \in Nat /\ c * CellWidth + x < graphics_info.w
         /\ \A l \in Nat, y \in 0 .. FONT_HEIGHT - 1 : l < lines
              => l * CellHeight + y \in Nat /\ l * CellHeight + y < graphics_info.h
<1>1. /\ FONT_WIDTH \in Nat \ {0} /\ FONT_HEIGHT \in Nat \ {0}
      /\ HORIZONTAL_SPACING \in Nat /\ VERTICAL_SPACING \in Nat
      /\ graphics_info.w \in Nat /\ graphics_info.h \in Nat
      /\ FONT_WIDTH + HORIZONTAL_SPACING <= graphics_info.w
      /\ FONT_HEIGHT + VERTICAL_SPACING <= graphics_info.h
  BY ScreenAssumption DEF CellWidth, CellHeight
<1>2. /\ columns \in Nat \ {0}
      /\ \A c \in Nat, x \in 0 .. FONT_WIDTH - 1 : c < columns
              => c * CellWidth + x \in Nat /\ c * CellWidth + x < graphics_info.w
  BY <1>1, CellInside DEF columns, CellWidth
<1>3. /\ lines \in Nat \ {0}
      /\ \A l \in Nat, y \in 0 .. FONT_HEIGHT - 1 : l < lines
              => l * CellHeight + y \in Nat /\ l * CellHeight + y < graphics_info.h
  BY <1>1, CellInside DEF lines, CellHeight
<1> QED BY <1>2, <1>3

(* A pixel of a cell of the grid is a word of the frame buffer, on the     *)
(* visible part of its scan line.                                          *)
LEMMA PixelInside ==
  ASSUME graphics_info \in Screens,
         NEW l \in Nat, l < lines, NEW c \in Nat, c < columns,
         NEW x \in 0 .. FONT_WIDTH - 1, NEW y \in 0 .. FONT_HEIGHT - 1
  PROVE  /\ Pixel(l, c, x, y) \in 0 .. graphics_info.stride * graphics_info.h - 1
         /\ Pixel(l, c, x, y) % graphics_info.stride < graphics_info.w
<1> DEFINE w == graphics_info.w
           h == graphics_info.h
           stride == graphics_info.stride
           px == c * CellWidth + x
           py == l * CellHeight + y
<1>1. px \in Nat /\ px < w /\ py \in Nat /\ py < h
  BY GridOnScreen
<1>2. w \in Nat /\ h \in Nat /\ stride \in Nat /\ w <= stride
  BY ScreenAssumption
<1>3. Pixel(l, c, x, y) = px + py * stride
  BY DEF Pixel
<1> HIDE DEF w, h, stride, px, py
<1>4. stride \in Nat \ {0} /\ px < stride
  BY <1>1, <1>2
<1>5. (py + 1) * stride <= h * stride /\ py * stride \in Nat
  BY <1>1, <1>2, ProductMonotone
<1>6. (py + 1) * stride = py * stride + stride
  <2>1. (py + 1) * stride = py * stride + 1 * stride
    BY <1>1, <1>2, Distribute
  <2> QED BY <1>2, <2>1
<1>7. h * stride = stride * h
  BY <1>2, Distribute
<1>8. h * stride \in Nat
  BY <1>2
<1>9. px + py * stride < h * stride
  BY <1>1, <1>4, <1>5, <1>6, <1>8
<1>10. (px + py * stride) % stride = px
  BY <1>1, <1>4, Remainder
<1>11. px + py * stride \in 0 .. stride * h - 1
  BY <1>1, <1>5, <1>7, <1>8, <1>9
<1> QED BY <1>1, <1>3, <1>10, <1>11 DEF stride, w, h

-----------------------------------------------------------------------------
(* The invariant.                                                          *)

(* What the current line shows to the left of the cursor: what has been    *)
(* written to it, and blanks where it is being cleared.                    *)
RowShown ==
  /\ Len(row) <= col
  /\ pc # "clear" => Len(row) = col
  /\ graphics_info.rgb =>
       \A c \in 0 .. col - 1 : cells[<<line, c>>] = IF c < Len(row) THEN row[c + 1] ELSE "blank"

(* The newline stays the first byte left until its line is cleared. *)
AtNewline == pc = "clear" => text # <<>>

WriterInv == TypeOK /\ CursorOnScreen /\ RowShown /\ AtNewline

LEMMA InitWriter == Init => WriterInv
<1> SUFFICES ASSUME Init PROVE WriterInv
  OBVIOUS
<1>1. columns \in Nat \ {0} /\ lines \in Nat \ {0}
  BY GridOnScreen DEF Init
<1>2. /\ line = 0 /\ col = 0 /\ text = <<>> /\ pc = "idle" /\ row = <<>>
      /\ graphics_info \in Screens /\ cells \in [Grid -> Glyphs]
  BY DEF Init, Glyphs
<1>3. TypeOK
  BY <1>2 DEF TypeOK
<1>4. CursorOnScreen
  BY <1>1, <1>2 DEF CursorOnScreen
<1>5. RowShown /\ AtNewline
  BY <1>2 DEF RowShown, AtNewline
<1> QED BY <1>3, <1>4, <1>5 DEF WriterInv

(* Every byte that is drawn has a glyph.                                   *)
LEMMA CharacterHasGlyph ==
  ASSUME NEW c \in Characters, c \notin {"newline", "high"}
  PROVE  get_character(c) \in Glyphs
BY DEF Characters, Glyphs, get_character

(* A step to a new line leaves the cursor on the screen, with nothing      *)
(* written to the line yet.                                                *)
LEMMA AdvanceLineSound ==
  ASSUME WriterInv, advance_line, UNCHANGED graphics_info
  PROVE  /\ line' \in Nat /\ line' < lines' /\ col' = 0 /\ col' < columns'
         /\ row' = <<>> /\ row' \in Seq(Glyphs) /\ Len(row') = 0
<1>1. columns \in Nat \ {0} /\ lines \in Nat \ {0} /\ columns' = columns /\ lines' = lines
  BY GridOnScreen DEF WriterInv, TypeOK, columns, lines
<1>2. line \in Nat
  BY DEF WriterInv, TypeOK
<1> QED BY <1>1, <1>2 DEF advance_line

(* Drawing a glyph at the cursor.                                          *)
LEMMA RenderSound ==
  ASSUME WriterInv, col < columns, NEW glyph \in Glyphs, render_character(glyph),
         UNCHANGED graphics_info
  PROVE  /\ cells' \in [Grid' -> Glyphs]
         /\ \A c \in 0 .. columns - 1 :
              cells'[<<line, c>>] = IF graphics_info.rgb /\ c = col THEN glyph
                                                                   ELSE cells[<<line, c>>]
<1>1. columns \in Nat /\ lines \in Nat /\ Grid' = Grid
  BY GridOnScreen DEF WriterInv, TypeOK, Grid, columns, lines
<1>2. line \in 0 .. lines - 1 /\ col \in 0 .. columns - 1 /\ cells \in [Grid -> Glyphs]
  BY <1>1 DEF WriterInv, TypeOK, CursorOnScreen
<1>3. <<line, col>> \in Grid /\ \A c \in 0 .. columns - 1 : <<line, c>> \in Grid
  BY <1>2 DEF Grid
<1>4. cells' = IF graphics_info.rgb THEN [cells EXCEPT ![<<line, col>>] = glyph] ELSE cells
  BY DEF render_character
<1>5. ASSUME NEW c \in 0 .. columns - 1 PROVE <<line, c>> = <<line, col>> <=> c = col
  OBVIOUS
<1> QED BY <1>1, <1>2, <1>3, <1>4, <1>5

LEMMA NextWriter == WriterInv /\ [Next]_vars => WriterInv'
<1> SUFFICES ASSUME WriterInv, [Next]_vars PROVE WriterInv'
  OBVIOUS
<1>0. columns \in Nat \ {0} /\ lines \in Nat \ {0}
  BY GridOnScreen DEF WriterInv, TypeOK
<1>a. graphics_info' = graphics_info
  BY DEF Next, WriteStep, Done, NoGlyph, Put, NewLine, ClearCell, LineCleared, WriteStr, vars
<1>b. columns' = columns /\ lines' = lines /\ Grid' = Grid
  BY <1>a DEF columns, lines, Grid
<1>c. /\ graphics_info \in Screens /\ line \in Nat /\ col \in Nat
      /\ text \in Seq(Characters) /\ row \in Seq(Glyphs) /\ cells \in [Grid -> Glyphs]
      /\ pc \in {"idle", "byte", "clear", "panic"} /\ line < lines
      /\ pc # "clear" => col < columns /\ Len(row) = col
      /\ pc = "clear" => col <= columns
      /\ Len(row) <= col /\ Len(row) \in Nat
      /\ pc = "clear" => text # <<>>
  BY DEF WriterInv, TypeOK, CursorOnScreen, RowShown, AtNewline
<1>1. CASE UNCHANGED <<line, col, cells, row>> /\ pc' # "panic" /\ (pc = "clear" <=> pc' = "clear")
           /\ text' \in Seq(Characters) /\ (pc = "clear" => text' = text) /\ pc' \in {"idle", "byte", "clear", "panic"}
  <2>1. TypeOK' /\ CursorOnScreen'
    BY <1>1, <1>a, <1>b, <1>c DEF TypeOK, CursorOnScreen
  <2>2. RowShown' /\ AtNewline'
    BY <1>1, <1>a, <1>c DEF WriterInv, RowShown, AtNewline
  <2> QED BY <2>1, <2>2 DEF WriterInv
<1>2. ASSUME NEW s \in Texts, WriteStr(s) PROVE WriterInv'
  BY <1>1, <1>2, <1>c, ScreenAssumption DEF WriteStr
<1>3. CASE Done
  BY <1>1, <1>3, <1>c DEF Done
<1>4. CASE NoGlyph \/ NewLine
  <2>0. /\ UNCHANGED <<line, col, text, cells, row>> /\ pc = "byte"
        /\ pc' \in {"panic", "clear"} /\ text # <<>>
    BY <1>4 DEF NoGlyph, NewLine
  <2>1. TypeOK' /\ CursorOnScreen'
    BY <1>0, <1>a, <1>b, <1>c, <2>0 DEF TypeOK, CursorOnScreen
  <2>2. RowShown' /\ AtNewline'
    BY <2>0, <1>a DEF WriterInv, RowShown, AtNewline
  <2> QED BY <2>1, <2>2 DEF WriterInv
<1>5. CASE Put
  <2> DEFINE glyph == get_character(Head(text))
  <2>1. /\ pc = "byte" /\ pc' = pc /\ text # <<>> /\ text' = Tail(text)
        /\ render_character(glyph) /\ advance_column(glyph)
        /\ Head(text) \notin {"newline", "high"}
    BY <1>5 DEF Put
  <2>2. text' \in Seq(Characters) /\ Head(text) \in Characters
    BY <1>c, <2>1
  <2>3. glyph \in Glyphs
    BY <2>1, <2>2, CharacterHasGlyph
  <2> HIDE DEF glyph
  <2>4. /\ cells' \in [Grid' -> Glyphs]
        /\ \A c \in 0 .. columns - 1 :
              cells'[<<line, c>>] = IF graphics_info.rgb /\ c = col THEN glyph
                                                                   ELSE cells[<<line, c>>]
    BY <1>a, <1>c, <2>1, <2>3, RenderSound
  <2>5. CASE col + 1 >= columns
    <3>1. advance_line
      BY <2>1, <2>5 DEF advance_column
    <3>2. /\ line' \in Nat /\ line' < lines' /\ col' = 0 /\ col' < columns'
          /\ row' \in Seq(Glyphs) /\ Len(row') = 0
      BY <1>a, <3>1, AdvanceLineSound
    <3>3. TypeOK' /\ CursorOnScreen'
      BY <1>a, <1>c, <2>1, <2>2, <2>4, <3>2 DEF TypeOK, CursorOnScreen
    <3>4. RowShown' /\ AtNewline'
      BY <2>1, <3>2 DEF RowShown, AtNewline
    <3> QED BY <3>3, <3>4 DEF WriterInv
  <2>6. CASE ~(col + 1 >= columns)
    <3>1. col' = col + 1 /\ row' = Append(row, glyph) /\ line' = line
      BY <2>1, <2>6 DEF advance_column
    <3>2. row' \in Seq(Glyphs) /\ Len(row') = Len(row) + 1
      BY <1>c, <2>3, <3>1
    <3>3. \A c \in 0 .. col - 1 : row'[c + 1] = row[c + 1]
      BY <1>c, <2>1, <2>3, <3>1
    <3>4. row'[col + 1] = glyph
      BY <1>c, <2>1, <2>3, <3>1
    <3>5. TypeOK' /\ CursorOnScreen'
      BY <1>0, <1>a, <1>b, <1>c, <2>1, <2>2, <2>4, <2>6, <3>1, <3>2 DEF TypeOK, CursorOnScreen
    <3>6. ASSUME graphics_info.rgb, NEW c \in 0 .. col' - 1
          PROVE  cells'[<<line', c>>] = IF c < Len(row') THEN row'[c + 1] ELSE "blank"
      <4>1. c \in 0 .. columns - 1 /\ c < Len(row')
        BY <1>0, <1>c, <2>1, <2>6, <3>1, <3>2, <3>6
      <4>2. CASE c = col
        BY <2>4, <3>1, <3>4, <3>6, <4>1, <4>2
      <4>3. CASE c # col
        <5>1. c \in 0 .. col - 1 /\ c < Len(row)
          BY <1>c, <2>1, <3>1, <3>6, <4>3
        <5>2. cells[<<line, c>>] = row[c + 1]
          BY <3>6, <5>1 DEF WriterInv, RowShown
        <5> QED BY <2>4, <3>1, <3>3, <4>1, <4>3, <5>1, <5>2
      <4> QED BY <4>2, <4>3
    <3>7. RowShown' /\ AtNewline'
      BY <1>a, <1>c, <2>1, <3>1, <3>2, <3>6 DEF RowShown, AtNewline
    <3> QED BY <3>5, <3>7 DEF WriterInv
  <2> QED BY <2>5, <2>6
<1>6. CASE ClearCell
  <2>1. /\ pc = "clear" /\ pc' = pc /\ col < columns /\ render_character("blank")
        /\ col' = col + 1 /\ UNCHANGED <<line, text, row>>
    BY <1>6 DEF ClearCell
  <2>2. /\ cells' \in [Grid' -> Glyphs]
        /\ \A c \in 0 .. columns - 1 :
              cells'[<<line, c>>] = IF graphics_info.rgb /\ c = col THEN "blank"
                                                                   ELSE cells[<<line, c>>]
    BY <1>a, <2>1, RenderSound DEF Glyphs
  <2>3. TypeOK' /\ CursorOnScreen'
    BY <1>0, <1>a, <1>b, <1>c, <2>1, <2>2 DEF TypeOK, CursorOnScreen
  <2>4. ASSUME graphics_info.rgb, NEW c \in 0 .. col' - 1
        PROVE  cells'[<<line', c>>] = IF c < Len(row') THEN row'[c + 1] ELSE "blank"
    <3>1. c \in 0 .. columns - 1 /\ c \in 0 .. col
      BY <1>0, <1>c, <2>1, <2>4
    <3>2. CASE c = col
      BY <1>c, <2>1, <2>2, <2>4, <3>1, <3>2
    <3>3. CASE c # col
      <4>1. cells[<<line, c>>] = IF c < Len(row) THEN row[c + 1] ELSE "blank"
        BY <1>c, <2>4, <3>1, <3>3 DEF WriterInv, RowShown
      <4> QED BY <2>1, <2>2, <3>1, <3>3, <4>1
    <3> QED BY <3>2, <3>3
  <2>5. RowShown' /\ AtNewline'
    BY <1>a, <1>c, <2>1, <2>4 DEF RowShown, AtNewline
  <2> QED BY <2>3, <2>5 DEF WriterInv
<1>7. CASE LineCleared
  <2>1. pc = "clear" /\ pc' = "byte" /\ text' = Tail(text) /\ cells' = cells /\ advance_line
    BY <1>7 DEF LineCleared
  <2>2. /\ line' \in Nat /\ line' < lines' /\ col' = 0 /\ col' < columns'
        /\ row' \in Seq(Glyphs) /\ Len(row') = 0
    BY <1>a, <2>1, AdvanceLineSound
  <2>3. TypeOK' /\ CursorOnScreen'
    BY <1>a, <1>b, <1>c, <2>1, <2>2 DEF TypeOK, CursorOnScreen
  <2>4. RowShown' /\ AtNewline'
    BY <2>1, <2>2 DEF RowShown, AtNewline
  <2> QED BY <2>3, <2>4 DEF WriterInv
<1>8. CASE UNCHANGED vars
  BY <1>8 DEF vars, WriterInv, TypeOK, CursorOnScreen, RowShown, AtNewline, columns, lines, Grid
<1> QED BY <1>2, <1>3, <1>4, <1>5, <1>6, <1>7, <1>8 DEF Next, WriteStep

-----------------------------------------------------------------------------
(* The theorems, for the kernel's main and for any other caller.           *)

(* main changes the writer only by calling it.                             *)
LEMMA MainWrites == [MainNext]_all => [Next]_vars
<1> SUFFICES ASSUME [MainNext]_all PROVE Next \/ UNCHANGED vars
  OBVIOUS
<1>1. Lines \subseteq Texts
  BY DEF Lines
<1>2. CASE Release \/ Pause \/ UNCHANGED all
  BY <1>2 DEF Release, Pause, all
<1>3. CASE Hello \/ Found \/ ReportRegion \/ ReportRange \/ OtherCaller
  BY <1>1, <1>3 DEF Hello, Found, ReportRegion, ReportRange, OtherCaller, Writeln, Next
<1>4. CASE Drawing
  BY <1>4 DEF Drawing, Next
<1> QED BY <1>2, <1>3, <1>4 DEF MainNext, MainStep

(* The inductive invariant of the writer.                                  *)
THEOREM WriterInvariance == MainSpec => []WriterInv
<1>1. MainInit => WriterInv
  BY InitWriter DEF MainInit
<1>2. WriterInv /\ [MainNext]_all => WriterInv'
  BY NextWriter, MainWrites
<1> QED BY <1>1, <1>2, PTL DEF MainSpec

(* render_character writes inside the frame buffer and inside its scan     *)
(* line, wherever lines wrap and whatever pixels the grid leaves over.     *)
THEOREM DrawingSound == MainSpec => []DrawsInsideFrameBuffer
<1>1. WriterInv => DrawsInsideFrameBuffer
  <2> SUFFICES ASSUME WriterInv, pc = "byte" \/ (pc = "clear" /\ col < columns),
                      NEW x \in 0 .. FONT_WIDTH - 1, NEW y \in 0 .. FONT_HEIGHT - 1
               PROVE  /\ Pixel(line, col, x, y)
                           \in 0 .. graphics_info.stride * graphics_info.h - 1
                      /\ Pixel(line, col, x, y) % graphics_info.stride < graphics_info.w
    BY DEF WriterInv, DrawsInsideFrameBuffer
  <2>1. graphics_info \in Screens /\ line \in Nat /\ line < lines /\ col \in Nat /\ col < columns
    BY DEF WriterInv, TypeOK, CursorOnScreen
  <2> QED BY <2>1, PixelInside
<1> QED BY <1>1, WriterInvariance, PTL

(* A line that the cursor leaves shows what was written to it and nothing  *)
(* older.                                                                  *)
LEMMA LineShown ==
  ASSUME WriterInv, [Next]_vars, graphics_info.rgb, pc # "idle", LineLeft
  PROVE  LET shown == IF pc = "clear" THEN row ELSE Append(row, get_character(Head(text)))
         IN  \A c \in 0 .. columns - 1 :
               cells'[<<line, c>>] = IF c < Len(shown) THEN shown[c + 1] ELSE "blank"
<1>0. /\ columns \in Nat \ {0} /\ col \in Nat /\ row \in Seq(Glyphs) /\ Len(row) \in Nat
      /\ \A c \in 0 .. col - 1 : cells[<<line, c>>] = IF c < Len(row) THEN row[c + 1] ELSE "blank"
      /\ pc # "clear" => col < columns /\ Len(row) = col
  BY GridOnScreen DEF WriterInv, TypeOK, RowShown, CursorOnScreen
<1>1. CASE pc = "clear"
  <2>1. LineCleared
    BY <1>1 DEF LineLeft, Next, WriteStep, Done, NoGlyph, Put, NewLine, ClearCell, WriteStr, vars
  <2>2. col >= columns /\ cells' = cells
    BY <2>1 DEF LineCleared
  <2> QED BY <1>0, <1>1, <2>2
<1>2. CASE pc # "clear"
  <2> DEFINE glyph == get_character(Head(text))
             shown == Append(row, glyph)
  <2>1. Put
    BY <1>2 DEF LineLeft, Next, WriteStep, Done, NoGlyph, NewLine, ClearCell, LineCleared,
                WriteStr, vars
  <2>2. /\ text # <<>> /\ Head(text) \notin {"newline", "high"}
        /\ render_character(glyph) /\ advance_column(glyph) /\ graphics_info' = graphics_info
    BY <2>1 DEF Put
  <2>3. glyph \in Glyphs
    BY <2>2, CharacterHasGlyph DEF WriterInv, TypeOK
  <2>4. col + 1 = columns
    <3>1. text' # text /\ col' = 0
      BY <1>2 DEF LineLeft
    <3> QED BY <1>0, <1>2, <2>2, <3>1 DEF advance_column
  <2>5. \A c \in 0 .. columns - 1 :
          cells'[<<line, c>>] = IF c = col THEN glyph ELSE cells[<<line, c>>]
    BY <1>0, <1>2, <2>2, <2>3, RenderSound
  <2> HIDE DEF glyph
  <2>6. /\ Len(shown) = columns /\ shown[col + 1] = glyph
        /\ \A c \in 0 .. col - 1 : shown[c + 1] = row[c + 1]
    BY <1>0, <1>2, <2>3, <2>4
  <2> HIDE DEF shown
  <2>7. ASSUME NEW c \in 0 .. columns - 1
        PROVE  cells'[<<line, c>>] = IF c < Len(shown) THEN shown[c + 1] ELSE "blank"
    <3>1. c < Len(shown)
      BY <1>0, <2>6
    <3>2. CASE c = col
      BY <2>5, <2>6, <3>1, <3>2
    <3>3. CASE c # col
      <4>1. c \in 0 .. col - 1 /\ c < Len(row)
        BY <1>0, <1>2, <2>4, <3>3
      <4> QED BY <1>0, <2>5, <2>6, <3>1, <3>3, <4>1
    <3> QED BY <3>2, <3>3
  <2> QED BY <1>2, <2>7 DEF shown, glyph
<1> QED BY <1>1, <1>2

(* No stale text: NoStaleText holds of every step of the kernel.           *)
THEOREM NothingStale == MainSpec => NoStaleText
<1> DEFINE Shown == (graphics_info.rgb /\ pc # "idle" /\ LineLeft) =>
       LET shown == IF pc = "clear" THEN row ELSE Append(row, get_character(Head(text)))
       IN  \A c \in 0 .. columns - 1 :
             cells'[<<line, c>>] = IF c < Len(shown) THEN shown[c + 1] ELSE "blank"
<1>1. WriterInv /\ [Next]_vars => [Shown]_vars
  BY LineShown
<1>2. WriterInv /\ [MainNext]_all => [Shown]_vars
  BY <1>1, MainWrites
<1>3. NoStaleText <=> [][Shown]_vars
  BY DEF NoStaleText
<1> HIDE DEF Shown
<1> QED BY <1>2, <1>3, WriterInvariance, PTL DEF MainSpec

-----------------------------------------------------------------------------
(* What is left of a message of main has a glyph for every byte. *)
Printable == main # "none" => /\ pc # "panic"
                              /\ \A k \in 1 .. Len(text) : text[k] # "high"

(* The messages of main never end in the panic handler: none of their      *)
(* bytes is above `~`, where get_character would be out of bounds.         *)
THEOREM MainNeverPanics == MainSpec => [](main # "none" => pc # "panic")
<1>1. MainInit => Printable
  BY DEF MainInit, Init, Printable
<1>2. WriterInv /\ Printable /\ [MainNext]_all => Printable'
  <2> SUFFICES ASSUME WriterInv, Printable, [MainNext]_all, main' # "none" PROVE Printable'
    BY DEF Printable
  <2>1. CASE UNCHANGED <<text, pc>>
    <3>1. main # "none"
      BY <2>1 DEF MainNext, MainStep, Release, Pause, Hello, Found, ReportRegion, ReportRange,
                  Drawing, OtherCaller, all, kernel
    <3> QED BY <2>1, <3>1 DEF Printable
  <2>2. CASE Hello \/ Found \/ ReportRegion \/ ReportRange
    <3>1. PICK s \in Lines : WriteStr(s)
      BY <2>2 DEF Hello, Found, ReportRegion, ReportRange, Writeln
    <3>2. s \in Seq(Characters) /\ DOMAIN s = 1 .. Len(s)
      BY ScreenAssumption DEF Lines
    <3>3. \A k \in 1 .. Len(s) : s[k] # "high"
      BY <3>2 DEF Lines
    <3> QED BY <3>1, <3>3 DEF WriteStr, Printable
  <2>3. CASE Drawing
    <3>1. main # "none" /\ WriteStep /\ text \in Seq(Characters)
      BY <2>3 DEF Drawing, kernel, WriterInv, TypeOK
    <3>2. pc # "panic" /\ \A k \in 1 .. Len(text) : text[k] # "high"
      BY <3>1 DEF Printable
    <3>3. CASE Done \/ NewLine \/ ClearCell
      BY <3>2, <3>3 DEF Done, NewLine, ClearCell, Printable
    <3>4. CASE NoGlyph
      <4>1. text # <<>> /\ Head(text) = "high"
        BY <3>4 DEF NoGlyph
      <4>2. Len(text) \in Nat \ {0} /\ Head(text) = text[1]
        BY <3>1, <4>1
      <4> QED BY <3>2, <4>1, <4>2
    <3>5. CASE Put \/ LineCleared
      <4>1. text # <<>> /\ text' = Tail(text) /\ pc' \in {pc, "byte"}
        BY <3>5 DEF Put, LineCleared, WriterInv, AtNewline
      <4>2. Len(text') = Len(text) - 1 /\ Len(text) \in Nat
            /\ \A k \in 1 .. Len(text') : text'[k] = text[k + 1]
        BY <3>1, <4>1
      <4>3. \A k \in 1 .. Len(text') : text'[k] # "high"
        BY <3>2, <4>2
      <4> QED BY <3>2, <4>1, <4>3 DEF Printable
    <3> QED BY <3>1, <3>3, <3>4, <3>5 DEF WriteStep
  <2>4. CASE OtherCaller
    BY <2>4 DEF OtherCaller, kernel
  <2> QED BY <2>1, <2>2, <2>3, <2>4
          DEF MainNext, MainStep, Release, Pause, all, vars
<1>3. Printable => (main # "none" => pc # "panic")
  BY DEF Printable
<1> QED BY <1>1, <1>2, <1>3, WriterInvariance, PTL DEF MainSpec
=============================================================================
