---------------------------- MODULE DisplayWriter ----------------------------
(***************************************************************************)
(* DisplayWriter of kernel/src/rendering.rs, the kernel's only output: a   *)
(* cursor on a grid of character cells, drawn into the frame buffer pixel  *)
(* by pixel through a raw pointer.  A character stands for its glyph; a    *)
(* pixel is a word of the frame buffer.                                    *)
(***************************************************************************)
EXTENDS Integers, Sequences

CONSTANTS
  FONT_HEIGHT, FONT_WIDTH, VERTICAL_SPACING, HORIZONTAL_SPACING,
  Screens,  \* GraphicsInfo: w, h, stride and whether the format is drawn to
  Texts     \* strings that are written, as sequences of character classes

(* The bytes of a string, by what write_str does with them. *)
Characters == {"newline", "control", "a", "b", "high"}

CellWidth == FONT_WIDTH + HORIZONTAL_SPACING
CellHeight == FONT_HEIGHT + VERTICAL_SPACING

(* The boot loader maps stride * h pixels, and a scan line holds w of them *)
(* at least.  That the mode it selects has room for a character is what    *)
(* rendering.rs relies on and nobody checks.                               *)
ASSUME ScreenAssumption ==
  /\ {FONT_HEIGHT, FONT_WIDTH} \subseteq Nat \ {0}
  /\ {VERTICAL_SPACING, HORIZONTAL_SPACING} \subseteq Nat
  /\ \A s \in Screens : /\ s.w \in Nat /\ s.h \in Nat /\ s.stride \in Nat /\ s.rgb \in BOOLEAN
                        /\ s.w <= s.stride
                        /\ CellWidth <= s.w
                        /\ CellHeight <= s.h
  /\ Texts \subseteq Seq(Characters)

VARIABLES
  graphics_info,  \* the screen
  line, col,      \* the cursor
  text,           \* what is left to write of the string
  pc,             \* "idle", "byte", "clear", or "panic"
  cells,          \* the glyph drawn last at each cell
  row             \* what has been written since the cursor was last at column 0

vars == <<graphics_info, line, col, text, pc, cells, row>>

columns == graphics_info.w \div CellWidth
lines == graphics_info.h \div CellHeight
Grid == (0 .. lines - 1) \X (0 .. columns - 1)

Glyphs == {"blank", "a", "b"}

(* Mutant: the stride is applied to the wrong coordinate. *)
PixelTransposed(l, c, x, y) ==
  (c * CellWidth + x) * graphics_info.stride + (l * CellHeight + y)

(* The word that render_character writes for a pixel of a cell's glyph.    *)
Pixel(l, c, x, y) ==
  (c * CellWidth + x) + (l * CellHeight + y) * graphics_info.stride

(* get_character: everything up to the space is blank; FONT ends at `~`. *)
get_character(c) == IF c = "control" THEN "blank" ELSE c

(* Only the two formats of 32-bit words are drawn to. *)
render_character(glyph) ==
  cells' = IF graphics_info.rgb THEN [cells EXCEPT ![<<line, col>>] = glyph] ELSE cells

advance_line ==
  /\ col' = 0
  /\ line' = IF line + 1 >= lines THEN 0 ELSE line + 1
  /\ row' = <<>>

advance_column(glyph) ==
  IF col + 1 >= columns
    THEN advance_line
    ELSE col' = col + 1 /\ row' = Append(row, glyph) /\ UNCHANGED line

Init ==
  /\ graphics_info \in Screens
  /\ line = 0
  /\ col = 0
  /\ text = <<>>
  /\ pc = "idle"
  /\ cells = [g \in Grid |-> "blank"]
  /\ row = <<>>

(* write_str is called. *)
WriteStr(s) ==
  /\ pc = "idle"
  /\ text' = s
  /\ pc' = "byte"
  /\ UNCHANGED <<graphics_info, line, col, cells, row>>

Done ==
  /\ pc = "byte"
  /\ text = <<>>
  /\ pc' = "idle"
  /\ UNCHANGED <<graphics_info, line, col, text, cells, row>>

(* A byte above `~`: the index into FONT is out of bounds. *)
NoGlyph ==
  /\ pc = "byte"
  /\ text # <<>>
  /\ Head(text) = "high"
  /\ pc' = "panic"
  /\ UNCHANGED <<graphics_info, line, col, text, cells, row>>

(* Any other byte: draw it and step on. *)
Put ==
  /\ pc = "byte"
  /\ text # <<>>
  /\ Head(text) \notin {"newline", "high"}
  /\ render_character(get_character(Head(text)))
  /\ advance_column(get_character(Head(text)))
  /\ text' = Tail(text)
  /\ UNCHANGED <<graphics_info, pc>>

(* '\n': blank the rest of the line, then go to the next one. *)
NewLine ==
  /\ pc = "byte"
  /\ text # <<>>
  /\ Head(text) = "newline"
  /\ pc' = "clear"
  /\ UNCHANGED <<graphics_info, line, col, text, cells, row>>

(* Mutants: the cells are only passed over; the loop does not move on. *)
ClearCellPassed ==
  /\ pc = "clear"
  /\ col < columns
  /\ col' = col + 1
  /\ UNCHANGED <<graphics_info, line, text, pc, row, cells>>
ClearCellStuck ==
  /\ pc = "clear"
  /\ col < columns
  /\ render_character("blank")
  /\ UNCHANGED <<graphics_info, line, col, text, pc, row>>

ClearCell ==
  /\ pc = "clear"
  /\ col < columns
  /\ render_character("blank")
  /\ col' = col + 1
  /\ UNCHANGED <<graphics_info, line, text, pc, row>>

LineCleared ==
  /\ pc = "clear"
  /\ col >= columns
  /\ advance_line
  /\ text' = Tail(text)
  /\ pc' = "byte"
  /\ UNCHANGED <<graphics_info, cells>>

WriteStep == Done \/ NoGlyph \/ Put \/ NewLine \/ ClearCell \/ LineCleared
Next == WriteStep \/ \E s \in Texts : WriteStr(s)

(* The kernel runs a call to its end: nothing else is running.             *)
Spec == Init /\ [][Next]_vars /\ WF_vars(WriteStep)

-----------------------------------------------------------------------------
TypeOK ==
  /\ graphics_info \in Screens
  /\ line \in Nat
  /\ col \in Nat
  /\ text \in Seq(Characters)
  /\ pc \in {"idle", "byte", "clear", "panic"}
  /\ cells \in [Grid -> Glyphs]
  /\ row \in Seq(Glyphs)

(* Between two bytes the cursor is on the screen; while a line is cleared  *)
(* it may stand right behind the last column.                              *)
CursorOnScreen ==
  /\ line < lines
  /\ pc # "clear" => col < columns
  /\ pc = "clear" => col <= columns

(* Drawing stays inside the frame buffer and never runs into the next scan *)
(* line: the pointer that render_character writes through is never out of  *)
(* bounds, wherever lines wrap.                                            *)
DrawsInsideFrameBuffer ==
  /\ TypeOK
  /\ CursorOnScreen
  /\ (pc = "byte" \/ (pc = "clear" /\ col < columns)) =>
    \A x \in 0 .. FONT_WIDTH - 1, y \in 0 .. FONT_HEIGHT - 1 :
      /\ Pixel(line, col, x, y) \in 0 .. graphics_info.stride * graphics_info.h - 1
      /\ Pixel(line, col, x, y) % graphics_info.stride < graphics_info.w

(* When the cursor leaves a line, at a newline or at the last column, the  *)
(* line shows what was written to it and nothing else: what was there      *)
(* before the screen wrapped round to it is gone.                          *)
LineLeft == (pc = "clear" /\ pc' = "byte") \/ (pc = "byte" /\ text' # text /\ col' = 0)
NoStaleText ==
  [][(graphics_info.rgb /\ pc # "idle" /\ LineLeft) =>
       LET shown == IF pc = "clear" THEN row ELSE Append(row, get_character(Head(text)))
       IN  \A c \in 0 .. columns - 1 :
             cells'[<<line, c>>] = IF c < Len(shown) THEN shown[c + 1] ELSE "blank"]_vars

(* write_str returns, or the kernel stands still in its panic handler.     *)
WritesEnd == (pc = "byte") ~> (pc \in {"idle", "panic"})
=============================================================================
