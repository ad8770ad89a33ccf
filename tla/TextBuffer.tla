----------------------------- MODULE TextBuffer -----------------------------
(***************************************************************************)
(* The text buffer of the framebuffer console: a ring buffer of N lines of *)
(* W characters (crates/ring_buffer), a cursor into the newest line, and   *)
(* where the glyphs of the lines are drawn.                                *)
(***************************************************************************)
EXTENDS RingBuffer, FiniteSets, FiniteSetsExt, SequencesExt

CONSTANTS
  W,             \* columns of a line; the ring buffer has N lines
  Chars,         \* printable characters
  Newline,
  NoChar,        \* the byte 0x00 of a fresh line
  FontWidth, FontHeight,
  Framebuffers,  \* records [width, height, pitch]
  MaxWritten     \* bound: characters written

VARIABLES
  cursor,
  fb,         \* the framebuffer the boot loader gave
  text        \* history: every character written

vars == <<elements, nextFree, cursor, fb, text>>

BlankLine == [k \in 0..(W - 1) |-> NoChar]

-----------------------------------------------------------------------------
(* TextBuffer::new_line and write_char.                                    *)
NewLineKeepsCursor == Push(BlankLine) /\ UNCHANGED cursor
NewLine == Push(BlankLine) /\ cursor' = 0

Wraps == cursor = W

(* The line the character goes to is the newest, after a wrap a fresh one. *)
PutChar(c) ==
  IF Wraps \/ Get(0) = Nothing
  THEN Push([BlankLine EXCEPT ![0] = c]) /\ cursor' = 1
  ELSE /\ elements' = [elements EXCEPT ![Slot(0)] = [@ EXCEPT ![cursor] = c]]
       /\ cursor' = cursor + 1
       /\ UNCHANGED nextFree

WriteChar(c) ==
  /\ Len(text) < MaxWritten
  /\ IF c = Newline THEN NewLine ELSE PutChar(c)
  /\ text' = Append(text, c)
  /\ UNCHANGED fb

Init ==
  /\ RingInit
  /\ cursor = 0 /\ text = << >>
  /\ fb \in Framebuffers

Next == \E c \in Chars \cup {Newline} : WriteChar(c)

Spec == Init /\ [][Next]_vars

-----------------------------------------------------------------------------
(* flush: the lines from the bottom up while there is room above, and the  *)
(* characters of a line while there is room to the right.                  *)
FitsRight(x) == x + FontWidth <= fb.width
RowY(i) == fb.height - i * (FontHeight + 1)
ColumnX(k) == 1 + k * (FontWidth + 1)

Glyphs ==
  {g \in [x : {ColumnX(k) : k \in 0..(W - 1)}, y : {RowY(i) : i \in 1..RingLen}] :
     g.y >= 0 /\ FitsRight(g.x)}

(* draw_bitmap and draw_pixel: the pixels of a glyph, and their offsets.   *)
Pixels(g) == (g.x..(g.x + FontWidth - 1)) \X (g.y..(g.y + FontHeight - 1))
Offset(p) == p[2] * fb.pitch + p[1] * 4

-----------------------------------------------------------------------------
(* The lines of a text, wrapped at W characters.  The first line exists    *)
(* only once something is written, so a newline before it adds one line.   *)
AddChar(ls, c) ==
  IF c = Newline THEN Append(ls, << >>)
  ELSE IF ls = << >> \/ Len(Last(ls)) = W THEN Append(ls, <<c>>)
  ELSE ReplaceAt(ls, Len(ls), Append(Last(ls), c))
TextLines == FoldLeft(AddChar, << >>, text)

Padded(line) == [k \in 0..(W - 1) |-> IF k < Len(line) THEN line[k + 1] ELSE NoChar]

(* What the ring buffer iterates over is the end of the text, newest line  *)
(* first, at every fill level and after every wrap of next_free and of the *)
(* cursor: no line is lost, repeated or out of order, and the cursor is    *)
(* where the next character goes.  Drawing it never trips the asserts of   *)
(* draw_bitmap and draw_pixel, never writes past the framebuffer, and no   *)
(* glyph is drawn over another.                                            *)
ShowsEndOfText ==
  LET shown == Min({N, Len(TextLines)}) IN
    /\ Iterated = [i \in 1..shown |-> Padded(TextLines[Len(TextLines) + 1 - i])]
    /\ cursor = IF text = << >> THEN 0 ELSE Len(Last(TextLines))
    /\ \A g \in Glyphs : \A p \in Pixels(g) :
         /\ p[1] < fb.width /\ p[2] < fb.height
         /\ Offset(p) + 4 <= fb.pitch * fb.height
    /\ \A g, h \in Glyphs : g # h => Pixels(g) \cap Pixels(h) = {}
=============================================================================
