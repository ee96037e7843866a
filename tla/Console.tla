------------------------------- MODULE Console -------------------------------
(***************************************************************************)
(* The console driver (console.c) as functions of its state, a record:     *)
(*   row, col   cursor.row and cursor.col                                  *)
(*   color      terminal.current_color                                     *)
(* The cursor is visible (nothing in the kernel hides it).  What is on the *)
(* screen and in the display controller is left out: nothing reads it      *)
(* back, and set_cursor tells the controller where the cursor is.          *)
(***************************************************************************)
EXTENDS Integers

CONSTANTS
  CONSOLE_HEIGHT,
  CONSOLE_WIDTH,
  CharValues     \* the values of a byte: 256 in the build

ASSUME ConsoleAssumption ==
  /\ CONSOLE_HEIGHT \in Nat \ {0, 1} /\ CONSOLE_WIDTH \in Nat \ {0}
  /\ CharValues \in Nat \ {0, 1} /\ CharValues % 2 = 0

\* The conversions from an int to unsigned char and from that to char, which
\* is signed in the build.
UChar(n) == n % CharValues
SChar(n) == IF UChar(n) < CharValues \div 2 THEN UChar(n)
                                            ELSE UChar(n) - CharValues

\* Bytes: a letter, one above 127, and those that move the cursor.
Bytes == {"letter", "high", "newline", "return", "backspace"}

Con(row, col, color) ==
  [row |-> row, col |-> col, color |-> color]

\* validate_pos
ValidatePos(row, col) ==
  /\ row \in 0..CONSOLE_HEIGHT - 1
  /\ col \in 0..CONSOLE_WIDTH - 1

\* convert_to_pixel_idx, and convert_to_pos with C's division, which rounds
\* to zero (idx is -1 at least).
ToIdx(row, col) == row * CONSOLE_WIDTH + col
RowOf(idx) == IF idx >= 0 THEN idx \div CONSOLE_WIDTH
                          ELSE -((-idx) \div CONSOLE_WIDTH)
ColOf(idx) == idx - RowOf(idx) * CONSOLE_WIDTH

\* set_cursor, without the test
Place(con, row, col) == Con(row, col, con.color)

\* Mutant: the cursor follows a character without a look at the last line.
ForwardNoScroll(con) ==
  LET idx == ToIdx(con.row, con.col) + 1
  IN  Place(con, RowOf(idx), ColOf(idx))

\* A character was drawn: the next position, scrolling below the last line.
Forward(con) ==
  LET idx == ToIdx(con.row, con.col) + 1
  IN  IF ValidatePos(RowOf(idx), ColOf(idx))
      THEN Place(con, RowOf(idx), ColOf(idx))
      ELSE Place(con, RowOf(idx) - 1, ColOf(idx))

\* '\n': the next line, scrolling below the last one.
NewLine(con) ==
  Place(con, IF ValidatePos(con.row + 1, 0) THEN con.row + 1 ELSE con.row, 0)

\* '\b': one position back.  From the first one, index -1 is row 0 and column
\* -1, so the cursor goes down a line.
Back(con) ==
  LET idx == ToIdx(con.row, con.col) - 1
  IN  IF ValidatePos(RowOf(idx), ColOf(idx))
      THEN Place(con, RowOf(idx), ColOf(idx))
      ELSE Place(con, RowOf(idx) + 1, 0)

\* putbyte: draw_char at the cursor.  The colour and the byte reach it as
\* ints made from chars, and it does nothing when one of them is negative.
PutByte(con, b) ==
  CASE con.color < 0 \/ b = "high" -> con
    [] con.color >= 0 /\ b = "letter"    -> Forward(con)
    [] con.color >= 0 /\ b = "newline"   -> NewLine(con)
    [] con.color >= 0 /\ b = "return"    -> Place(con, con.row, 0)
    [] con.color >= 0 /\ b = "backspace" -> Back(con)

\* set_term_color refuses what is no unsigned char.
ColorOK(color) == UChar(color) = color
SetColor(con, color) == Con(con.row, con.col, SChar(color))

\* get_term_color
GetColor(con) == UChar(con.color)
=============================================================================
