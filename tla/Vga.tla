-------------------------------- MODULE Vga --------------------------------
(***************************************************************************)
(* The text screen (drivers/vga.c): cells, and the cursor as an index into *)
(* them.  The operators are what its functions make of a screen; colours   *)
(* are left out.                                                           *)
(***************************************************************************)
EXTENDS Integers, Sequences, SequencesExt

CONSTANTS
  Width,      \* columns, 80
  Height,     \* rows, 25
  Newline, Backspace, Blank

Cells == 0 .. Width * Height - 1

Clear == [cells |-> [p \in Cells |-> Blank], pos |-> 0]

MoveTo(screen, pos) == [screen EXCEPT !.pos = pos]

(* The rows move up by one, and the cursor to the start of the last.       *)
Scroll(screen) ==
  [cells |-> [p \in Cells |-> IF p + Width \in Cells
                              THEN screen.cells[p + Width]
                              ELSE Blank],
   pos   |-> (Height - 1) * Width]

Put(screen, c) ==
  CASE c = Newline -> MoveTo(screen, (screen.pos \div Width + 1) * Width)
    [] c = Backspace ->
         IF screen.pos = 0 THEN screen
         ELSE [cells |-> [screen.cells EXCEPT ![screen.pos - 1] = Blank],
               pos   |-> screen.pos - 1]
    [] OTHER -> [cells |-> [screen.cells EXCEPT ![screen.pos] = c],
                 pos   |-> screen.pos + 1]

PutChar(screen, c) ==
  LET put == Put(screen, c)
  IN IF put.pos \in Cells THEN put ELSE Scroll(put)

WriteStr(screen, str) == FoldLeft(PutChar, screen, str)
=============================================================================
