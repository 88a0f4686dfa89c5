------------------------------ MODULE Terminal ------------------------------
(***************************************************************************)
(* What the console of kernel/console.c shows its user: a terminal with    *)
(* rows and columns.  A character fills the cell under the cursor and      *)
(* moves it on; past the last cell the rows move up by one, and nothing    *)
(* but the top row is lost.                                                *)
(***************************************************************************)
EXTENDS Integers, Sequences

CONSTANTS Width, Height, Tab,
          Char,           \* printable characters, the space not included
          Blank, Space    \* an empty cell, and one with a space in it

VARIABLES rows,      \* the rows, the top one first; each a sequence of cells
          row, col,  \* the cursor, counted from 0
          input      \* the last operation

vars == <<rows, row, col, input>>

Control == {"newline", "return", "tab", "backspace"}

BlankRow == [c \in 1..Width |-> Blank]

Init == /\ rows = [r \in 1..Height |-> BlankRow]
        /\ row = 0
        /\ col = 0
        /\ input = "clear"

(* The cursor goes to column c of row r of what is shown, and brings a new *)
(* row up if that is below the last.                                       *)
Place(shown, r, c) ==
    /\ col' = c
    /\ IF r < Height
       THEN rows' = shown /\ row' = r
       ELSE rows' = Append(Tail(shown), BlankRow) /\ row' = Height - 1

(* The cursor moves on by n cells.                                         *)
Forward(shown, n) == Place(shown, row + (col + n) \div Width, (col + n) % Width)

Write(r, c, x) == [rows EXCEPT ![r + 1][c + 1] = x]

Put(x) == /\ input' = x
          /\ CASE x = "newline" -> Place(rows, row + 1, 0)
               [] x = "return" -> Place(rows, row, 0)
               [] x = "tab" -> Forward(rows, Tab)
               [] x = "backspace" ->
                    IF row = 0 /\ col = 0
                    THEN UNCHANGED <<rows, row, col>>
                    ELSE LET r == IF col > 0 THEN row ELSE row - 1
                             c == IF col > 0 THEN col - 1 ELSE Width - 1
                         IN Place(Write(r, c, Space), r, c)
               [] OTHER -> Forward(Write(row, col, x), 1)

Clear == /\ input' = "clear"
         /\ rows' = [r \in 1..Height |-> BlankRow]
         /\ row' = 0
         /\ col' = 0

Next == Clear \/ \E x \in Char \cup Control : Put(x)

Spec == Init /\ [][Next]_vars
=============================================================================
