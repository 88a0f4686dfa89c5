------------------------------ MODULE Console ------------------------------
(***************************************************************************)
(* The console, kernel/console.c: the video memory as one array of cells,  *)
(* the position of the cursor in it, and the cursor registers of the video *)
(* controller.  Colours are left out.                                      *)
(***************************************************************************)
EXTENDS Integers, Sequences

CONSTANTS CONSOLE_WIDTH, CONSOLE_HEIGHT,
          TAB,            \* what a tab adds to the position: 8
          Char            \* the printable characters

ASSUME ConsoleAssumption == /\ CONSOLE_WIDTH \in Nat \ {0}
                            /\ CONSOLE_HEIGHT \in Nat \ {0}
                            /\ TAB \in 1..CONSOLE_WIDTH

VARIABLES console_buffer, console_pos,
          cursor,    \* the position the video controller shows
          input      \* history: the last call

vars == <<console_buffer, console_pos, cursor, input>>

CONSOLE_BUFSIZE == CONSOLE_WIDTH * CONSOLE_HEIGHT
LAST_LINE == CONSOLE_WIDTH * (CONSOLE_HEIGHT - 1)

Cell == 0..CONSOLE_BUFSIZE - 1

Blank == "blank"
Space == "space"

(* The characters kputchar() treats apart.                                 *)
Control == {"newline", "return", "tab", "backspace"}

Init == /\ console_buffer = [i \in Cell |-> Blank]
        /\ console_pos = 0
        /\ cursor = 0
        /\ input = "clear"

(* Faulty variant: the bottom line is not blanked.                         *)
ScrollKeepsBottom(buf) ==
    [i \in Cell |-> IF i < LAST_LINE THEN buf[i + CONSOLE_WIDTH] ELSE buf[i]]

(* console_scroll_up(), but for the cursor.                                *)
ScrollUp(buf) ==
    [i \in Cell |-> IF i < LAST_LINE THEN buf[i + CONSOLE_WIDTH] ELSE Blank]

(* The cell kputchar(c) writes, if any, and the new position.              *)
Written(c) ==
    CASE c = "backspace" /\ console_pos > 0 ->
            [console_buffer EXCEPT ![console_pos - 1] = Space]
      [] c \notin Control -> [console_buffer EXCEPT ![console_pos] = c]
      [] OTHER -> console_buffer

Left(pos) == IF pos > 0 THEN pos - 1 ELSE pos

LineStart(pos) == pos - (pos % CONSOLE_WIDTH)

Moved(c) == CASE c = "newline" -> LineStart(console_pos + CONSOLE_WIDTH)
              [] c = "return" -> LineStart(console_pos)
              [] c = "tab" -> console_pos + TAB
              [] c = "backspace" -> Left(console_pos)
              [] OTHER -> console_pos + 1

(* Faulty variant: the screen scrolls when the cursor is past the cell     *)
(* behind the last.                                                        *)
FullTooLate(pos) == pos > CONSOLE_BUFSIZE

Full(pos) == pos >= CONSOLE_BUFSIZE

kputchar(c) ==
    /\ input' = c
    /\ console_buffer' = IF Full(Moved(c)) THEN ScrollUp(Written(c)) ELSE Written(c)
    /\ console_pos' = IF Full(Moved(c)) THEN Moved(c) - CONSOLE_WIDTH ELSE Moved(c)
    /\ cursor' = console_pos'

(* console_clear(), which console_init() calls.                            *)
console_clear == /\ input' = "clear"
                 /\ console_pos' = 0
                 /\ console_buffer' = [i \in Cell |-> Blank]
                 /\ cursor' = console_pos'

Next == console_clear \/ \E c \in Char \cup Control : kputchar(c)

Spec == Init /\ [][Next]_vars

-----------------------------------------------------------------------------
(* The cursor stays inside the video memory, whatever is printed: one call *)
(* of console_scroll_up() is always enough, and the next character never   *)
(* goes outside (console.c:38-58).                                         *)
InsideBuffer == console_pos \in Cell /\ cursor = console_pos

(* The array with its position is a terminal with rows and columns         *)
(* (console.c:22-60).                                                      *)
T == INSTANCE Terminal
       WITH Width <- CONSOLE_WIDTH, Height <- CONSOLE_HEIGHT, Tab <- TAB,
            rows <- [r \in 1..CONSOLE_HEIGHT |->
                       [c \in 1..CONSOLE_WIDTH |->
                          console_buffer[(r - 1) * CONSOLE_WIDTH + c - 1]]],
            row <- console_pos \div CONSOLE_WIDTH,
            col <- console_pos % CONSOLE_WIDTH

IsTerminal == T!Spec
=============================================================================
