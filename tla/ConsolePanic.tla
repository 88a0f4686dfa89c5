---------------------------- MODULE ConsolePanic ----------------------------
(***************************************************************************)
(* A panic while the console is in use.  Only the handlers that end in a   *)
(* panic print, and nothing keeps them from doing so inside kputchar():    *)
(* default_exc_handler() and unhandled_interrupt() call printk() wherever  *)
(* the exception or the interrupt came.                                    *)
(*                                                                         *)
(* Module Console has kputchar() as one step; here it is the stores it     *)
(* makes: the compiler keeps the position in a register from the first     *)
(* line to the last, and may store it to console_pos before the cell,      *)
(* after it or, when the screen is about to scroll, not before the end of  *)
(* the scrolling.                                                          *)
(*                                                                         *)
(* A panic never returns, so that the frame it interrupts is forgotten: a  *)
(* panic is a new frame of its own, and another one may interrupt it.      *)
(***************************************************************************)
EXTENDS Console

VARIABLES depth,    \* how many panics have begun
          text,     \* what the innermost panic has left to print
          pc,       \* where the innermost frame is in kputchar()
          pos,      \* its register with the position
          todo,     \* the stores it has left to make, in any order
          i,        \* its loop counter
          index,    \* the register of the controller that is selected
          stray     \* history: where it has written outside the screen

frame == <<text, pc, pos, todo, i, input>>
video == <<console_buffer, console_pos, cursor, index, stray>>
pvars == <<depth, frame, video>>

(* What each panic prints, the one inside the other.                       *)
PanicText == <<<<"a", "b", "newline">>, <<"c", "d", "newline">>>>

MaxDepth == Len(PanicText)

(* 8 and 80 in the code: room for more than seventy panics.                *)
ASSUME PanicAssumption == TAB + MaxDepth <= CONSOLE_WIDTH

(* 25 in the code.  With two lines, the newline that ends a message can    *)
(* push it off the screen.                                                 *)
ASSUME HeightAssumption == CONSOLE_HEIGHT >= 3

(* The controller has the position in two registers; 256 in the code.      *)
BYTE == 4

PInit == /\ Init
         /\ depth = 0
         /\ text = <<>>
         /\ pc = "load" /\ pos = 0 /\ todo = {} /\ i = 0
         /\ index = "low"
         /\ stray = {}

-----------------------------------------------------------------------------
(* kputchar(c) computes the new position.                                  *)
Stores(c) == CASE c = "backspace" -> IF console_pos > 0 THEN {"pos", "cell"} ELSE {}
               [] c \in Control -> {"pos"}
               [] OTHER -> {"pos", "cell"}

Load(c) == /\ pc = "load"
           /\ pc' = "store"
           /\ input' = c
           /\ pos' = Moved(c)
           /\ todo' = Stores(c)
           /\ UNCHANGED <<depth, i, video>>

(* A running thread prints whatever it likes, a panic its message.         *)
ThreadPrints == /\ depth = 0
                /\ \E c \in Char \cup Control : Load(c)
                /\ UNCHANGED text

PanicPrints == /\ text # <<>>
               /\ Load(Head(text))
               /\ text' = Tail(text)

StoreCell ==
    LET at == IF input = "backspace" THEN pos ELSE pos - 1
        entry == IF input = "backspace" THEN Space ELSE input
    IN /\ pc = "store" /\ "cell" \in todo
       /\ todo' = todo \ {"cell"}
       /\ IF at \in Cell
          THEN /\ console_buffer' = [console_buffer EXCEPT ![at] = entry]
               /\ UNCHANGED stray
          ELSE /\ stray' = stray \cup {at}
               /\ UNCHANGED console_buffer
       /\ UNCHANGED <<depth, text, pc, pos, i, input, console_pos, cursor, index>>

StorePos == /\ pc = "store" /\ "pos" \in todo
            /\ todo' = todo \ {"pos"}
            /\ \/ console_pos' = pos
               \/ Full(pos) /\ UNCHANGED console_pos
            /\ UNCHANGED <<depth, text, pc, pos, i, input, console_buffer, cursor, index, stray>>

Stored == /\ pc = "store" /\ todo = {}
          /\ pc' = IF Full(pos) THEN "scroll" ELSE "refresh"
          /\ input' = "clear"
          /\ i' = 0
          /\ UNCHANGED <<depth, text, pos, todo, video>>

(* console_scroll_up(), cell by cell, and the position at the end.         *)
ScrollCell ==
    /\ pc = "scroll" /\ i \in Cell
    /\ console_buffer' = [console_buffer EXCEPT ![i] = ScrollUp(console_buffer)[i]]
    /\ i' = i + 1
    /\ UNCHANGED <<depth, text, pc, pos, todo, input, console_pos, cursor, index, stray>>

(* Faulty variant: the position is only moved up in memory.                *)
ScrolledMemoryOnly ==
    /\ pc = "scroll" /\ i \notin Cell
    /\ console_pos' = pos - CONSOLE_WIDTH
    /\ pc' = "refresh"
    /\ i' = 0
    /\ UNCHANGED <<depth, text, pos, todo, input, console_buffer, cursor, index, stray>>

(* Faulty variant: the position is only moved up in the register.          *)
ScrolledRegisterOnly ==
    /\ pc = "scroll" /\ i \notin Cell
    /\ pos' = pos - CONSOLE_WIDTH
    /\ pc' = "refresh"
    /\ i' = 0
    /\ UNCHANGED <<depth, text, todo, input, video>>

Scrolled ==
    /\ pc = "scroll" /\ i \notin Cell
    /\ pos' = pos - CONSOLE_WIDTH
    /\ console_pos' = pos'
    /\ pc' = "refresh"
    /\ i' = 0
    /\ UNCHANGED <<depth, text, todo, input, console_buffer, cursor, index, stray>>

(* refresh_cursor(): the upper half, then the lower half of the position.  *)
(* A byte goes to whichever register is selected when it arrives.          *)
Select(r, where, next) ==
    /\ pc = where /\ pc' = next
    /\ index' = r
    /\ UNCHANGED <<depth, text, pos, todo, i, input, console_buffer, console_pos, cursor, stray>>

ShownWith(byte) == IF index = "high" THEN (byte * BYTE) + (cursor % BYTE)
                                     ELSE (cursor - (cursor % BYTE)) + byte

RefreshUpper == /\ pc = "upper" /\ pc' = "select_low"
                /\ cursor' = ShownWith(pos \div BYTE)
                /\ UNCHANGED <<depth, text, pos, todo, i, input,
                               console_buffer, console_pos, index, stray>>

RefreshLower == /\ pc = "lower" /\ pc' = "load"
                /\ cursor' = ShownWith(pos % BYTE)
                /\ pos' = 0
                /\ UNCHANGED <<depth, text, todo, i, input,
                               console_buffer, console_pos, index, stray>>

(* An exception, or an interrupt nobody handles, at any point: printk()    *)
(* and panic() run on top of whatever was running.                         *)
Interrupted == /\ depth < MaxDepth
               /\ depth' = depth + 1
               /\ text' = PanicText[depth']
               /\ pc' = "load" /\ pos' = 0 /\ todo' = {} /\ i' = 0
               /\ input' = "clear"
               /\ stray' = {}
               /\ UNCHANGED <<console_buffer, console_pos, cursor, index>>

PNext == \/ ThreadPrints \/ PanicPrints
         \/ StoreCell \/ StorePos \/ Stored
         \/ ScrollCell \/ Scrolled
         \/ Select("high", "refresh", "upper") \/ RefreshUpper
         \/ Select("low", "select_low", "lower") \/ RefreshLower
         \/ Interrupted

PSpec == PInit /\ [][PNext]_pvars

-----------------------------------------------------------------------------
(* Wherever each panic strikes, and although the position is then past the *)
(* end, nothing is written more than one line behind the screen: the       *)
(* memory of the video card goes on there (console.c:54).                  *)
LittleOutside == stray \subseteq CONSOLE_BUFSIZE..CONSOLE_BUFSIZE + CONSOLE_WIDTH - 1

Halted == depth > 0 /\ text = <<>> /\ pc = "load"

(* When a panic has come to its end and the processor halts, its message   *)
(* is on the screen but for its first character at most, which is lost     *)
(* only if it went outside; the cursor is at the start of a line below,    *)
(* and the controller shows it there                                       *)
(* (panic.c:6-12, interrupt.c:66-80, console.c:13-60).                     *)
PanicReadable ==
    Halted =>
        LET said == PanicText[depth]
        IN /\ console_pos \in Cell
           /\ console_pos % CONSOLE_WIDTH = 0
           /\ cursor = console_pos
           /\ \E j \in Cell : /\ j < console_pos
                              /\ console_buffer[j] = said[2]
                              /\ (j > 0 /\ stray = {}) => console_buffer[j - 1] = said[1]
=============================================================================
