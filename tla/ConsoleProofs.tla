--------------------------- MODULE ConsoleProofs ---------------------------
(***************************************************************************)
(* For every size of the screen: the cursor of the console stays inside    *)
(* the video memory, and not even panics that strike inside kputchar()     *)
(* write more than a line beyond it; the array of characters behaves as a  *)
(* terminal of rows and columns; and a panic's message can be read.        *)
(***************************************************************************)
EXTENDS ConsolePanic, SequenceTheorems, TLAPS

(* What the proof needs to know of the number of cells: there is at least  *)
(* one line of them.                                                       *)
LEMMA BufferSize == /\ CONSOLE_WIDTH \in Nat /\ CONSOLE_WIDTH > 0
                    /\ CONSOLE_BUFSIZE \in Nat
                    /\ CONSOLE_BUFSIZE >= CONSOLE_WIDTH
<1> DEFINE w == CONSOLE_WIDTH
           k == CONSOLE_HEIGHT
<1>1. w \in Nat /\ w > 0 /\ k \in Nat /\ k >= 1
  BY ConsoleAssumption
<1> HIDE DEF w, k
<1>2. w * k \in Nat /\ w * k >= w
  BY <1>1
<1>3. QED
  BY <1>1, <1>2 DEF w, k, CONSOLE_BUFSIZE

(* Going back to the start of the line stays between the line's cells.     *)
LEMMA LineStartBounds ==
  ASSUME NEW p \in Nat
  PROVE  /\ LineStart(p) \in Int
         /\ 0 <= LineStart(p)
         /\ LineStart(p) <= p
         /\ p - LineStart(p) < CONSOLE_WIDTH
<1> DEFINE w == CONSOLE_WIDTH
<1>1. w \in Nat /\ w > 0
  BY BufferSize
<1> HIDE DEF w
<1>2. /\ p % w \in 0..(w - 1)
      /\ p % w <= p
  BY <1>1
<1>3. QED
  BY <1>1, <1>2 DEF w, LineStart

(* Before scrolling, a character moves the cursor by at most one line.     *)
LEMMA MovedBounds ==
  ASSUME NEW c, console_pos \in Cell
  PROVE  /\ Moved(c) \in Int
         /\ 0 <= Moved(c)
         /\ Moved(c) < CONSOLE_BUFSIZE + CONSOLE_WIDTH
<1>1. /\ console_pos \in Nat /\ console_pos < CONSOLE_BUFSIZE
      /\ CONSOLE_WIDTH \in Nat /\ CONSOLE_WIDTH > 0
      /\ CONSOLE_BUFSIZE \in Nat
  BY BufferSize DEF Cell
<1>2. TAB \in Nat /\ TAB >= 1 /\ TAB <= CONSOLE_WIDTH
  BY ConsoleAssumption
<1>3. CASE c = "newline"
  <2>1. console_pos + CONSOLE_WIDTH \in Nat
    BY <1>1
  <2>2. /\ LineStart(console_pos + CONSOLE_WIDTH) \in Int
        /\ 0 <= LineStart(console_pos + CONSOLE_WIDTH)
        /\ LineStart(console_pos + CONSOLE_WIDTH) <= console_pos + CONSOLE_WIDTH
    BY <2>1, LineStartBounds
  <2>3. QED
    BY <1>1, <1>3, <2>2 DEF Moved
<1>4. CASE c = "return"
  <2>1. /\ LineStart(console_pos) \in Int
        /\ 0 <= LineStart(console_pos)
        /\ LineStart(console_pos) <= console_pos
    BY <1>1, LineStartBounds
  <2>2. QED
    BY <1>1, <1>4, <2>1 DEF Moved
<1>5. CASE c = "tab"
  BY <1>1, <1>2, <1>5 DEF Moved
<1>6. CASE c = "backspace"
  BY <1>1, <1>6 DEF Moved, Left
<1>7. CASE c \notin Control
  BY <1>1, <1>7 DEF Moved, Control
<1>8. QED
  BY <1>3, <1>4, <1>5, <1>6, <1>7 DEF Control

(* One call of console_scroll_up() is always enough, and the position      *)
(* never leaves the video memory (console.c:33, 36-60).                    *)
THEOREM CursorInside == Spec => []InsideBuffer
<1>1. Init => InsideBuffer
  BY BufferSize DEF Init, InsideBuffer, Cell
<1>2. InsideBuffer /\ [Next]_vars => InsideBuffer'
  <2> SUFFICES ASSUME InsideBuffer, [Next]_vars PROVE InsideBuffer'
    OBVIOUS
  <2>1. CASE console_clear
    BY <2>1, BufferSize DEF console_clear, InsideBuffer, Cell
  <2>2. ASSUME NEW c \in Char \cup Control, kputchar(c)
        PROVE  InsideBuffer'
    <3>1. /\ Moved(c) \in Int /\ 0 <= Moved(c)
          /\ Moved(c) < CONSOLE_BUFSIZE + CONSOLE_WIDTH
      BY MovedBounds DEF InsideBuffer
    <3>2. CASE Moved(c) >= CONSOLE_BUFSIZE
      <4>1. console_pos' = Moved(c) - CONSOLE_WIDTH /\ cursor' = console_pos'
        BY <2>2, <3>2 DEF kputchar, Full
      <4>2. QED
        BY <3>1, <3>2, <4>1, BufferSize DEF InsideBuffer, Cell
    <3>3. CASE ~(Moved(c) >= CONSOLE_BUFSIZE)
      <4>1. console_pos' = Moved(c) /\ cursor' = console_pos'
        BY <2>2, <3>3 DEF kputchar, Full
      <4>2. QED
        BY <3>1, <3>3, <4>1, BufferSize DEF InsideBuffer, Cell
    <3>4. QED
      BY <3>2, <3>3
  <2>3. CASE UNCHANGED vars
    BY <2>3 DEF vars, InsideBuffer
  <2>4. QED
    BY <2>1, <2>2, <2>3 DEF Next
<1>3. QED
  BY <1>1, <1>2, PTL DEF Spec

-----------------------------------------------------------------------------
(* Quotient and remainder are determined by what they add up to.           *)
LEMMA QuotientRemainder ==
  ASSUME NEW w \in Nat, w > 0, NEW q \in Int, NEW m \in 0..w - 1,
         NEW p, p = w * q + m
  PROVE  p \div w = q /\ p % w = m
<1> DEFINE d == p \div w
           e == p % w
<1>1. w \in Nat /\ w > 0 /\ w * q \in Int /\ m \in 0..w - 1
  OBVIOUS
<1>2. p \in Int /\ p = w * q + m
  BY <1>1
<1>3. d \in Int /\ e \in 0..w - 1 /\ p = w * d + e /\ w * d \in Int
  <2>1. w \in Nat /\ w > 0 /\ p \in Int
    BY <1>1, <1>2
  <2>2. d \in Int /\ e \in 0..w - 1 /\ p = w * d + e
    BY <2>1
  <2> HIDE DEF d, e
  <2>3. QED
    BY <1>1, <2>2
<1> HIDE DEF d, e
<1>4. d = q
  <2>1. CASE d > q
    <3>1. w * d >= w * (q + 1) /\ w * (q + 1) = w * q + w
      BY <1>1, <1>3, <2>1
    <3>2. QED
      BY <1>1, <1>2, <1>3, <3>1
  <2>2. CASE d < q
    <3>1. w * q >= w * (d + 1) /\ w * (d + 1) = w * d + w
      BY <1>1, <1>3, <2>2
    <3>2. QED
      BY <1>1, <1>2, <1>3, <3>1
  <2>3. QED
    BY <1>3, <2>1, <2>2
<1>5. e = m
  BY <1>1, <1>2, <1>3, <1>4
<1>6. QED
  BY <1>4, <1>5 DEF d, e

(* A position is a row and a column, in one way only.                      *)
LEMMA RowColumn ==
  ASSUME NEW q \in Int, NEW m \in 0..CONSOLE_WIDTH - 1,
         NEW p, p = CONSOLE_WIDTH * q + m
  PROVE  p \div CONSOLE_WIDTH = q /\ p % CONSOLE_WIDTH = m
BY BufferSize, QuotientRemainder

(* The row and the column of a position.                                   *)
LEMMA Split ==
  ASSUME NEW p \in Nat
  PROVE  /\ p \div CONSOLE_WIDTH \in Nat
         /\ p % CONSOLE_WIDTH \in 0..CONSOLE_WIDTH - 1
         /\ p = CONSOLE_WIDTH * (p \div CONSOLE_WIDTH) + (p % CONSOLE_WIDTH)
<1> DEFINE w == CONSOLE_WIDTH
<1>1. w \in Nat /\ w > 0
  BY BufferSize
<1> HIDE DEF w
<1>2. p \div w \in Nat /\ p % w \in 0..w - 1 /\ p = w * (p \div w) + (p % w)
  BY <1>1
<1>3. QED
  BY <1>2 DEF w

(* A position is on the screen if and only if its row is.                  *)
LEMMA RowOnScreen ==
  ASSUME NEW q \in Nat, NEW m \in 0..CONSOLE_WIDTH - 1
  PROVE  /\ CONSOLE_WIDTH * q + m \in Nat
         /\ CONSOLE_WIDTH * q + m < CONSOLE_BUFSIZE <=> q < CONSOLE_HEIGHT
<1> DEFINE w == CONSOLE_WIDTH
           h == CONSOLE_HEIGHT
<1>1. w \in Nat /\ w > 0 /\ h \in Nat /\ m \in 0..w - 1
  BY BufferSize, ConsoleAssumption
<1> HIDE DEF w, h
<1>2. w * q \in Nat /\ w * h \in Nat
  BY <1>1
<1>3. CASE q < h
  <2>1. w * h >= w * (q + 1) /\ w * (q + 1) = w * q + w
    BY <1>1, <1>3
  <2>2. w * q + m < w * h
    BY <1>1, <1>2, <2>1
  <2>3. QED
    BY <1>1, <1>2, <1>3, <2>2 DEF CONSOLE_BUFSIZE, w, h
<1>4. CASE ~(q < h)
  <2>1. w * q >= w * h
    BY <1>1, <1>4
  <2>2. ~(w * q + m < w * h)
    BY <1>1, <1>2, <2>1
  <2>3. QED
    BY <1>1, <1>2, <1>4, <2>2 DEF CONSOLE_BUFSIZE, w, h
<1>5. QED
  BY <1>3, <1>4

(* The rows a buffer shows; the mapping of T is Rows(console_buffer).       *)
Rows(buf) == [r \in 1..CONSOLE_HEIGHT |->
                [c \in 1..CONSOLE_WIDTH |-> buf[(r - 1) * CONSOLE_WIDTH + c - 1]]]

LEMMA CellOf ==
  ASSUME NEW r \in 1..CONSOLE_HEIGHT, NEW c \in 1..CONSOLE_WIDTH,
         NEW k, k = (r - 1) * CONSOLE_WIDTH + c - 1
  PROVE  /\ k \in Cell
         /\ k \div CONSOLE_WIDTH = r - 1 /\ k % CONSOLE_WIDTH = c - 1
<1> DEFINE w == CONSOLE_WIDTH
           h == CONSOLE_HEIGHT
           q == r - 1
           m == c - 1
<1>1. /\ w \in Nat /\ w > 0 /\ h \in Nat
      /\ q \in Nat /\ q < h /\ m \in 0..w - 1 /\ m \in Nat
  BY BufferSize, ConsoleAssumption
<1>2. k = q * w + c - 1
  OBVIOUS
<1> HIDE DEF w, h, q
<1>3. q * w \in Nat /\ q * w = w * q
  BY <1>1
<1>4. k = w * q + m
  BY <1>1, <1>2, <1>3
<1> HIDE DEF m
<1>5. k \in Nat /\ k < CONSOLE_BUFSIZE
  BY <1>1, <1>4, RowOnScreen DEF w, h
<1>6. k \div w = q /\ k % w = m
  BY <1>1, <1>4, RowColumn DEF w
<1>7. CONSOLE_BUFSIZE \in Nat
  BY BufferSize
<1>8. QED
  BY <1>5, <1>6, <1>7 DEF Cell, q, m, w

(* A store into the buffer changes the one cell of the one row.            *)
LEMMA RowsStore ==
  ASSUME NEW buf, NEW p \in Cell, NEW x,
         NEW new, new[p] = x, \A k \in Cell : k # p => new[k] = buf[k],
         NEW q, q = p \div CONSOLE_WIDTH, NEW m, m = p % CONSOLE_WIDTH
  PROVE  Rows(new) = [Rows(buf) EXCEPT ![q + 1] = [Rows(buf)[q + 1] EXCEPT ![m + 1] = x]]
<1> DEFINE w == CONSOLE_WIDTH
           h == CONSOLE_HEIGHT
           At(r, c) == (r - 1) * w + c - 1
<1>1. p \in Nat /\ w \in Nat /\ h \in Nat
  BY BufferSize, ConsoleAssumption DEF Cell
<1>2. q \in Nat /\ m \in 0..w - 1 /\ p = w * q + m
  BY <1>1, Split
<1>3. \A r \in 1..h, c \in 1..w : /\ At(r, c) \in Cell
                                  /\ At(r, c) \div w = r - 1 /\ At(r, c) % w = c - 1
  BY CellOf
<1> HIDE DEF w, h, At
<1>4. \A r \in 1..h, c \in 1..w : At(r, c) = p => r = q + 1 /\ c = m + 1
  <2> SUFFICES ASSUME NEW r \in 1..h, NEW c \in 1..w, At(r, c) = p
               PROVE  r = q + 1 /\ c = m + 1
    OBVIOUS
  <2>1. q = r - 1 /\ m = c - 1
    BY <1>3 DEF w
  <2>2. QED
    BY <1>1, <2>1
<1>5. q + 1 \in 1..h => At(q + 1, m + 1) = p
  <2>1. m \in Nat /\ (q + 1) - 1 = q /\ q * w = w * q /\ w * q \in Nat
    BY <1>1, <1>2
  <2>2. QED
    BY <1>1, <1>2, <2>1 DEF At
<1>6. m + 1 \in 1..w
  <2>1. QED
    BY <1>1, <1>2
<1>7. \A r \in 1..h, c \in 1..w :
        new[At(r, c)] = IF r = q + 1 /\ c = m + 1 THEN x ELSE buf[At(r, c)]
  BY <1>3, <1>4, <1>5, <1>6
<1>8. Rows(new) = [r \in 1..h |-> [c \in 1..w |-> new[At(r, c)]]]
  BY DEF Rows, At, w, h
<1>9. Rows(buf) = [r \in 1..h |-> [c \in 1..w |-> buf[At(r, c)]]]
  BY DEF Rows, At, w, h
<1>10. Rows(new) = [Rows(buf) EXCEPT ![q + 1] = [@ EXCEPT ![m + 1] = x]]
  <2> DEFINE goal == [Rows(buf) EXCEPT ![q + 1] = [@ EXCEPT ![m + 1] = x]]
  <2>1. goal = [r \in 1..h |-> IF r = q + 1 THEN [Rows(buf)[r] EXCEPT ![m + 1] = x]
                                            ELSE Rows(buf)[r]]
    BY <1>9
  <2>2. ASSUME NEW r \in 1..h, r = q + 1
        PROVE  [c \in 1..w |-> new[At(r, c)]] = [Rows(buf)[r] EXCEPT ![m + 1] = x]
    <3>1. Rows(buf)[r] = [c \in 1..w |-> buf[At(r, c)]]
      BY <1>9
    <3>2. \A c \in 1..w : new[At(r, c)] = IF c = m + 1 THEN x ELSE buf[At(r, c)]
      BY <1>7, <2>2
    <3>3. QED
      BY <3>1, <3>2
  <2>3. ASSUME NEW r \in 1..h, r # q + 1
        PROVE  [c \in 1..w |-> new[At(r, c)]] = Rows(buf)[r]
    <3>1. Rows(buf)[r] = [c \in 1..w |-> buf[At(r, c)]]
      BY <1>9
    <3>2. \A c \in 1..w : new[At(r, c)] = buf[At(r, c)]
      BY <1>7, <2>3
    <3>3. QED
      BY <3>1, <3>2
  <2> HIDE DEF goal
  <2>4. Rows(new) = goal
    BY <1>8, <2>1, <2>2, <2>3
  <2>5. QED
    BY <2>4 DEF goal
<1>11. QED
  BY <1>10

(* Scrolling drops the top row and brings a blank one up.                  *)
LEMMA RowsScroll ==
  ASSUME NEW buf
  PROVE  Rows(ScrollUp(buf)) = Append(Tail(Rows(buf)), [c \in 1..CONSOLE_WIDTH |-> Blank])
<1> DEFINE w == CONSOLE_WIDTH
           h == CONSOLE_HEIGHT
           At(r, c) == (r - 1) * w + c - 1
           new == ScrollUp(buf)
           blank == [c \in 1..w |-> Blank]
<1>1. w \in Nat /\ h \in Nat /\ h >= 1
  BY BufferSize, ConsoleAssumption
<1>2. \A r \in 1..h, c \in 1..w : At(r, c) \in Cell
  BY CellOf
<1>3. \A r \in 1..h, c \in 1..w :
        new[At(r, c)] = IF At(r, c) < w * (h - 1) THEN buf[At(r, c) + w] ELSE Blank
  BY <1>2 DEF ScrollUp, LAST_LINE, w, h
<1>4. Rows(new) = [r \in 1..h |-> [c \in 1..w |-> new[At(r, c)]]]
  BY DEF Rows
<1>5. Rows(buf) = [r \in 1..h |-> [c \in 1..w |-> buf[At(r, c)]]]
  BY DEF Rows
<1> HIDE DEF w, h, new
<1>6. ASSUME NEW r \in 1..h, NEW c \in 1..w
      PROVE  /\ r < h => At(r, c) < w * (h - 1) /\ At(r, c) + w = At(r + 1, c)
             /\ r = h => ~(At(r, c) < w * (h - 1))
  <2> DEFINE q == r - 1
             k == h - 1
  <2>1. q \in Nat /\ k \in Nat /\ c >= 1 /\ c <= w /\ c \in Nat
        /\ (r < h => q + 1 <= k) /\ (r = h => q = k) /\ (r + 1) - 1 = q + 1
    BY <1>1
  <2> HIDE DEF q, k
  <2>2. q * w \in Nat /\ w * k \in Nat /\ (q + 1) * w = q * w + w
    BY <1>1, <2>1
  <2>3. CASE r < h
    <3>1. w * k >= w * (q + 1) /\ w * (q + 1) = q * w + w
      BY <1>1, <2>1, <2>3
    <3>2. q * w + c - 1 < w * k /\ (q * w + c - 1) + w = (q + 1) * w + c - 1
      BY <1>1, <2>1, <2>2, <3>1
    <3>3. QED
      BY <2>1, <2>3, <3>2 DEF q, k
  <2>4. CASE r = h
    <3>1. w * k = q * w
      BY <1>1, <2>1, <2>4
    <3>2. ~(q * w + c - 1 < w * k)
      BY <1>1, <2>1, <2>2, <3>1
    <3>3. QED
      BY <2>4, <3>2 DEF q, k
  <2>5. QED
    BY <1>1, <2>3, <2>4
<1> HIDE DEF At
<1>7. \A r \in 1..h - 1, c \in 1..w : new[At(r, c)] = buf[At(r + 1, c)]
  <2> SUFFICES ASSUME NEW r \in 1..h - 1, NEW c \in 1..w
               PROVE  new[At(r, c)] = buf[At(r + 1, c)]
    OBVIOUS
  <2>1. r \in 1..h /\ r < h
    BY <1>1
  <2>2. At(r, c) < w * (h - 1) /\ At(r, c) + w = At(r + 1, c)
    BY <1>6, <2>1
  <2>3. QED
    BY <1>3, <2>1, <2>2
<1>8. \A c \in 1..w : new[At(h, c)] = Blank
  BY <1>1, <1>3, <1>6
<1> DEFINE Shown == {Rows(buf)[r] : r \in 1..h} \cup {blank}
           up == [r \in 1..h |-> IF r = h THEN blank ELSE Rows(buf)[r + 1]]
<1>9. Rows(buf) \in Seq(Shown) /\ Len(Rows(buf)) = h /\ up \in Seq(Shown) /\ Len(up) = h
  <2>1. Rows(buf) \in [1..h -> Shown]
    BY <1>5
  <2>2. \A r \in 1..h : r # h => r + 1 \in 1..h
    BY <1>1
  <2>3. up \in [1..h -> Shown]
    BY <2>2
  <2> HIDE DEF Shown, up
  <2>4. Rows(buf) \in Seq(Shown) /\ up \in Seq(Shown)
    BY <1>1, <2>1, <2>3, SeqDef
  <2>5. QED
    BY <1>1, <2>1, <2>3, <2>4, LenProperties
<1>10. /\ Tail(Rows(buf)) \in Seq(Shown)
       /\ Len(Tail(Rows(buf))) = h - 1
       /\ \A r \in 1..h - 1 : Tail(Rows(buf))[r] = Rows(buf)[r + 1]
  <2> HIDE DEF Shown, up
  <2>1. QED
    BY <1>1, <1>9, HeadTailProperties, EmptySeq
<1>11. Append(Tail(Rows(buf)), blank) = up
  <2> DEFINE rest == Tail(Rows(buf))
             all == Append(rest, blank)
  <2>1. blank \in Shown
    OBVIOUS
  <2> HIDE DEF Shown, blank, rest
  <2>2. /\ all \in Seq(Shown) /\ Len(all) = Len(rest) + 1
        /\ \A r \in 1..Len(rest) : all[r] = rest[r]
        /\ all[Len(rest) + 1] = blank
    BY <1>10, <2>1, AppendProperties DEF rest
  <2> HIDE DEF all
  <2>3. Len(all) = h /\ all[h] = blank /\ \A r \in 1..h - 1 : all[r] = Rows(buf)[r + 1]
    BY <1>1, <1>10, <2>2 DEF rest
  <2>4. \A r \in 1..h : all[r] = up[r]
    BY <1>1, <2>3
  <2> HIDE DEF up
  <2>5. all = up
    BY <1>9, <2>2, <2>3, <2>4, SeqEqual
  <2>6. QED
    BY <2>5 DEF all, rest
<1>12. \A r \in 1..h : [c \in 1..w |-> new[At(r, c)]]
                         = IF r = h THEN blank ELSE Rows(buf)[r + 1]
  <2> SUFFICES ASSUME NEW r \in 1..h
               PROVE  [c \in 1..w |-> new[At(r, c)]]
                        = IF r = h THEN blank ELSE Rows(buf)[r + 1]
    OBVIOUS
  <2>1. CASE r = h
    BY <1>8, <2>1
  <2>2. CASE r # h
    <3>1. r \in 1..h - 1 /\ r + 1 \in 1..h
      BY <1>1, <2>2
    <3>2. Rows(buf)[r + 1] = [c \in 1..w |-> buf[At(r + 1, c)]]
      BY <1>5, <3>1
    <3>3. QED
      BY <1>7, <2>2, <3>1, <3>2
  <2>3. QED
    BY <2>1, <2>2
<1>13. Rows(new) = Append(Tail(Rows(buf)), blank)
  BY <1>4, <1>11, <1>12
<1>14. QED
  BY <1>13 DEF new, w

(* What kputchar() does once it knows the new position is what the         *)
(* terminal does once it knows the new row and column.                     *)
LEMMA Placed ==
  ASSUME NEW buf, NEW q \in Nat, NEW m \in 0..CONSOLE_WIDTH - 1, q <= CONSOLE_HEIGHT,
         NEW p, p = CONSOLE_WIDTH * q + m,
         console_buffer' = IF Full(p) THEN ScrollUp(buf) ELSE buf,
         console_pos' = IF Full(p) THEN p - CONSOLE_WIDTH ELSE p
  PROVE  T!Place(Rows(buf), q, m)
<1> DEFINE w == CONSOLE_WIDTH
           h == CONSOLE_HEIGHT
<1>1. w \in Nat /\ w > 0 /\ h \in Nat /\ h > 0 /\ CONSOLE_BUFSIZE \in Nat
  BY BufferSize, ConsoleAssumption
<1>2. p \in Nat /\ (p < CONSOLE_BUFSIZE <=> q < h)
  BY RowOnScreen
<1>3. CASE q < h
  <2>1. ~Full(p)
    BY <1>1, <1>2, <1>3 DEF Full
  <2>2. console_pos' = p /\ console_buffer' = buf
    BY <2>1
  <2>3. console_pos' \div w = q /\ console_pos' % w = m
    BY <2>2, RowColumn
  <2>4. QED
    BY <1>3, <2>2, <2>3 DEF T!Place, Rows
<1>4. CASE ~(q < h)
  <2>1. Full(p) /\ q = h
    BY <1>1, <1>2, <1>4 DEF Full
  <2>2. console_pos' = p - w /\ console_buffer' = ScrollUp(buf)
    BY <2>1
  <2>3. console_pos' = w * (q - 1) + m /\ q - 1 \in Int
    <3> HIDE DEF w
    <3>1. w * (q - 1) = w * q - w /\ w * q \in Int
      BY <1>1
    <3>2. p = w * q + m /\ m \in 0..w - 1
      BY DEF w
    <3>3. QED
      BY <1>1, <2>2, <3>1, <3>2
  <2>4. console_pos' \div w = q - 1 /\ console_pos' % w = m
    BY <2>3, RowColumn
  <2>5. Rows(ScrollUp(buf)) = Append(Tail(Rows(buf)), T!BlankRow)
    BY RowsScroll DEF T!BlankRow
  <2>6. QED
    BY <1>4, <2>1, <2>2, <2>4, <2>5 DEF T!Place, Rows
<1>5. QED
  BY <1>3, <1>4

(* Moving on by n cells, at most a line, is moving on in rows and columns. *)
LEMMA MovedForward ==
  ASSUME NEW p \in Cell, NEW n \in 1..CONSOLE_WIDTH
  PROVE  LET q == (p \div CONSOLE_WIDTH) + (((p % CONSOLE_WIDTH) + n) \div CONSOLE_WIDTH)
             m == ((p % CONSOLE_WIDTH) + n) % CONSOLE_WIDTH
         IN /\ q \in Nat /\ m \in 0..CONSOLE_WIDTH - 1 /\ q <= CONSOLE_HEIGHT
            /\ p + n = CONSOLE_WIDTH * q + m
<1> DEFINE w == CONSOLE_WIDTH
           h == CONSOLE_HEIGHT
           d == p \div w
           e == p % w
           x == e + n
           a == x \div w
           b == x % w
<1>1. w \in Nat /\ w > 0 /\ h \in Nat /\ n \in 1..w /\ n \in Nat
      /\ p \in Nat /\ p < CONSOLE_BUFSIZE
  BY BufferSize, ConsoleAssumption DEF Cell
<1>2. d \in Nat /\ e \in 0..w - 1 /\ p = w * d + e
  BY <1>1, Split
<1>3. d < h
  BY <1>1, <1>2, RowOnScreen
<1> HIDE DEF d, e
<1>4. x \in Nat /\ x < w + w
  BY <1>1, <1>2
<1> HIDE DEF x
<1>5. a \in Nat /\ b \in 0..w - 1 /\ x = w * a + b
  BY <1>4, Split
<1> HIDE DEF w, a, b
<1>6. a <= 1
  <2>1. CASE a >= 2
    <3>1. w * a >= w * 2 /\ w * 2 = w + w
      BY <1>1, <1>5, <2>1
    <3>2. w * a \in Nat
      BY <1>1, <1>5
    <3>3. QED
      BY <1>1, <1>4, <1>5, <3>1, <3>2
  <2>2. QED
    BY <1>5, <2>1
<1>7. d + a \in Nat /\ d + a <= h
  BY <1>1, <1>2, <1>3, <1>5, <1>6
<1>8. p + n = w * (d + a) + b
  <2>1. w * (d + a) = w * d + w * a /\ w * d \in Nat /\ w * a \in Nat
    BY <1>1, <1>2, <1>5
  <2>2. QED
    BY <1>1, <1>2, <1>5, <2>1 DEF x
<1>9. QED
  BY <1>5, <1>7, <1>8 DEF a, b, d, e, w, h, x

-----------------------------------------------------------------------------
(* The buffer has a character in every cell.                               *)
BufferType == console_buffer \in [Cell -> Char \cup {Blank, Space}]

LEMMA WrittenType ==
  ASSUME BufferType, NEW c \in Char \cup Control
  PROVE  Written(c) \in [Cell -> Char \cup {Blank, Space}]
<1>1. CASE c = "backspace" /\ console_pos > 0
  BY <1>1 DEF BufferType, Written
<1>2. CASE c \notin Control
  BY <1>2 DEF BufferType, Written, Control
<1>3. CASE c \in Control /\ ~(c = "backspace" /\ console_pos > 0)
  BY <1>3 DEF BufferType, Written
<1>4. QED
  BY <1>1, <1>2, <1>3

LEMMA BufferTypeStep ==
  ASSUME BufferType, [Next]_vars
  PROVE  BufferType'
<1>1. CASE console_clear
  BY <1>1 DEF console_clear, BufferType
<1>2. ASSUME NEW c \in Char \cup Control, kputchar(c)
      PROVE  BufferType'
  <2>1. Written(c) \in [Cell -> Char \cup {Blank, Space}]
    BY WrittenType
  <2>2. ASSUME NEW buf \in [Cell -> Char \cup {Blank, Space}]
        PROVE  ScrollUp(buf) \in [Cell -> Char \cup {Blank, Space}]
    <3>1. \A k \in Cell : k < LAST_LINE => k + CONSOLE_WIDTH \in Cell
      <4> DEFINE w == CONSOLE_WIDTH
                 h == CONSOLE_HEIGHT
      <4>1. w \in Nat /\ h \in Nat /\ h > 0
        BY BufferSize, ConsoleAssumption
      <4> HIDE DEF w, h
      <4>2. w * (h - 1) = w * h - w /\ w * h \in Nat
        BY <4>1
      <4>3. QED
        BY <4>1, <4>2 DEF Cell, LAST_LINE, CONSOLE_BUFSIZE, w, h
    <3>2. QED
      BY <3>1 DEF ScrollUp
  <2>3. console_buffer' = Written(c) \/ console_buffer' = ScrollUp(Written(c))
    BY <1>2 DEF kputchar
  <2>4. QED
    BY <2>1, <2>2, <2>3 DEF BufferType
<1>3. CASE UNCHANGED vars
  BY <1>3 DEF vars, BufferType
<1>4. QED
  BY <1>1, <1>2, <1>3 DEF Next

(* kputchar(c) is the step of the terminal for c.                          *)
LEMMA PutStep ==
  ASSUME InsideBuffer, BufferType, NEW c \in Char \cup Control, kputchar(c)
  PROVE  T!Put(c)
<1> DEFINE w == CONSOLE_WIDTH
           p == console_pos
           q == p \div w
           m == p % w
           shown == Rows(console_buffer)
<1>1. /\ w \in Nat /\ w > 0 /\ CONSOLE_HEIGHT \in Nat
      /\ p \in Cell /\ p \in Nat /\ p < CONSOLE_BUFSIZE
  BY BufferSize, ConsoleAssumption DEF InsideBuffer, Cell
<1>2. q \in Nat /\ m \in 0..w - 1 /\ p = w * q + m
  BY <1>1, Split
<1>3. q < CONSOLE_HEIGHT
  BY <1>1, <1>2, RowOnScreen
<1>4. /\ input' = c
      /\ console_buffer' = IF Full(Moved(c)) THEN ScrollUp(Written(c)) ELSE Written(c)
      /\ console_pos' = IF Full(Moved(c)) THEN Moved(c) - CONSOLE_WIDTH ELSE Moved(c)
  BY DEF kputchar
<1>5. \A a \in Nat, b \in 0..w - 1 :
        a <= CONSOLE_HEIGHT /\ Moved(c) = w * a + b => T!Place(Rows(Written(c)), a, b)
  BY <1>4, Placed
<1>6. 0 \in 0..w - 1 /\ w * q \in Nat /\ w * (q + 1) = w * q + w
  <2> HIDE DEF w, q
  <2>1. QED
    BY <1>1, <1>2
<1>7. CASE c = "newline"
  <2>1. Moved(c) = w * (q + 1) + 0
    <3>1. p + w = w * (q + 1) + m
      <4> HIDE DEF w, q, m, p
      <4>1. QED
        BY <1>1, <1>2, <1>6
    <3>2. (p + w) % w = m
      BY <1>2, <3>1, RowColumn
    <3> HIDE DEF w, q, m, p
    <3>3. (p + w) - m = w * (q + 1) + 0
      BY <1>1, <1>2, <1>6, <3>1
    <3>4. QED
      BY <1>7, <3>2, <3>3 DEF Moved, LineStart, w, p
  <2>2. T!Place(Rows(Written(c)), q + 1, 0)
    <3> HIDE DEF q
    <3>1. q + 1 \in Nat /\ q + 1 <= CONSOLE_HEIGHT /\ 0 \in 0..w - 1
      BY <1>1, <1>2, <1>3
    <3>2. QED
      BY <1>5, <2>1, <3>1 DEF T!Place
  <2>3. Written(c) = console_buffer
    BY <1>7 DEF Written, Control
  <2>4. T!Place(shown, q + 1, 0)
    BY <2>2, <2>3
  <2>5. QED
    BY <1>4, <1>7, <2>4 DEF T!Put, Rows
<1>8. CASE c = "return"
  <2>1. Moved(c) = w * q + 0
    <3> HIDE DEF q, w
    <3>1. p - m = w * q + 0
      <4> HIDE DEF m, p
      <4>1. QED
        BY <1>1, <1>2, <1>6
    <3>2. QED
      BY <1>8, <3>1 DEF Moved, LineStart, w
  <2>2. T!Place(Rows(Written(c)), q, 0)
    <3> HIDE DEF q
    <3>1. q \in Nat /\ q <= CONSOLE_HEIGHT /\ 0 \in 0..w - 1
      BY <1>1, <1>2, <1>3
    <3>2. QED
      BY <1>5, <2>1, <3>1 DEF T!Place
  <2>3. Written(c) = console_buffer
    BY <1>8 DEF Written, Control
  <2>4. T!Place(shown, q, 0)
    BY <2>2, <2>3
  <2>5. QED
    BY <1>4, <1>8, <2>4 DEF T!Put, Rows
<1>9. ASSUME NEW n \in 1..w, Moved(c) = p + n
      PROVE  T!Forward(Rows(Written(c)), n)
  <2> DEFINE a == q + ((m + n) \div w)
             b == (m + n) % w
  <2>1. a \in Nat /\ b \in 0..w - 1 /\ a <= CONSOLE_HEIGHT /\ p + n = w * a + b
    BY <1>1, MovedForward
  <2>2. T!Place(Rows(Written(c)), a, b)
    <3> HIDE DEF a, b
    <3>1. QED
      BY <1>5, <1>9, <2>1 DEF T!Place
  <2>3. QED
    BY <2>2 DEF T!Forward
<1>10. CASE c = "tab"
  <2>1. TAB \in 1..w /\ Moved(c) = p + TAB /\ Written(c) = console_buffer
    BY <1>10, ConsoleAssumption DEF Moved, Written, Control
  <2>2. T!Forward(shown, TAB)
    BY <1>9, <2>1 DEF T!Forward, T!Place
  <2>3. QED
    BY <1>4, <1>10, <2>2 DEF T!Put, Rows
<1>11. CASE c = "backspace"
  <2>1. CASE p > 0
    <3> DEFINE a == IF m > 0 THEN q ELSE q - 1
               b == IF m > 0 THEN m - 1 ELSE w - 1
    <3>1. a \in Nat /\ b \in 0..w - 1 /\ a <= CONSOLE_HEIGHT /\ p - 1 = w * a + b
          /\ ~(q = 0 /\ m = 0)
      <4> HIDE DEF p, q, m, w
      <4>1. q = 0 => w * q = 0
        BY <1>1
      <4>2. ~(q = 0 /\ m = 0)
        BY <1>1, <1>2, <2>1, <4>1
      <4>3. CASE m > 0
        BY <1>1, <1>2, <1>3, <1>6, <4>2, <4>3
      <4>4. CASE ~(m > 0)
        <5>1. m = 0 /\ q >= 1
          BY <1>2, <4>2, <4>4
        <5>2. w * (q - 1) = w * q - w
          BY <1>1, <1>2
        <5>3. QED
          BY <1>1, <1>2, <1>3, <1>6, <4>2, <4>4, <5>1, <5>2
      <4>5. QED
        BY <4>3, <4>4
    <3>2. Moved(c) = p - 1 /\ Written(c) = [console_buffer EXCEPT ![p - 1] = Space]
      BY <1>11, <2>1 DEF Moved, Left, Written, Control
    <3>3. (p - 1) \div w = a /\ (p - 1) % w = b
      <4> HIDE DEF a, b
      <4>1. QED
        BY <3>1, RowColumn
    <3>4. p - 1 \in Cell
      BY <1>1, <2>1, BufferSize DEF Cell
    <3>5. Rows(Written(c)) = [shown EXCEPT ![a + 1] = [shown[a + 1] EXCEPT ![b + 1] = Space]]
      <4> DEFINE k == p - 1
      <4> HIDE DEF a, b, k
      <4>1. DOMAIN console_buffer = Cell /\ k \in Cell
        BY <3>4 DEF BufferType, k
      <4>2. k \div w = a /\ k % w = b /\ Written(c) = [console_buffer EXCEPT ![k] = Space]
        BY <3>2, <3>3 DEF k
      <4>3. Written(c)[k] = Space /\ \A j \in Cell : j # k => Written(c)[j] = console_buffer[j]
        BY <4>1, <4>2
      <4>4. Rows(Written(c))
              = [shown EXCEPT ![(k \div w) + 1] = [shown[(k \div w) + 1] EXCEPT ![(k % w) + 1] = Space]]
        BY <4>1, <4>3, RowsStore
      <4>5. QED
        BY <4>2, <4>4
    <3>6. T!Place(Rows(Written(c)), a, b)
      <4> HIDE DEF a, b
      <4>1. QED
        BY <1>5, <3>1, <3>2 DEF T!Place
    <3>7. T!Place(T!Write(a, b, Space), a, b)
      BY <3>5, <3>6 DEF T!Write, Rows
    <3>8. QED
      BY <1>4, <1>11, <3>1, <3>7 DEF T!Put
  <2>2. CASE ~(p > 0)
    <3>1. p = 0 /\ Moved(c) = p /\ Written(c) = console_buffer
      BY <1>1, <1>11, <2>2 DEF Moved, Left, Written, Control
    <3>2. ~Full(p)
      BY <1>1, BufferSize DEF Full
    <3>3. console_buffer' = console_buffer /\ console_pos' = console_pos
      BY <1>4, <3>1, <3>2
    <3>4. q = 0 /\ m = 0
      <4>1. p = w * 0 + 0
        BY <1>1, <3>1
      <4>2. QED
        BY <1>6, <4>1, RowColumn
    <3>5. QED
      BY <1>4, <1>11, <3>3, <3>4 DEF T!Put
  <2>3. QED
    BY <2>1, <2>2
<1>12. CASE c \notin Control
  <2>1. /\ 1 \in 1..w /\ Moved(c) = p + 1
        /\ Written(c) = [console_buffer EXCEPT ![p] = c]
    BY <1>1, <1>12 DEF Moved, Written, Control
  <2>2. Rows(Written(c)) = [shown EXCEPT ![q + 1] = [shown[q + 1] EXCEPT ![m + 1] = c]]
    <3>1. DOMAIN console_buffer = Cell
      BY DEF BufferType
    <3>2. Written(c)[p] = c /\ \A j \in Cell : j # p => Written(c)[j] = console_buffer[j]
      BY <1>1, <2>1, <3>1
    <3>3. QED
      BY <1>1, <3>2, RowsStore
  <2>3. T!Forward(Rows(Written(c)), 1)
    BY <1>9, <2>1
  <2>4. T!Forward(T!Write(q, m, c), 1)
    BY <2>2, <2>3 DEF T!Write, Rows, T!Forward, T!Place
  <2>5. QED
    BY <1>4, <1>12, <2>4 DEF T!Put, Control
<1>13. QED
  BY <1>7, <1>8, <1>10, <1>11, <1>12 DEF Control

(* For every size of the screen, the array of cells with its position is a *)
(* terminal with rows and columns: every call of kputchar() and of         *)
(* console_clear() is the operation of module Terminal, scrolling included *)
(* (console.c:22-60).                                                      *)
THEOREM ConsoleIsTerminal == Spec => IsTerminal
<1>1. Init => BufferType
  BY DEF Init, BufferType
<1>2. ASSUME NEW x, NEW r \in 1..CONSOLE_HEIGHT, NEW c \in 1..CONSOLE_WIDTH
      PROVE  [k \in Cell |-> x][(r - 1) * CONSOLE_WIDTH + c - 1] = x
  BY CellOf
<1>3. Rows([k \in Cell |-> Blank]) = [r \in 1..CONSOLE_HEIGHT |-> T!BlankRow]
  BY <1>2 DEF Rows, T!BlankRow
<1>4. 0 \div CONSOLE_WIDTH = 0 /\ 0 % CONSOLE_WIDTH = 0
  <2>1. 0 \in 0..CONSOLE_WIDTH - 1 /\ 0 = CONSOLE_WIDTH * 0 + 0
    BY BufferSize
  <2>2. QED
    BY <2>1, RowColumn
<1>5. Init => T!Init
  <2> SUFFICES ASSUME Init PROVE T!Init
    OBVIOUS
  <2>1. console_buffer = [k \in Cell |-> Blank] /\ console_pos = 0 /\ input = "clear"
    BY DEF Init
  <2>2. QED
    BY <1>3, <1>4, <2>1 DEF T!Init, Rows
<1>6. InsideBuffer /\ BufferType /\ [Next]_vars => [T!Next]_(T!vars)
  <2> SUFFICES ASSUME InsideBuffer, BufferType, [Next]_vars PROVE [T!Next]_(T!vars)
    OBVIOUS
  <2>1. CASE console_clear
    <3>1. console_buffer' = [k \in Cell |-> Blank] /\ console_pos' = 0 /\ input' = "clear"
      BY <2>1 DEF console_clear
    <3>2. T!Clear
      BY <1>3, <1>4, <3>1 DEF T!Clear, Rows
    <3>3. QED
      BY <3>2 DEF T!Next
  <2>2. ASSUME NEW c \in Char \cup Control, kputchar(c)
        PROVE  T!Next
    BY <2>2, PutStep DEF T!Next, T!Control, Control
  <2>3. CASE UNCHANGED vars
    BY <2>3 DEF vars, T!vars
  <2>4. QED
    BY <2>1, <2>2, <2>3 DEF Next
<1>7. BufferType /\ [Next]_vars => BufferType'
  BY BufferTypeStep
<1>8. QED
  BY <1>1, <1>5, <1>6, <1>7, CursorInside, PTL DEF Spec, T!Spec, IsTerminal

-----------------------------------------------------------------------------
(* A new line never starts beyond the cell behind the last.                *)
LEMMA NewLineBounds ==
  ASSUME NEW p \in Cell
  PROVE  LineStart(p + CONSOLE_WIDTH) <= CONSOLE_BUFSIZE
<1> DEFINE w == CONSOLE_WIDTH
           h == CONSOLE_HEIGHT
           x == p + w
           q == x \div w
<1>1. w \in Nat /\ w > 0 /\ h \in Nat /\ h > 0 /\ w * h \in Nat
  BY ConsoleAssumption
<1>2. p \in Nat /\ p < w * h
  BY <1>1 DEF Cell, CONSOLE_BUFSIZE
<1> HIDE DEF w, h
<1>3. x \in Nat /\ x < w * h + w
  BY <1>1, <1>2
<1> HIDE DEF x
<1>4. q \in Int /\ x = w * q + (x % w) /\ x % w \in 0..w - 1
  BY <1>1, <1>3
<1> HIDE DEF q
<1>5. w * q < w * h + w /\ x - (x % w) = w * q
  <2>1. w * q \in Int
    BY <1>1, <1>4
  <2>2. QED
    BY <1>1, <1>3, <1>4, <2>1
<1>6. w * q <= w * h
  <2>1. CASE q <= h
    BY <1>1, <1>4, <2>1
  <2>2. CASE q >= h + 1
    <3>1. w * q >= w * (h + 1)
      BY <1>1, <1>4, <2>2
    <3>2. w * (h + 1) = w * h + w
      BY <1>1
    <3>3. w * q \in Int /\ w * (h + 1) \in Int
      BY <1>1, <1>4
    <3>4. QED
      BY <1>1, <1>5, <3>1, <3>2, <3>3
  <2>3. QED
    BY <1>1, <1>4, <2>1, <2>2
<1>7. QED
  BY <1>5, <1>6 DEF LineStart, CONSOLE_BUFSIZE, x, w, h

(* From a cell of the screen, a character takes the position at most a tab *)
(* beyond the last one.                                                    *)
LEMMA MovedReach ==
  ASSUME NEW c, console_pos \in Cell
  PROVE  /\ Moved(c) \in 0..CONSOLE_BUFSIZE - 1 + TAB
         /\ c \notin Control => Moved(c) >= 1
         /\ c = "backspace" => Moved(c) \in Cell
         /\ c = "backspace" /\ ~(console_pos > 0) => Moved(c) = console_pos
<1>1. /\ Moved(c) \in Int /\ 0 <= Moved(c)
      /\ console_pos \in Nat /\ console_pos < CONSOLE_BUFSIZE
      /\ CONSOLE_BUFSIZE \in Nat /\ TAB \in Nat /\ TAB >= 1
  BY MovedBounds, BufferSize, ConsoleAssumption DEF Cell
<1>2. CASE c = "newline"
  BY <1>1, <1>2, NewLineBounds DEF Moved, Control
<1>3. CASE c = "return"
  BY <1>1, <1>3, LineStartBounds DEF Moved, Control
<1>4. CASE c = "tab"
  BY <1>1, <1>4 DEF Moved, Control
<1>5. CASE c = "backspace"
  BY <1>1, <1>5 DEF Moved, Left, Control, Cell
<1>6. CASE c \notin Control
  BY <1>1, <1>6 DEF Moved, Control
<1>7. QED
  BY <1>2, <1>3, <1>4, <1>5, <1>6 DEF Control

(* What is left of a panic's message, and that it begins with a character  *)
(* that is printed.                                                        *)
Rest(d) == {<<>>, Tail(Tail(PanicText[d])), Tail(PanicText[d]), PanicText[d]}

LEMMA Messages ==
  /\ MaxDepth = 2
  /\ \A d \in 1..2 : /\ PanicText[d] # <<>>
                     /\ Head(PanicText[d]) \notin Control
                     /\ \A t \in Rest(d) : t # <<>> => Tail(t) \in Rest(d)
                                                    /\ Tail(t) # PanicText[d]
<1>1. MaxDepth = 2
  BY DEF MaxDepth, PanicText
<1>2. /\ PanicText[1] = <<"a", "b", "newline">>
      /\ PanicText[2] = <<"c", "d", "newline">>
  BY DEF PanicText
<1>3. ASSUME NEW d \in 1..2, NEW a, NEW b, NEW c, PanicText[d] = <<a, b, c>>,
             a \notin Control
      PROVE  /\ PanicText[d] # <<>>
             /\ Head(PanicText[d]) \notin Control
             /\ \A t \in Rest(d) : t # <<>> => Tail(t) \in Rest(d) /\ Tail(t) # PanicText[d]
  <2>1. /\ Head(<<a, b, c>>) = a /\ Tail(<<a, b, c>>) = <<b, c>>
        /\ Tail(<<b, c>>) = <<c>> /\ Tail(<<c>>) = <<>>
    OBVIOUS
  <2>2. /\ Len(<<a, b, c>>) = 3 /\ Len(<<b, c>>) = 2 /\ Len(<<c>>) = 1 /\ Len(<<>>) = 0
    OBVIOUS
  <2>3. <<a, b, c>> \notin {<<>>, <<c>>, <<b, c>>}
    BY <2>2
  <2>4. Rest(d) = {<<>>, <<c>>, <<b, c>>, <<a, b, c>>}
    BY <1>3, <2>1, Zenon DEF Rest
  <2>5. ASSUME NEW t \in Rest(d), t # <<>>
        PROVE  Tail(t) \in {<<>>, <<c>>, <<b, c>>}
    <3>1. t = <<c>> \/ t = <<b, c>> \/ t = <<a, b, c>>
      BY <2>4, <2>5, Zenon
    <3>2. QED
      BY <2>1, <3>1, Zenon
  <2>6. ASSUME NEW t \in Rest(d), t # <<>>
        PROVE  Tail(t) \in Rest(d) /\ Tail(t) # PanicText[d]
    BY <1>3, <2>3, <2>4, <2>5, <2>6, Zenon
  <2>7. PanicText[d] # <<>> /\ Head(PanicText[d]) \notin Control
    BY <1>3, <2>1, <2>3, Zenon
  <2>8. QED
    BY <2>6, <2>7
<1>4. /\ "a" \notin Control /\ "c" \notin Control /\ 1 \in 1..2 /\ 2 \in 1..2
      /\ \A d \in 1..2 : d = 1 \/ d = 2
  BY DEF Control
<1>5. ASSUME NEW d \in 1..2
      PROVE  /\ PanicText[d] # <<>>
             /\ Head(PanicText[d]) \notin Control
             /\ \A t \in Rest(d) : t # <<>> => Tail(t) \in Rest(d) /\ Tail(t) # PanicText[d]
  <2>1. CASE d = 1
    BY <1>2, <1>3, <1>4, <2>1, Zenon
  <2>2. CASE d = 2
    BY <1>2, <1>3, <1>4, <2>2, Zenon
  <2>3. QED
    BY <1>4, <2>1, <2>2
<1>6. QED
  BY <1>1, <1>5, Zenon

-----------------------------------------------------------------------------
(* How far the position gets before it is scrolled back: a thread goes a   *)
(* tab beyond the last cell, and each panic may be interrupted before its  *)
(* first character has been scrolled.                                      *)
Reach == CONSOLE_BUFSIZE - 1 + TAB + depth

Begun == depth > 0 /\ text = PanicText[depth]

AtRest == console_pos \in Cell \/ (Begun /\ console_pos \in 0..Reach - 1)

Storing ==
    /\ pos \in 0..Reach /\ console_pos \in 0..Reach
    /\ "cell" \in todo => IF input = "backspace" THEN pos \in Cell ELSE pos >= 1
    /\ "pos" \notin todo /\ ~Full(pos) => console_pos = pos

Scrolling == Full(pos) /\ pos \in 0..Reach /\ console_pos \in 0..Reach

Refreshing == pos = console_pos /\ console_pos \in Cell

Points == {"load", "store", "scroll", "refresh", "upper", "select_low", "lower"}

PanicInv == /\ depth \in 0..2
            /\ IF depth = 0 THEN text = <<>> ELSE text \in Rest(depth)
            /\ pc \in Points
            /\ pc \in {"store", "scroll"} => ~Begun
            /\ pc = "load" => AtRest
            /\ pc = "store" => Storing
            /\ pc = "scroll" => Scrolling
            /\ pc \in Points \ {"load", "store", "scroll"} => Refreshing
            /\ LittleOutside

(* In every state the position is where the next panic can take it up.     *)
LEMMA PositionReach ==
  ASSUME PanicInv
  PROVE  console_pos \in 0..Reach /\ Reach \in Nat /\ CONSOLE_BUFSIZE \in Nat
         /\ Reach <= CONSOLE_BUFSIZE - 1 + CONSOLE_WIDTH /\ TAB \in Nat /\ TAB >= 1
<1>1. /\ CONSOLE_BUFSIZE \in Nat /\ TAB \in Nat /\ TAB >= 1 /\ depth \in 0..2
      /\ CONSOLE_WIDTH \in Nat /\ TAB + 2 <= CONSOLE_WIDTH
  BY BufferSize, ConsoleAssumption, PanicAssumption, Messages DEF PanicInv
<1>2. Cell \subseteq 0..Reach /\ 0..Reach - 1 \subseteq 0..Reach /\ Reach \in Nat
      /\ Reach <= CONSOLE_BUFSIZE - 1 + CONSOLE_WIDTH
  BY <1>1 DEF Cell, Reach
<1>3. console_pos \in 0..Reach
  BY <1>2 DEF PanicInv, Points, AtRest, Storing, Scrolling, Refreshing
<1>4. QED
  BY <1>1, <1>2, <1>3

LEMMA LoadStep ==
  ASSUME PanicInv, NEW c, Load(c), Begun => c \notin Control,
         depth' = depth, IF depth = 0 THEN text' = <<>> ELSE text' \in Rest(depth),
         ~Begun'
  PROVE  PanicInv'
<1>1. /\ pc = "load" /\ pc' = "store" /\ input' = c
      /\ pos' = Moved(c) /\ todo' = Stores(c)
      /\ UNCHANGED <<console_buffer, console_pos, cursor, stray>>
  BY DEF Load, video
<1>2. /\ console_pos \in 0..Reach /\ Reach \in Nat /\ CONSOLE_BUFSIZE \in Nat
      /\ TAB \in Nat /\ TAB >= 1 /\ depth \in Nat
  BY PositionReach DEF PanicInv
<1>3. Reach' = Reach
  BY DEF Reach
<1>4. /\ Moved(c) \in 0..Reach
      /\ "cell" \in Stores(c) => IF c = "backspace" THEN Moved(c) \in Cell
                                                     ELSE Moved(c) >= 1
      /\ "pos" \notin Stores(c) => console_pos = Moved(c)
  <2>1. CASE console_pos \in Cell
    <3>1. Moved(c) \in 0..CONSOLE_BUFSIZE - 1 + TAB
      BY <2>1, MovedReach
    <3>2. Moved(c) \in 0..Reach
      BY <1>2, <3>1 DEF Reach
    <3>3. /\ "cell" \in Stores(c) => c = "backspace" \/ c \notin Control
          /\ "pos" \notin Stores(c) => c = "backspace" /\ ~(console_pos > 0)
      BY DEF Stores, Control
    <3>4. QED
      BY <2>1, <3>2, <3>3, MovedReach DEF Control
  <2>2. CASE Begun /\ console_pos \in 0..Reach - 1
    <3>1. c \notin Control
      BY <2>2
    <3>2. Moved(c) = console_pos + 1 /\ "pos" \in Stores(c) /\ c # "backspace"
      BY <3>1 DEF Moved, Stores, Control
    <3>3. QED
      BY <1>2, <2>2, <3>2
  <2>3. QED
    BY <1>1, <2>1, <2>2 DEF PanicInv, AtRest
<1>5. Storing'
  BY <1>1, <1>2, <1>3, <1>4 DEF Storing
<1>6. QED
  BY <1>1, <1>5 DEF PanicInv, Points, LittleOutside

LEMMA PanicStep ==
  ASSUME PanicInv, [PNext]_pvars
  PROVE  PanicInv'
<1> DEFINE size == CONSOLE_BUFSIZE
           line == CONSOLE_WIDTH
<1>1. /\ console_pos \in 0..Reach /\ Reach \in Nat /\ size \in Nat
      /\ Reach <= size - 1 + line /\ TAB \in Nat /\ TAB >= 1
      /\ line \in Nat /\ line > 0 /\ size >= line
  BY PositionReach, BufferSize
<1>2. CASE ThreadPrints
  <2>1. PICK c : Load(c)
    BY <1>2 DEF ThreadPrints
  <2>2. depth = 0 /\ text' = text /\ depth' = depth /\ ~Begun /\ ~Begun'
    BY <1>2, <2>1 DEF ThreadPrints, Load, Begun
  <2>3. QED
    BY <2>1, <2>2, LoadStep DEF PanicInv
<1>3. CASE PanicPrints
  <2>1. text # <<>> /\ Load(Head(text)) /\ text' = Tail(text) /\ depth' = depth
    BY <1>3 DEF PanicPrints, Load
  <2>2. depth \in 1..2 /\ text \in Rest(depth)
    BY <2>1 DEF PanicInv
  <2>3. /\ text' \in Rest(depth) /\ ~Begun'
        /\ Begun => Head(text) \notin Control
    BY <2>1, <2>2, Messages DEF Begun
  <2>4. depth # 0
    BY <2>2
  <2>5. QED
    BY <2>1, <2>3, <2>4, LoadStep
<1>4. CASE StoreCell
  <2> DEFINE at == IF input = "backspace" THEN pos ELSE pos - 1
  <2>1. /\ pc = "store" /\ "cell" \in todo /\ todo' = todo \ {"cell"}
        /\ at \in Cell => stray' = stray
        /\ at \notin Cell => stray' = stray \cup {at}
        /\ UNCHANGED <<depth, text, pc, pos, input, console_pos>>
    BY <1>4 DEF StoreCell
  <2>2. Storing /\ LittleOutside
    BY <2>1 DEF PanicInv
  <2>3. at \notin Cell => at \in size..size + line - 1
    BY <1>1, <2>1, <2>2 DEF Storing, Cell
  <2>4. LittleOutside'
    BY <2>1, <2>2, <2>3 DEF LittleOutside
  <2>5. Storing'
    BY <2>1, <2>2 DEF Storing, Reach
  <2>6. QED
    BY <2>1, <2>4, <2>5 DEF PanicInv, Begun, Points
<1>5. CASE StorePos
  <2>1. /\ pc = "store" /\ "pos" \in todo /\ todo' = todo \ {"pos"}
        /\ console_pos' = pos \/ (Full(pos) /\ console_pos' = console_pos)
        /\ UNCHANGED <<depth, text, pc, pos, input, stray>>
    BY <1>5 DEF StorePos
  <2>2. Storing'
    BY <2>1 DEF PanicInv, Storing, Reach, Full
  <2>3. QED
    BY <2>1, <2>2 DEF PanicInv, Begun, Points, LittleOutside
<1>6. CASE Stored
  <2>1. /\ pc = "store" /\ todo = {}
        /\ pc' = IF Full(pos) THEN "scroll" ELSE "refresh"
        /\ UNCHANGED <<depth, text, pos, console_pos, stray>>
    BY <1>6 DEF Stored, video
  <2>2. Storing /\ ~Begun /\ ~Begun'
    BY <2>1 DEF PanicInv, Begun
  <2>3. CASE Full(pos)
    <3>1. Scrolling'
      BY <2>1, <2>2, <2>3 DEF Storing, Scrolling, Reach, Full
    <3>2. QED
      BY <2>1, <2>2, <2>3, <3>1 DEF PanicInv, Points, LittleOutside
  <2>4. CASE ~Full(pos)
    <3>1. Refreshing'
      BY <1>1, <2>1, <2>2, <2>4 DEF Storing, Refreshing, Full, Cell
    <3>2. QED
      BY <2>1, <2>2, <2>4, <3>1 DEF PanicInv, Points, LittleOutside
  <2>5. QED
    BY <2>3, <2>4
<1>7. CASE ScrollCell
  <2>1. pc = "scroll" /\ UNCHANGED <<depth, text, pc, pos, console_pos, stray>>
    BY <1>7 DEF ScrollCell
  <2>2. Scrolling'
    BY <2>1 DEF PanicInv, Scrolling, Full, Reach
  <2>3. QED
    BY <2>1, <2>2 DEF PanicInv, Points, LittleOutside, Begun
<1>8. CASE Scrolled
  <2>1. /\ pc = "scroll" /\ pos' = pos - line /\ console_pos' = pos'
        /\ pc' = "refresh" /\ UNCHANGED <<depth, text, stray>>
    BY <1>8 DEF Scrolled
  <2>2. Refreshing'
    BY <1>1, <2>1 DEF PanicInv, Scrolling, Refreshing, Full, Cell
  <2>3. QED
    BY <2>1, <2>2 DEF PanicInv, Points, LittleOutside
<1>9. CASE Select("high", "refresh", "upper") \/ Select("low", "select_low", "lower")
           \/ RefreshUpper
  <2>1. /\ pc \in {"refresh", "upper", "select_low"}
        /\ pc' \in {"upper", "select_low", "lower"}
        /\ UNCHANGED <<depth, text, pos, console_pos, stray>>
    BY <1>9 DEF Select, RefreshUpper
  <2>2. Refreshing'
    BY <2>1 DEF PanicInv, Points, Refreshing
  <2>3. QED
    BY <2>1, <2>2 DEF PanicInv, Points, LittleOutside
<1>10. CASE RefreshLower
  <2>1. pc = "lower" /\ pc' = "load" /\ UNCHANGED <<depth, text, console_pos, stray>>
    BY <1>10 DEF RefreshLower
  <2>2. AtRest'
    BY <2>1 DEF PanicInv, Points, Refreshing, AtRest
  <2>3. QED
    BY <2>1, <2>2 DEF PanicInv, Points, LittleOutside
<1>11. CASE Interrupted
  <2>1. /\ depth < 2 /\ depth' = depth + 1 /\ text' = PanicText[depth']
        /\ pc' = "load" /\ stray' = {} /\ console_pos' = console_pos
    BY <1>11, Messages DEF Interrupted
  <2>2. depth' \in 0..2 /\ depth' # 0 /\ Reach' - 1 = Reach /\ depth' > 0
    BY <1>1, <2>1 DEF PanicInv, Reach
  <2>3. AtRest'
    BY <1>1, <2>1, <2>2 DEF AtRest, Begun
  <2>4. text' \in Rest(depth')
    BY <2>1 DEF Rest
  <2>5. QED
    BY <2>1, <2>2, <2>3, <2>4 DEF PanicInv, Points, LittleOutside
<1>12. CASE UNCHANGED pvars
  <2>1. UNCHANGED <<depth, text, pc, pos, todo, input, console_pos, stray>>
    BY <1>12 DEF pvars, frame, video
  <2>2. QED
    BY <2>1 DEF PanicInv, Points, LittleOutside, AtRest, Storing, Scrolling, Refreshing,
       Begun, Reach, Full
<1>13. QED
  BY <1>2, <1>3, <1>4, <1>5, <1>6, <1>7, <1>8, <1>9, <1>10, <1>11, <1>12 DEF PNext

(* For every size of the screen, wherever in kputchar() a panic strikes    *)
(* and another inside it, whatever is written outside the screen is within *)
(* one line behind it (console.c:36-60).                                   *)
THEOREM NeverFarOutside == PSpec => []LittleOutside
<1>1. PInit => PanicInv
  BY BufferSize DEF PInit, Init, PanicInv, Points, AtRest, LittleOutside, Cell
<1>2. PanicInv /\ [PNext]_pvars => PanicInv'
  BY PanicStep
<1>3. PanicInv => LittleOutside
  BY DEF PanicInv
<1>4. QED
  BY <1>1, <1>2, <1>3, PTL DEF PSpec

-----------------------------------------------------------------------------
(* What a panic leaves on the screen.  While the screen scrolls, a cell    *)
(* from the second row on is found a row higher once the loop has passed   *)
(* its new place.                                                          *)
Seen(k) == IF pc = "scroll" /\ i > k - CONSOLE_WIDTH
           THEN console_buffer[k - CONSOLE_WIDTH]
           ELSE console_buffer[k]

Said(n) == PanicText[depth][n]

(* Where the next character goes, as the frame will see it.                *)
Here == IF pc = "load" THEN console_pos ELSE pos

Writing == pc = "store" /\ "cell" \in todo

(* The first character is in cell k unless it was written outside; the     *)
(* second is in cell k, with the first before it.                          *)
FirstAt(k) == stray = {} => k \in Cell /\ Seen(k) = Said(1)

PairAt(k) == /\ k \in Cell
             /\ Seen(k) = Said(2)
             /\ k > 0 /\ stray = {} => Seen(k - 1) = Said(1)

(* One character of the message has been taken, two, or the newline too.   *)
OneSaid == /\ pc = "store" => input = Said(1)
           /\ ~Writing => FirstAt(Here - 1)

TwoSaid == /\ pc = "store" => input = Said(2)
           /\ Here \in 1..CONSOLE_BUFSIZE
           /\ IF Writing THEN FirstAt(Here - 2) ELSE PairAt(Here - 1)

AllSaid == /\ Here % CONSOLE_WIDTH = 0
           /\ Here <= CONSOLE_BUFSIZE
           /\ ~Writing
           /\ \E k \in Cell : k < Here /\ Here <= k + 1 + CONSOLE_WIDTH /\ PairAt(k)

MessageInv ==
    /\ DOMAIN console_buffer = Cell
    /\ pc = "scroll" => i \in 0..CONSOLE_BUFSIZE
    /\ depth > 0 /\ text = Tail(PanicText[depth]) => OneSaid
    /\ depth > 0 /\ text = Tail(Tail(PanicText[depth])) => TwoSaid
    /\ depth > 0 /\ text = <<>> => AllSaid

(* The controller gets the upper half of the position, then the lower.     *)
CursorInv ==
    /\ cursor \in Nat
    /\ pc = "upper" => index = "high"
    /\ pc \in {"select_low", "lower"} => cursor - (cursor % BYTE) = pos - (pos % BYTE)
    /\ pc = "lower" => index = "low"
    /\ pc = "load" /\ depth > 0 /\ ~Begun => cursor = console_pos

LEMMA ScreenSize ==
  /\ CONSOLE_WIDTH \in Nat /\ CONSOLE_WIDTH >= 3
  /\ CONSOLE_BUFSIZE \in Nat /\ CONSOLE_BUFSIZE >= CONSOLE_WIDTH + CONSOLE_WIDTH + CONSOLE_WIDTH
  /\ LAST_LINE = CONSOLE_BUFSIZE - CONSOLE_WIDTH
<1> DEFINE w == CONSOLE_WIDTH
           h == CONSOLE_HEIGHT
<1>1. w \in Nat /\ w >= 3 /\ h \in Nat /\ h >= 3
  BY BufferSize, ConsoleAssumption, PanicAssumption, HeightAssumption, Messages
<1> HIDE DEF w, h
<1>2. w * h \in Nat /\ w * h >= w * 3 /\ w * 3 = w + w + w
  BY <1>1
<1>3. w * (h - 1) = w * h - w
  BY <1>1
<1>4. QED
  BY <1>1, <1>2, <1>3 DEF CONSOLE_BUFSIZE, LAST_LINE, w, h

(* The stages of a message, and the characters that lead from one to the   *)
(* next.                                                                   *)
LEMMA Stages ==
  ASSUME NEW d \in 1..2
  PROVE  LET said == PanicText[d]
         IN /\ Head(said) = said[1] /\ said[1] \notin Control
            /\ Head(Tail(said)) = said[2] /\ said[2] \notin Control
            /\ Head(Tail(Tail(said))) = "newline"
            /\ Tail(Tail(Tail(said))) = <<>>
            /\ said # Tail(said) /\ said # Tail(Tail(said)) /\ said # <<>>
            /\ Tail(said) # Tail(Tail(said)) /\ Tail(said) # <<>>
            /\ Tail(Tail(said)) # <<>>
<1>1. ASSUME NEW a, NEW b, NEW c,
             PanicText[d] = <<a, b, c>>, a \notin Control, b \notin Control, c = "newline"
      PROVE  LET said == PanicText[d]
             IN /\ Head(said) = said[1] /\ said[1] \notin Control
                /\ Head(Tail(said)) = said[2] /\ said[2] \notin Control
                /\ Head(Tail(Tail(said))) = "newline"
                /\ Tail(Tail(Tail(said))) = <<>>
                /\ said # Tail(said) /\ said # Tail(Tail(said)) /\ said # <<>>
                /\ Tail(said) # Tail(Tail(said)) /\ Tail(said) # <<>>
                /\ Tail(Tail(said)) # <<>>
  <2>1. /\ Head(<<a, b, c>>) = a /\ <<a, b, c>>[1] = a /\ <<a, b, c>>[2] = b
        /\ Tail(<<a, b, c>>) = <<b, c>> /\ Head(<<b, c>>) = b
        /\ Tail(<<b, c>>) = <<c>> /\ Head(<<c>>) = c /\ Tail(<<c>>) = <<>>
    OBVIOUS
  <2>2. /\ Len(<<a, b, c>>) = 3 /\ Len(<<b, c>>) = 2 /\ Len(<<c>>) = 1 /\ Len(<<>>) = 0
    OBVIOUS
  <2>3. /\ <<a, b, c>> # <<b, c>> /\ <<a, b, c>> # <<c>> /\ <<a, b, c>> # <<>>
        /\ <<b, c>> # <<c>> /\ <<b, c>> # <<>> /\ <<c>> # <<>>
    BY <2>2
  <2>4. QED
    BY <1>1, <2>1, <2>3, Zenon
<1>2. /\ PanicText[1] = <<"a", "b", "newline">>
      /\ PanicText[2] = <<"c", "d", "newline">>
      /\ {"a", "b", "c", "d"} \cap Control = {}
  BY DEF PanicText, Control
<1>3. d = 1 \/ d = 2
  OBVIOUS
<1>4. /\ "a" \notin Control /\ "b" \notin Control /\ "c" \notin Control /\ "d" \notin Control
  BY <1>2
<1>5. CASE d = 1
  BY <1>1, <1>2, <1>4, <1>5, Zenon
<1>6. CASE d = 2
  BY <1>1, <1>2, <1>4, <1>6, Zenon
<1>7. QED
  BY <1>3, <1>5, <1>6

(* A step of the loop in console_scroll_up() loses nothing but the top row. *)
LEMMA SeenScroll ==
  ASSUME DOMAIN console_buffer = Cell, ScrollCell, NEW k \in Cell, k >= CONSOLE_WIDTH
  PROVE  Seen(k)' = Seen(k)
<1> DEFINE w == CONSOLE_WIDTH
           size == CONSOLE_BUFSIZE
<1>1. w \in Nat /\ w >= 3 /\ size \in Nat /\ LAST_LINE = size - w
  BY ScreenSize
<1>2. /\ pc = "scroll" /\ pc' = "scroll" /\ i \in Cell /\ i' = i + 1
      /\ console_buffer' = [console_buffer EXCEPT ![i] = ScrollUp(console_buffer)[i]]
  BY DEF ScrollCell
<1>3. i \in Int /\ k \in Int /\ k < size /\ k - w \in Cell
  BY <1>1, <1>2 DEF Cell
<1>4. CASE i = k - w
  <2>1. i < LAST_LINE /\ i + w = k
    BY <1>1, <1>3, <1>4
  <2>2. ScrollUp(console_buffer)[i] = console_buffer[k]
    BY <1>2, <2>1 DEF ScrollUp
  <2>3. console_buffer'[k - w] = console_buffer[k]
    BY <1>2, <1>4, <2>2
  <2>4. i' > k - w /\ ~(i > k - w)
    BY <1>2, <1>3, <1>4
  <2>5. QED
    BY <1>2, <2>3, <2>4 DEF Seen
<1>5. CASE i > k - w
  <2>1. console_buffer'[k - w] = console_buffer[k - w]
    BY <1>2, <1>3, <1>5
  <2>2. i' > k - w
    BY <1>1, <1>2, <1>3, <1>5
  <2>3. QED
    BY <1>2, <1>5, <2>1, <2>2 DEF Seen
<1>6. CASE i < k - w
  <2>1. console_buffer'[k] = console_buffer[k]
    BY <1>1, <1>2, <1>3, <1>6
  <2>2. ~(i' > k - w) /\ ~(i > k - w)
    BY <1>1, <1>2, <1>3, <1>6
  <2>3. QED
    BY <1>2, <2>1, <2>2 DEF Seen
<1>7. QED
  BY <1>1, <1>3, <1>4, <1>5, <1>6

(* A step that leaves the cells as they are seen, the top row apart when   *)
(* the screen is to scroll, leaves the message as far as it has come.      *)
LEMMA SameMessage ==
  ASSUME depth' = depth, stray' = stray, Here \in Int, Here' = Here,
         pc' = "store" => pc = "store" /\ input' = input,
         Writing' = Writing,
         \A k \in Cell : (Full(Here) => k >= CONSOLE_WIDTH) => Seen(k)' = Seen(k)
  PROVE  /\ OneSaid => OneSaid'
         /\ TwoSaid => TwoSaid'
         /\ AllSaid => AllSaid'
<1> DEFINE w == CONSOLE_WIDTH
           size == CONSOLE_BUFSIZE
<1>1. w \in Nat /\ w >= 3 /\ size \in Nat /\ size >= w + w + w
  BY ScreenSize
<1>2. Said(1)' = Said(1) /\ Said(2)' = Said(2)
  BY DEF Said
<1>3. ASSUME NEW k \in Int, Full(Here) => k >= w, FirstAt(k)
      PROVE  FirstAt(k)'
  BY <1>2, <1>3 DEF FirstAt
<1>4. ASSUME NEW k \in Int, Full(Here) => k >= w + 1, PairAt(k)
      PROVE  PairAt(k)'
  <2>1. k \in Cell /\ Seen(k)' = Seen(k)
    BY <1>1, <1>4 DEF PairAt
  <2>2. k > 0 => k - 1 \in Cell /\ (Full(Here) => k - 1 >= w)
    BY <1>1, <1>4, <2>1 DEF Cell
  <2>3. k > 0 => Seen(k - 1)' = Seen(k - 1)
    BY <2>2
  <2>4. QED
    BY <1>2, <1>4, <2>1, <2>3 DEF PairAt
<1>5. OneSaid => OneSaid'
  <2> SUFFICES ASSUME OneSaid PROVE OneSaid'
    OBVIOUS
  <2>1. ASSUME ~Writing PROVE FirstAt(Here - 1)'
    <3> DEFINE k == Here - 1
    <3>1. FirstAt(k) /\ k \in Int
      BY <2>1 DEF OneSaid
    <3>2. CASE stray = {}
      <4>1. k \in Cell
        BY <3>1, <3>2 DEF FirstAt
      <4>2. Full(Here) => k >= w
        BY <1>1, <4>1 DEF Full, Cell
      <4>3. PICK kk \in Int : kk = k
        BY <3>1
      <4>4. FirstAt(kk) /\ (Full(Here) => kk >= w)
        BY <3>1, <4>2, <4>3
      <4>5. FirstAt(kk)' /\ kk = Here' - 1
        BY <1>3, <4>3, <4>4
      <4>6. QED
        BY <4>5 DEF FirstAt
    <3>3. CASE stray # {}
      BY <3>3 DEF FirstAt
    <3>4. QED
      BY <3>2, <3>3
  <2>2. QED
    BY <1>2, <2>1 DEF OneSaid
<1>6. TwoSaid => TwoSaid'
  <2> SUFFICES ASSUME TwoSaid PROVE TwoSaid'
    OBVIOUS
  <2>1. Here \in 1..size
    BY DEF TwoSaid
  <2>2. ASSUME Writing PROVE FirstAt(Here - 2)'
    <3>1. PICK k \in Int : k = Here - 2
      BY <2>1
    <3>2. FirstAt(k) /\ k = Here' - 2 /\ (Full(Here) => k >= w)
      BY <1>1, <2>1, <2>2, <3>1 DEF TwoSaid, Full
    <3>3. FirstAt(k)'
      BY <1>3, <3>2
    <3>4. QED
      BY <3>2, <3>3 DEF FirstAt
  <2>3. ASSUME ~Writing PROVE PairAt(Here - 1)'
    <3>1. PICK k \in Int : k = Here - 1
      BY <2>1
    <3>2. PairAt(k) /\ k = Here' - 1 /\ (Full(Here) => k >= w + 1)
      BY <1>1, <2>1, <2>3, <3>1 DEF TwoSaid, Full
    <3>3. PairAt(k)'
      BY <1>4, <3>2
    <3>4. QED
      BY <3>2, <3>3 DEF PairAt
  <2>4. QED
    BY <1>2, <2>1, <2>2, <2>3 DEF TwoSaid
<1>7. AllSaid => AllSaid'
  <2> SUFFICES ASSUME AllSaid PROVE AllSaid'
    OBVIOUS
  <2>1. PICK k \in Cell : k < Here /\ Here <= k + 1 + w /\ PairAt(k)
    BY DEF AllSaid
  <2>2. k \in Int /\ (Full(Here) => k >= w + 1)
    BY <1>1, <2>1 DEF Full, Cell
  <2>3. PairAt(k)'
    BY <1>4, <2>1, <2>2
  <2>4. \E j \in Cell : j < Here' /\ Here' <= j + 1 + w /\ PairAt(j)'
    BY <2>1, <2>3
  <2>5. QED
    BY <2>4 DEF AllSaid
<1>8. QED
  BY <1>5, <1>6, <1>7

(* A character of the message is taken: the next stage begins.             *)
LEMMA MessageLoad ==
  ASSUME PanicInv, MessageInv, PanicPrints
  PROVE  MessageInv'
<1> DEFINE w == CONSOLE_WIDTH
           size == CONSOLE_BUFSIZE
           said == PanicText[depth]
           c == Head(text)
<1>1. w \in Nat /\ w >= 3 /\ size \in Nat /\ size >= w + w + w
  BY ScreenSize
<1>2. /\ text # <<>> /\ text' = Tail(text)
      /\ pc = "load" /\ pc' = "store" /\ input' = c /\ pos' = Moved(c) /\ todo' = Stores(c)
      /\ UNCHANGED <<depth, console_buffer, console_pos, stray>>
  BY DEF PanicPrints, Load, video
<1>3. depth \in 1..2 /\ text \in Rest(depth) /\ depth > 0
  BY <1>2 DEF PanicInv
<1>4. /\ Head(said) = said[1] /\ said[1] \notin Control
      /\ Head(Tail(said)) = said[2] /\ said[2] \notin Control
      /\ Head(Tail(Tail(said))) = "newline"
      /\ Tail(Tail(Tail(said))) = <<>>
      /\ said # Tail(said) /\ said # Tail(Tail(said)) /\ said # <<>>
      /\ Tail(said) # Tail(Tail(said)) /\ Tail(said) # <<>>
      /\ Tail(Tail(said)) # <<>>
  BY <1>3, Stages
<1>5. /\ DOMAIN console_buffer' = Cell /\ PanicText[depth'] = said
      /\ Said(1)' = said[1] /\ Said(2)' = said[2] /\ Said(1) = said[1] /\ Said(2) = said[2]
      /\ Here = console_pos /\ Here' = Moved(c)
      /\ \A k : Seen(k)' = Seen(k)
  BY <1>2 DEF MessageInv, Said, Here, Seen
<1> HIDE DEF said
<1>6. text = said \/ text = Tail(said) \/ text = Tail(Tail(said))
  BY <1>2, <1>3 DEF Rest, said
<1>7. text # said => console_pos \in Cell
  BY <1>2 DEF PanicInv, AtRest, Begun, said
<1>8. ASSUME NEW x, x \notin Control
      PROVE  Stores(x) = {"pos", "cell"} /\ Moved(x) = console_pos + 1
  BY <1>8 DEF Stores, Moved, Control
<1>9. CASE text = said
  <2>1. c = said[1] /\ Writing' /\ text' = Tail(said)
    BY <1>2, <1>4, <1>8, <1>9 DEF Writing
  <2>2. OneSaid'
    BY <1>2, <1>5, <2>1 DEF OneSaid
  <2>3. QED
    BY <1>2, <1>4, <1>5, <2>1, <2>2 DEF MessageInv
<1>10. CASE text = Tail(said)
  <2>1. c = said[2] /\ Writing' /\ text' = Tail(Tail(said)) /\ Here' = console_pos + 1
    BY <1>2, <1>4, <1>5, <1>8, <1>10 DEF Writing
  <2>2. /\ console_pos \in Cell /\ console_pos \in Int
        /\ Here' \in 1..size /\ Here' - 2 = console_pos - 1
    <3>1. console_pos \in Cell
      BY <1>4, <1>7, <1>10
    <3>2. QED
      BY <1>1, <2>1, <3>1 DEF Cell
  <2>3. FirstAt(console_pos - 1)
    BY <1>2, <1>3, <1>5, <1>10 DEF MessageInv, OneSaid, Writing, said
  <2>4. FirstAt(Here - 2)'
    BY <1>2, <1>5, <2>2, <2>3 DEF FirstAt
  <2>5. TwoSaid'
    BY <1>2, <1>5, <2>1, <2>2, <2>4 DEF TwoSaid
  <2>6. QED
    BY <1>2, <1>4, <1>5, <2>1, <2>5 DEF MessageInv
<1>11. CASE text = Tail(Tail(said))
  <2> DEFINE x == console_pos + w
  <2>1. c = "newline" /\ ~Writing' /\ text' = <<>> /\ Here' = LineStart(x)
    BY <1>2, <1>4, <1>5, <1>11 DEF Writing, Stores, Moved, Control
  <2>2. console_pos \in Cell /\ console_pos \in Nat /\ x \in Nat
    BY <1>1, <1>4, <1>7, <1>11 DEF Cell
  <2>3. console_pos \in 1..size /\ PairAt(console_pos - 1)
    BY <1>2, <1>3, <1>5, <1>11 DEF MessageInv, TwoSaid, Writing, said
  <2>4. LineStart(x) % w = 0 /\ LineStart(x) <= x /\ x - LineStart(x) < w /\ LineStart(x) \in Int
    <3>1. LineStart(x) \in Int /\ LineStart(x) <= x /\ x - LineStart(x) < w
      BY <2>2, LineStartBounds
    <3>2. x = w * (x \div w) + (x % w) /\ x \div w \in Nat /\ x % w \in 0..w - 1
      BY <2>2, Split
    <3>3. LineStart(x) = w * (x \div w) + 0
      <4> DEFINE a == x \div w
                 b == x % w
      <4>1. LineStart(x) = x - b
        BY DEF LineStart
      <4> HIDE DEF a, b, x
      <4>2. w * a \in Nat
        BY <1>1, <3>2 DEF a
      <4>3. QED
        BY <1>1, <2>2, <3>2, <4>1, <4>2 DEF a, b
    <3>4. 0 \in 0..w - 1 /\ x \div w \in Int
      BY <1>1, <3>2
    <3>5. LineStart(x) % w = 0
      BY <3>3, <3>4, RowColumn
    <3>6. QED
      BY <3>1, <3>5
  <2>5. LineStart(x) <= size
    BY <2>2, NewLineBounds
  <2>6. PICK k \in Int : k = console_pos - 1
    BY <2>2
  <2>7. k \in Cell /\ PairAt(k)
    BY <1>1, <2>2, <2>3, <2>6 DEF Cell
  <2>8. k < LineStart(x) /\ LineStart(x) <= k + 1 + w
    BY <1>1, <2>2, <2>4, <2>6
  <2>9. PairAt(k)'
    BY <1>2, <1>5, <2>7 DEF PairAt
  <2>10. AllSaid'
    BY <2>1, <2>4, <2>5, <2>7, <2>8, <2>9 DEF AllSaid
  <2>11. QED
    BY <1>2, <1>4, <1>5, <2>1, <2>10 DEF MessageInv
<1>12. QED
  BY <1>6, <1>9, <1>10, <1>11

(* The cell of a character is stored.                                      *)
LEMMA MessageStore ==
  ASSUME PanicInv, MessageInv, StoreCell
  PROVE  MessageInv'
<1> DEFINE size == CONSOLE_BUFSIZE
           at == IF input = "backspace" THEN pos ELSE pos - 1
           entry == IF input = "backspace" THEN Space ELSE input
<1>1. /\ pc = "store" /\ "cell" \in todo /\ todo' = todo \ {"cell"}
      /\ at \in Cell => console_buffer' = [console_buffer EXCEPT ![at] = entry]
                        /\ stray' = stray
      /\ at \notin Cell => console_buffer' = console_buffer /\ stray' # {}
      /\ UNCHANGED <<depth, text, pc, pos, i, input>>
  BY DEF StoreCell
<1>2. /\ Writing /\ ~Writing' /\ Here = pos /\ Here' = pos /\ pos \in Int
      /\ DOMAIN console_buffer = Cell /\ DOMAIN console_buffer' = Cell
      /\ size \in Nat
  BY <1>1, BufferSize DEF Writing, Here, MessageInv, PanicInv, Storing, Reach, Cell
<1>3. /\ Said(1)' = Said(1) /\ Said(2)' = Said(2)
      /\ \A k : Seen(k)' = console_buffer'[k] /\ Seen(k) = console_buffer[k]
  BY <1>1 DEF Said, Seen
<1>4. depth > 0 => Said(1) # "backspace" /\ Said(2) # "backspace"
  <2> SUFFICES ASSUME depth > 0 PROVE Said(1) # "backspace" /\ Said(2) # "backspace"
    OBVIOUS
  <2>1. depth \in 1..2
    BY DEF PanicInv
  <2>2. Said(1) \notin Control /\ Said(2) \notin Control
    BY <2>1, Stages DEF Said
  <2>3. QED
    BY <2>2 DEF Control
<1>5. ASSUME depth > 0, OneSaid
      PROVE  OneSaid'
  <2>1. input = Said(1) /\ at = pos - 1 /\ entry = Said(1)
    BY <1>1, <1>4, <1>5 DEF OneSaid
  <2>2. FirstAt(Here - 1)'
    <3>1. CASE at \in Cell
      <4>1. console_buffer'[at] = Said(1)
        BY <1>1, <1>2, <2>1, <3>1
      <4>2. QED
        BY <1>2, <1>3, <2>1, <3>1, <4>1 DEF FirstAt
    <3>2. CASE at \notin Cell
      BY <1>1, <3>2 DEF FirstAt
    <3>3. QED
      BY <3>1, <3>2
  <2>3. QED
    BY <1>1, <1>3, <2>1, <2>2 DEF OneSaid
<1>6. ASSUME depth > 0, TwoSaid
      PROVE  TwoSaid'
  <2>1. /\ input = Said(2) /\ at = pos - 1 /\ entry = Said(2)
        /\ pos \in 1..size /\ FirstAt(pos - 2)
    BY <1>1, <1>2, <1>4, <1>6 DEF TwoSaid
  <2>2. at \in Cell
    BY <1>2, <2>1 DEF Cell
  <2>3. /\ console_buffer'[pos - 1] = Said(2) /\ stray' = stray
        /\ \A k \in Cell : k # pos - 1 => console_buffer'[k] = console_buffer[k]
    BY <1>1, <1>2, <2>1, <2>2
  <2>4. pos - 1 \in Cell /\ (pos - 1) - 1 = pos - 2 /\ pos - 2 # pos - 1
    BY <1>2, <2>1, <2>2
  <2>5. PairAt(Here - 1)'
    BY <1>2, <1>3, <2>1, <2>3, <2>4 DEF PairAt, FirstAt
  <2>6. QED
    BY <1>1, <1>2, <1>3, <2>1, <2>5 DEF TwoSaid
<1>7. ~AllSaid
  BY <1>2 DEF AllSaid
<1>8. QED
  BY <1>1, <1>2, <1>5, <1>6, <1>7 DEF MessageInv

(* The position goes up by a line at the end of the scrolling: the message *)
(* is where it was, as seen from there.                                    *)
LEMMA MessageScrolled ==
  ASSUME PanicInv, MessageInv, Scrolled
  PROVE  MessageInv'
<1> DEFINE w == CONSOLE_WIDTH
           size == CONSOLE_BUFSIZE
<1>1. w \in Nat /\ w >= 3 /\ size \in Nat /\ size >= w + w + w
  BY ScreenSize
<1>2. /\ pc = "scroll" /\ i \notin Cell /\ pos' = pos - w /\ pc' = "refresh"
      /\ UNCHANGED <<depth, text, console_buffer, stray>>
  BY DEF Scrolled
<1>3. /\ Here = pos /\ pos \in Int /\ pos >= size /\ Here' = pos - w
      /\ ~Writing /\ ~Writing' /\ i = size
  <2>1. i \in 0..size /\ Scrolling
    BY <1>2 DEF MessageInv, PanicInv
  <2>2. i = size
    BY <1>1, <1>2, <2>1 DEF Cell
  <2>3. QED
    BY <1>2, <2>1, <2>2 DEF Here, Writing, Scrolling, Full, Reach
<1>4. /\ Said(1)' = Said(1) /\ Said(2)' = Said(2)
      /\ \A k \in Cell : Seen(k) = console_buffer[k - w]
      /\ \A k : Seen(k)' = console_buffer[k]
  BY <1>1, <1>2, <1>3 DEF Said, Seen, Cell
<1>5. ASSUME NEW k \in Int, k >= w, FirstAt(k)
      PROVE  FirstAt(k - w)'
  BY <1>1, <1>2, <1>4, <1>5 DEF FirstAt, Cell
<1>6. ASSUME NEW k \in Int, k >= w + 1, PairAt(k)
      PROVE  PairAt(k - w)'
  <2>1. k \in Cell /\ k - 1 \in Cell /\ k - w \in Cell /\ k > 0
    BY <1>1, <1>6 DEF PairAt, Cell
  <2>2. Seen(k) = console_buffer[k - w] /\ Seen(k - 1) = console_buffer[(k - 1) - w]
    BY <1>4, <2>1
  <2>3. (k - 1) - w = (k - w) - 1
    BY <1>1
  <2>4. QED
    BY <1>2, <1>4, <1>6, <2>1, <2>2, <2>3 DEF PairAt
<1>7. ASSUME OneSaid PROVE OneSaid'
  <2>1. PICK k \in Int : k = pos - 1
    BY <1>3
  <2>2. FirstAt(k) /\ k >= w /\ k - w = Here' - 1
    BY <1>1, <1>3, <1>7, <2>1 DEF OneSaid
  <2>3. FirstAt(k - w)'
    BY <1>5, <2>2
  <2>4. QED
    BY <1>2, <2>2, <2>3 DEF OneSaid, FirstAt
<1>8. ASSUME TwoSaid PROVE TwoSaid'
  <2>1. PICK k \in Int : k = pos - 1
    BY <1>3
  <2>2. PairAt(k) /\ k >= w + 1 /\ k - w = Here' - 1 /\ Here' \in 1..size
    BY <1>1, <1>3, <1>8, <2>1 DEF TwoSaid
  <2>3. PairAt(k - w)'
    BY <1>6, <2>2
  <2>4. QED
    BY <1>2, <1>3, <2>2, <2>3 DEF TwoSaid, PairAt
<1>9. ASSUME AllSaid PROVE AllSaid'
  <2>1. PICK k \in Cell : k < pos /\ pos <= k + 1 + w /\ PairAt(k)
    BY <1>3, <1>9 DEF AllSaid
  <2>2. k \in Int /\ k >= w + 1
    BY <1>1, <1>3, <2>1 DEF Cell
  <2>3. PairAt(k - w)'
    BY <1>6, <2>1, <2>2
  <2>4. PICK j \in Int : j = k - w
    BY <1>1, <2>2
  <2>5. j \in Cell /\ j < Here' /\ Here' <= j + 1 + w /\ PairAt(j)'
    BY <1>1, <1>3, <2>1, <2>2, <2>3, <2>4 DEF Cell
  <2>6. Here' % w = 0
    <3> DEFINE a == pos \div w
    <3>1. pos % w = 0 /\ pos \in Nat
      BY <1>1, <1>3, <1>9 DEF AllSaid
    <3>2. pos = w * a + 0 /\ a \in Nat
      BY <3>1, Split
    <3> HIDE DEF a
    <3>3. Here' = w * (a - 1) + 0 /\ a - 1 \in Int
      <4> HIDE DEF w
      <4>1. w * (a - 1) = w * a - w /\ w * a \in Int
        BY <1>1, <3>2
      <4>2. QED
        BY <1>1, <1>3, <3>1, <3>2, <4>1
    <3>4. 0 \in 0..w - 1
      BY <1>1
    <3>5. QED
      BY <3>3, <3>4, RowColumn
  <2>7. Here' <= size
    BY <1>1, <1>3, <1>9 DEF AllSaid
  <2>8. QED
    BY <1>3, <2>5, <2>6, <2>7 DEF AllSaid
<1>10. QED
  BY <1>2, <1>7, <1>8, <1>9 DEF MessageInv

LEMMA MessageStep ==
  ASSUME PanicInv, MessageInv, [PNext]_pvars
  PROVE  MessageInv'
<1> DEFINE w == CONSOLE_WIDTH
           size == CONSOLE_BUFSIZE
<1>1. w \in Nat /\ w >= 3 /\ size \in Nat /\ size >= w + w + w
  BY ScreenSize
<1>2. Here \in Int
  <2>1. console_pos \in 0..Reach /\ Reach \in Nat
    BY PositionReach
  <2>2. pc = "load" \/ pos \in Int
    BY DEF PanicInv, Points, Storing, Scrolling, Refreshing, Reach, Cell
  <2>3. QED
    BY <2>1, <2>2 DEF Here
<1>3. ASSUME depth' = depth, text' = text, stray' = stray, Here' = Here,
             pc' = "store" => pc = "store" /\ input' = input,
             Writing' = Writing,
             \A k \in Cell : (Full(Here) => k >= w) => Seen(k)' = Seen(k),
             DOMAIN console_buffer' = Cell,
             pc' = "scroll" => i' \in 0..size
      PROVE  MessageInv'
  <2>1. (OneSaid => OneSaid') /\ (TwoSaid => TwoSaid') /\ (AllSaid => AllSaid')
    BY <1>2, <1>3, SameMessage
  <2>2. QED
    BY <1>3, <2>1 DEF MessageInv
<1>4. CASE ThreadPrints
  <2>1. /\ depth = 0 /\ depth' = 0 /\ pc' = "store" /\ console_buffer' = console_buffer
    BY <1>4 DEF ThreadPrints, Load, video
  <2>2. QED
    BY <2>1 DEF MessageInv
<1>5. CASE PanicPrints
  BY <1>5, MessageLoad
<1>6. CASE StoreCell
  BY <1>6, MessageStore
<1>7. CASE StorePos
  <2>1. /\ pc = "store" /\ pc' = "store" /\ todo' = todo \ {"pos"}
        /\ UNCHANGED <<depth, text, pos, i, input, console_buffer, stray>>
    BY <1>7 DEF StorePos
  <2>2. Here' = Here /\ Writing' = Writing /\ (\A k : Seen(k)' = Seen(k))
    BY <2>1 DEF Here, Writing, Seen
  <2>3. QED
    BY <1>3, <2>1, <2>2 DEF MessageInv
<1>8. CASE Stored
  <2>1. /\ pc = "store" /\ todo = {} /\ todo' = {} /\ i' = 0
        /\ pc' = IF Full(pos) THEN "scroll" ELSE "refresh"
        /\ UNCHANGED <<depth, text, pos, console_buffer, stray>>
    BY <1>8 DEF Stored, video
  <2>2. Here' = Here /\ Here = pos /\ Writing' = Writing
    BY <2>1 DEF Here, Writing
  <2>3. \A k \in Cell : (Full(Here) => k >= w) => Seen(k)' = Seen(k)
    BY <1>1, <2>1, <2>2 DEF Seen, Cell
  <2>4. pc' # "store" /\ 0 \in 0..size /\ DOMAIN console_buffer' = Cell
    BY <1>1, <2>1 DEF MessageInv
  <2>5. QED
    BY <1>3, <2>1, <2>2, <2>3, <2>4
<1>9. CASE ScrollCell
  <2>1. /\ pc = "scroll" /\ pc' = "scroll" /\ i \in Cell /\ i' = i + 1
        /\ console_buffer' = [console_buffer EXCEPT ![i] = ScrollUp(console_buffer)[i]]
        /\ UNCHANGED <<depth, text, pos, stray>>
    BY <1>9 DEF ScrollCell
  <2>2. Here' = Here /\ Here = pos /\ Writing' = Writing /\ Full(pos)
    BY <2>1 DEF Here, Writing, PanicInv, Scrolling
  <2>3. DOMAIN console_buffer = Cell /\ DOMAIN console_buffer' = Cell
    BY <2>1 DEF MessageInv
  <2>4. \A k \in Cell : k >= w => Seen(k)' = Seen(k)
    BY <1>9, <2>3, SeenScroll
  <2>5. i' \in 0..size
    BY <1>1, <2>1 DEF Cell
  <2>6. QED
    BY <1>3, <2>1, <2>2, <2>3, <2>4, <2>5
<1>10. CASE Scrolled
  BY <1>10, MessageScrolled
<1>11. CASE Select("high", "refresh", "upper") \/ Select("low", "select_low", "lower")
            \/ RefreshUpper
  <2>1. /\ pc \in {"refresh", "upper", "select_low"}
        /\ pc' \in {"upper", "select_low", "lower"}
        /\ UNCHANGED <<depth, text, pos, i, console_buffer, stray>>
    BY <1>11 DEF Select, RefreshUpper
  <2>2. Here' = Here /\ Writing' = Writing /\ (\A k : Seen(k)' = Seen(k))
    BY <2>1 DEF Here, Writing, Seen
  <2>3. QED
    BY <1>3, <2>1, <2>2 DEF MessageInv
<1>12. CASE RefreshLower
  <2>1. /\ pc = "lower" /\ pc' = "load"
        /\ UNCHANGED <<depth, text, console_pos, console_buffer, stray>>
    BY <1>12 DEF RefreshLower
  <2>2. pos = console_pos
    BY <2>1 DEF PanicInv, Points, Refreshing
  <2>3. Here' = Here /\ Writing' = Writing /\ (\A k : Seen(k)' = Seen(k))
    BY <2>1, <2>2 DEF Here, Writing, Seen
  <2>4. QED
    BY <1>3, <2>1, <2>3 DEF MessageInv
<1>13. CASE Interrupted
  <2>1. /\ depth < 2 /\ depth' = depth + 1 /\ text' = PanicText[depth']
        /\ pc' = "load" /\ console_buffer' = console_buffer
    BY <1>13, Messages DEF Interrupted
  <2>2. depth' \in 1..2
    BY <2>1 DEF PanicInv
  <2>3. text' # Tail(PanicText[depth']) /\ text' # Tail(Tail(PanicText[depth'])) /\ text' # <<>>
    BY <2>1, <2>2, Stages
  <2>4. QED
    BY <2>1, <2>3 DEF MessageInv
<1>14. CASE UNCHANGED pvars
  <2>1. UNCHANGED <<depth, text, pc, pos, todo, i, input, console_buffer, console_pos, stray>>
    BY <1>14 DEF pvars, frame, video
  <2>2. Here' = Here /\ Writing' = Writing /\ (\A k : Seen(k)' = Seen(k))
    BY <2>1 DEF Here, Writing, Seen
  <2>3. QED
    BY <1>3, <2>1, <2>2 DEF MessageInv
<1>15. QED
  BY <1>4, <1>5, <1>6, <1>7, <1>8, <1>9, <1>10, <1>11, <1>12, <1>13, <1>14 DEF PNext

(* A position is shown once both halves of it have gone to the controller, *)
(* whatever the size of a half.                                            *)
LEMMA Halves ==
  ASSUME NEW p \in Nat, NEW c \in Nat
  PROVE  /\ LET u == ((p \div BYTE) * BYTE) + (c % BYTE)
            IN u \in Nat /\ u - (u % BYTE) = p - (p % BYTE)
         /\ (p - (p % BYTE)) + (p % BYTE) = p
<1> DEFINE b == BYTE
           q == p \div b
           m == p % b
           r == c % b
           u == q * b + r
<1>1. b \in Nat /\ b > 0
  BY DEF BYTE
<1> HIDE DEF b
<1>2. q \in Nat /\ m \in 0..b - 1 /\ p = b * q + m /\ r \in 0..b - 1
  BY <1>1
<1> HIDE DEF q, m, r
<1>3. q * b = b * q /\ b * q \in Nat
  BY <1>1, <1>2
<1>4. u = b * q + r /\ u \in Nat
  BY <1>1, <1>2, <1>3
<1> HIDE DEF u
<1>5. u % b = r
  BY <1>1, <1>2, <1>4, QuotientRemainder
<1>6. u - (u % b) = p - m /\ (p - m) + m = p
  BY <1>1, <1>2, <1>3, <1>4, <1>5
<1>7. QED
  BY <1>4, <1>6 DEF u, q, m, r, b

LEMMA CursorStep ==
  ASSUME PanicInv, CursorInv, [PNext]_pvars
  PROVE  CursorInv'
<1>1. CASE Select("high", "refresh", "upper")
  BY <1>1 DEF Select, CursorInv
<1>2. CASE RefreshUpper
  <2>1. /\ pc = "upper" /\ pc' = "select_low" /\ pos' = pos
        /\ cursor' = ShownWith(pos \div BYTE) /\ index = "high" /\ cursor \in Nat
    BY <1>2 DEF RefreshUpper, CursorInv
  <2>2. pos \in Nat
    BY <2>1, BufferSize DEF PanicInv, Points, Refreshing, Cell
  <2>3. cursor' = ((pos \div BYTE) * BYTE) + (cursor % BYTE)
    BY <2>1 DEF ShownWith
  <2>4. cursor' \in Nat /\ cursor' - (cursor' % BYTE) = pos - (pos % BYTE)
    BY <2>1, <2>2, <2>3, Halves
  <2>5. QED
    BY <2>1, <2>4 DEF CursorInv
<1>3. CASE Select("low", "select_low", "lower")
  BY <1>3 DEF Select, CursorInv
<1>4. CASE RefreshLower
  <2>1. /\ pc = "lower" /\ pc' = "load" /\ console_pos' = console_pos
        /\ cursor' = ShownWith(pos % BYTE) /\ index = "low"
        /\ cursor - (cursor % BYTE) = pos - (pos % BYTE)
    BY <1>4 DEF RefreshLower, CursorInv
  <2>2. pos \in Nat /\ pos = console_pos
    BY <2>1, BufferSize DEF PanicInv, Points, Refreshing, Cell
  <2>3. cursor' = (pos - (pos % BYTE)) + (pos % BYTE)
    BY <2>1 DEF ShownWith
  <2>4. cursor' = pos
    BY <2>2, <2>3, Halves
  <2>5. QED
    BY <2>1, <2>2, <2>4 DEF CursorInv
<1>5. CASE ThreadPrints \/ PanicPrints
  BY <1>5 DEF ThreadPrints, PanicPrints, Load, CursorInv, video
<1>6. CASE StoreCell \/ StorePos
  BY <1>6 DEF StoreCell, StorePos, CursorInv
<1>7. CASE Stored
  BY <1>7 DEF Stored, CursorInv, video
<1>8. CASE ScrollCell \/ Scrolled
  BY <1>8 DEF ScrollCell, Scrolled, CursorInv
<1>9. CASE Interrupted
  BY <1>9 DEF Interrupted, CursorInv, Begun
<1>10. CASE UNCHANGED pvars
  BY <1>10 DEF pvars, frame, video, CursorInv, Begun
<1>11. QED
  BY <1>1, <1>2, <1>3, <1>4, <1>5, <1>6, <1>7, <1>8, <1>9, <1>10 DEF PNext

(* For every screen of three lines or more, wherever in kputchar() a panic *)
(* strikes and another inside it: when the processor halts, the message is *)
(* on the screen but for its first character at most, and the cursor is    *)
(* shown at the start of a line below                                      *)
(* (panic.c:6-12, interrupt.c:66-80, console.c:13-60).                     *)
THEOREM PanicMessageShown == PSpec => []PanicReadable
<1> DEFINE Inv == PanicInv /\ MessageInv /\ CursorInv
<1>1. PInit => Inv
  <2> SUFFICES ASSUME PInit PROVE Inv
    OBVIOUS
  <2>1. PanicInv
    BY BufferSize DEF PInit, Init, PanicInv, Points, AtRest, LittleOutside, Cell
  <2>2. MessageInv /\ CursorInv
    BY DEF PInit, Init, MessageInv, CursorInv
  <2>3. QED
    BY <2>1, <2>2
<1>2. Inv /\ [PNext]_pvars => Inv'
  BY PanicStep, MessageStep, CursorStep
<1>3. Inv => PanicReadable
  <2> SUFFICES ASSUME Inv, Halted PROVE PanicReadable
    BY DEF PanicReadable
  <2>1. depth > 0 /\ depth \in 1..2 /\ text = <<>> /\ pc = "load" /\ Here = console_pos
    BY DEF Halted, PanicInv, Here
  <2>2. ~Begun
    BY <2>1, Messages DEF Begun
  <2>3. console_pos \in Cell /\ cursor = console_pos
    BY <2>1, <2>2 DEF PanicInv, AtRest, CursorInv
  <2>4. AllSaid
    BY <2>1 DEF MessageInv
  <2>5. PICK k \in Cell : k < console_pos /\ PairAt(k)
    BY <2>1, <2>4 DEF AllSaid
  <2>6. /\ console_buffer[k] = PanicText[depth][2]
        /\ (k > 0 /\ stray = {}) => console_buffer[k - 1] = PanicText[depth][1]
    BY <2>1, <2>5 DEF PairAt, Seen, Said
  <2>7. console_pos % CONSOLE_WIDTH = 0
    BY <2>1, <2>4 DEF AllSaid
  <2>8. QED
    BY <2>3, <2>5, <2>6, <2>7 DEF PanicReadable
<1> HIDE DEF Inv
<1>4. QED
  BY <1>1, <1>2, <1>3, PTL DEF PSpec
=============================================================================
