-------------------------- MODULE FormatWordProofs --------------------------
(***************************************************************************)
(* The arithmetic of lib/vsprintf.c for every width of a machine word: the *)
(* division of a long long in two steps is exact and cannot fault, and the *)
(* end of the buffer is right although its computation wraps around.       *)
(***************************************************************************)
EXTENDS FormatWord, TLAPS

(* Division with remainder, as facts about \div and %.                     *)
LEMMA DivMod ==
    ASSUME NEW a \in Nat, NEW b \in Nat, b > 0
    PROVE  /\ a \div b \in Nat
           /\ a % b \in Nat
           /\ a % b < b
           /\ a = b * (a \div b) + (a % b)
  OBVIOUS

(* A quotient and a remainder are determined by what they must satisfy.    *)
LEMMA DivUnique ==
    ASSUME NEW b \in Nat, b > 0, NEW q \in Nat, NEW r \in Nat, r < b
    PROVE  (b * q + r) \div b = q /\ (b * q + r) % b = r
  OBVIOUS

(* do_div(): its divl never faults, and it yields quotient and remainder   *)
(* of the whole long long (vsprintf.c:7-19).                               *)
THEOREM DoDivExact ==
    ASSUME NEW n \in 0..LONGLONG - 1, NEW base \in 1..WORD - 1
    PROVE  /\ ~do_div(n, base).fault
           /\ do_div(n, base).n = n \div base
           /\ do_div(n, base).mod = n % base
<1> DEFINE h == n \div WORD
           l == n % WORD
           q1 == h \div base
           r1 == h % base
           m == (r1 * WORD) + l
           q2 == m \div base
           r2 == m % base
<1>1. WORD \in Nat /\ WORD > 0 /\ n \in Nat /\ base \in Nat /\ base > 0
  BY WordAssumption DEF LONGLONG
<1>2. h \in Nat /\ l \in Nat /\ l < WORD /\ n = WORD * h + l
  BY <1>1, DivMod
<1>3. q1 \in Nat /\ r1 \in Nat /\ r1 < base /\ h = base * q1 + r1
  BY <1>1, <1>2, DivMod
<1>4. m \in Nat
  BY <1>1, <1>2, <1>3
<1>5. q2 \in Nat /\ r2 \in Nat /\ r2 < base /\ m = base * q2 + r2
  BY <1>1, <1>4, DivMod
<1>6. IF h # 0 THEN h % base = r1 /\ h \div base = q1 ELSE r1 = 0 /\ q1 = 0
  <2>1. CASE h # 0
    BY <2>1
  <2>2. CASE h = 0
    BY <2>2, <1>1, DivUnique
  <2> QED
    BY <2>1, <2>2
<1>7. q2 < WORD
  <2>1. SUFFICES ASSUME q2 >= WORD PROVE FALSE
    BY <1>1, <1>5
  <2>2. base * q2 >= base * WORD
    BY <2>1, <1>1, <1>5
  <2>3. m < (r1 + 1) * WORD
    BY <1>1, <1>2, <1>3
  <2>4. (r1 + 1) * WORD <= base * WORD
    BY <1>1, <1>3
  <2> QED
    BY <2>2, <2>3, <2>4, <1>1, <1>3, <1>4, <1>5
<1>8. n = base * ((q1 * WORD) + q2) + r2
  <2>1. WORD * h = base * (q1 * WORD) + r1 * WORD
    BY <1>1, <1>3
  <2>2. base * ((q1 * WORD) + q2) = base * (q1 * WORD) + base * q2
    BY <1>1, <1>3, <1>5
  <2> QED
    BY <2>1, <2>2, <1>1, <1>2, <1>3, <1>5
<1>9. n \div base = (q1 * WORD) + q2 /\ n % base = r2
  <2>1. (q1 * WORD) + q2 \in Nat
    BY <1>1, <1>3, <1>5
  <2> QED
    BY <2>1, <1>1, <1>5, <1>8, DivUnique
<1>10. do_div(n, base).n = (q1 * WORD) + q2
  BY <1>6 DEF do_div, divl
<1>11. do_div(n, base).mod = r2
  BY <1>6 DEF do_div, divl
<1>12. ~do_div(n, base).fault
  <2>1. do_div(n, base).fault = divl(r1, l, base).fault
    BY <1>6 DEF do_div
  <2>2. divl(r1, l, base).fault = (q2 >= WORD)
    BY DEF divl
  <2>3. ~(q2 >= WORD)
    BY <1>1, <1>5, <1>7
  <2> HIDE DEF h, l, q1, r1, m, q2, r2
  <2> QED
    BY <2>1, <2>2, <2>3, Zenon
<1> QED
  BY <1>9, <1>10, <1>11, <1>12

(* vsnprintf() with a buffer that is not at address 0: the end is the last *)
(* address of the buffer, or of the memory if the buffer does not fit, and *)
(* one before the buffer exactly if there is no room (vsprintf.c:248-254). *)
THEOREM BufferEndRight ==
    ASSUME NEW buf \in 1..WORD - 1, NEW size \in 0..WORD - 1
    PROVE  /\ BufferEnd(buf, size) = IF buf + size > WORD THEN WORD - 1 ELSE buf + size - 1
           /\ BufferSize(buf, size) = BufferEnd(buf, size) - buf + 1
<1> DEFINE sum == buf + size - 1
<1>1. WORD \in Nat /\ WORD > 1 /\ buf \in Nat /\ size \in Nat /\ sum \in Nat
  BY WordAssumption
<1>2. CASE buf + size <= WORD
  <2>1. sum % WORD = sum
    <3>1. sum = WORD * 0 + sum /\ sum < WORD
      BY <1>1, <1>2
    <3> QED
      BY <3>1, <1>1, DivUnique
  <2> QED
    BY <2>1, <1>1, <1>2 DEF BufferEnd, BufferSize
<1>3. CASE buf + size > WORD
  <2>1. sum % WORD = sum - WORD
    <3>1. sum = WORD * 1 + (sum - WORD) /\ sum - WORD \in Nat /\ sum - WORD < WORD
      BY <1>1, <1>3
    <3> QED
      BY <3>1, <1>1, DivUnique
  <2> QED
    BY <2>1, <1>1, <1>3 DEF BufferEnd, BufferSize
<1> QED
  BY <1>1, <1>2, <1>3
=============================================================================
