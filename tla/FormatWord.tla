----------------------------- MODULE FormatWord -----------------------------
(***************************************************************************)
(* The two places of lib/vsprintf.c where the width of a machine word      *)
(* matters: the division of a long long by a word, and the end of the      *)
(* buffer that vsnprintf() writes to.                                      *)
(***************************************************************************)
EXTENDS Integers

CONSTANT WORD      \* the number of values of a word: 2^32

ASSUME WordAssumption == WORD \in Nat /\ WORD > 1

(* The number of values of a long long.                                    *)
LONGLONG == WORD * WORD

(* The instruction divl: it faults when the quotient is no word.           *)
divl(upper, low, base) ==
    LET n == (upper * WORD) + low
    IN [quotient |-> n \div base, mod |-> n % base, fault |-> n \div base >= WORD]

(* Faulty variant: the upper word is divided only by divl.                 *)
DoDivUpperWhole(n, base) ==
    LET d == divl(n \div WORD, n % WORD, base)
    IN [n |-> d.quotient % WORD, mod |-> d.mod, fault |-> d.fault]

(* do_div(n, base): n becomes the quotient, the remainder is the result.   *)
do_div(n, base) ==
    LET low == n % WORD
        high == n \div WORD
        upper == IF high # 0 THEN high % base ELSE high
        high1 == IF high # 0 THEN high \div base ELSE high
        d == divl(upper, low, base)
    IN [n |-> (high1 * WORD) + d.quotient, mod |-> d.mod, fault |-> d.fault]

-----------------------------------------------------------------------------
(* Faulty variant: the end is not moved back when the addition wraps.      *)
BufferEndWraps(buf, size) == (buf + size - 1) % WORD

(* vsnprintf(buf, size, ...): the last address of the buffer; the addition *)
(* wraps around for a buffer that would go beyond the last address, as     *)
(* that of vsprintf() does.                                                *)
BufferEnd(buf, size) ==
    LET end == (buf + size - 1) % WORD
    IN IF end < buf - 1 THEN WORD - 1 ELSE end

BufferSize(buf, size) ==
    IF (buf + size - 1) % WORD < buf - 1 THEN WORD - buf ELSE size
=============================================================================
