-------------------------------- MODULE Scan --------------------------------
(***************************************************************************)
(* Formatted input, lib/vsprintf.c.                                        *)
(*                                                                         *)
(* A format is a sequence of items: white space, a character that must be  *)
(* there, a conversion that is skipped, or a conversion with its width,    *)
(* <<>> when there is none, and its qualifier.                             *)
(***************************************************************************)
EXTENDS Format

INT_MAX == (WORD \div 2) - 1

RECURSIVE SkipWhite(_)
SkipWhite(s) == IF isspace(s[1]) THEN SkipWhite(Tail(s)) ELSE s

RECURSIVE SkipWord(_)
SkipWord(s) == IF isspace(s[1]) \/ s[1] = 0 THEN s ELSE SkipWord(Tail(s))

-----------------------------------------------------------------------------
(* Faulty variant: small letters are taken for large ones.                 *)
DigitValueLarge(c) == IF isdigit(c) THEN c - Zero ELSE c - 65 + 10

DigitValue(c) == IF isdigit(c) THEN c - Zero ELSE toupper(c) - 65 + 10

(* The loop of simple_strtoul() and simple_strtoull(), in a type of so     *)
(* many values: the number, and where it ends.                             *)
RECURSIVE Accumulate(_, _, _, _)
Accumulate(cp, base, values, result) ==
    IF isxdigit(cp[1]) /\ DigitValue(cp[1]) < base
    THEN Accumulate(Tail(cp), base, values, ((result * base) + DigitValue(cp[1])) % values)
    ELSE [num |-> result, end |-> cp]

(* The base is taken from the number when it is 0.                         *)
ToUnsigned(cp, base, values) ==
    CASE base # 0 -> Accumulate(cp, base, values, 0)
      [] base = 0 /\ cp[1] # Zero -> Accumulate(cp, 10, values, 0)
      [] base = 0 /\ cp[1] = Zero ->
           IF cp[2] = 120 /\ isxdigit(cp[3])
           THEN Accumulate(Tail(Tail(cp)), 16, values, 0)
           ELSE Accumulate(Tail(cp), 8, values, 0)

(* The result of a signed conversion is given as the bits it is stored in. *)
ToSigned(cp, base, values) ==
    IF cp[1] = 45
    THEN LET r == ToUnsigned(Tail(cp), base, values) IN [r EXCEPT !.num = (-@) % values]
    ELSE ToUnsigned(cp, base, values)

simple_strtoul(cp, base) == ToUnsigned(cp, base, WORD)

simple_strtol(cp, base) == ToSigned(cp, base, WORD)

simple_strtoull(cp, base) == ToUnsigned(cp, base, LONGLONG)

simple_strtoll(cp, base) == ToSigned(cp, base, LONGLONG)

-----------------------------------------------------------------------------
(* An integer conversion: how much of the number its type keeps.           *)
Convert(item, str) ==
    LET signed == item.conv \in {"d", "i"}
        base == Base(item.conv)
        r == CASE item.qualifier = "L" /\ signed -> simple_strtoll(str, base)
               [] item.qualifier = "L" /\ ~signed -> simple_strtoull(str, base)
               [] item.qualifier # "L" /\ signed /\ item.qualifier # "Z" -> simple_strtol(str, base)
               [] OTHER -> simple_strtoul(str, base)
    IN IF item.qualifier = "h" THEN [r EXCEPT !.num = @ % SHORT] ELSE r

(* %c: one character, and as many more as the width says.                  *)
RECURSIVE CopyChars(_, _, _)
CopyChars(str, width, s) ==
    LET s1 == Append(s, str[1])
        rest == Tail(str)
    IN IF width > 0 /\ rest[1] # 0
       THEN CopyChars(rest, width - 1, s1)
       ELSE [s |-> s1, str |-> rest, width |-> width - 1]

(* %s: up to the next white space, and no more than the width.             *)
RECURSIVE CopyWord(_, _, _)
CopyWord(str, width, s) ==
    IF str[1] = 0 \/ isspace(str[1]) THEN [s |-> s, str |-> str, width |-> width]
    ELSE IF width = 0 THEN [s |-> s, str |-> str, width |-> -1]
    ELSE CopyWord(Tail(str), width - 1, Append(s, str[1]))

(* The items behind a conversion that is skipped: up to white space.       *)
RECURSIVE SkipItems(_)
SkipItems(fmt) == IF fmt = <<>> \/ fmt[1].conv = "space" THEN fmt ELSE SkipItems(Tail(fmt))

(* What was stored so far, a text or a number for each conversion, and how *)
(* many of them count.                                                     *)
StoreText(done, s) ==
    [done EXCEPT !.out = Append(@, [text |-> s, num |-> 0]), !.num = @ + 1]

StoreNum(done, n, counts) ==
    [done EXCEPT !.out = Append(@, [text |-> <<>>, num |-> n]), !.num = @ + counts]

Is(fmt, convs) == fmt # <<>> /\ fmt[1].conv \in convs

(* The loop of vsscanf(), from str and fmt on, and the body of the loop    *)
(* behind the white space.  The width stays what it was from one           *)
(* conversion to the next.                                                 *)
RECURSIVE ScanFrom(_, _, _, _)
RECURSIVE ScanItem(_, _, _, _)

ScanFrom(str, fmt, field_width, done) ==
    IF fmt = <<>> \/ str[1] = 0 THEN done
    ELSE IF Is(fmt, {"space"}) THEN ScanItem(SkipWhite(str), Tail(fmt), field_width, done)
    ELSE ScanItem(str, fmt, field_width, done)

ScanItem(str, fmt, field_width, done) ==
    LET item == fmt[1]
        rest == Tail(fmt)
        more == str[1] # 0
        width == IF item.width # <<>> THEN item.width[1] ELSE field_width
        chars == CopyChars(str, IF width = -1 THEN 1 ELSE width, <<>>)
        word == CopyWord(SkipWhite(str), IF width = -1 THEN INT_MAX ELSE width, <<>>)
        value == Convert(item, SkipWhite(str))
    IN CASE Is(fmt, {"plain"}) /\ item.arg = str[1] ->
              ScanFrom(Tail(str), rest, field_width, done)
         [] Is(fmt, {"skip"}) ->
              ScanFrom(SkipWord(str), SkipItems(rest), field_width, done)
         [] Is(fmt, {"c"}) /\ more ->
              ScanFrom(chars.str, rest, chars.width, StoreText(done, chars.s))
         [] Is(fmt, {"s"}) /\ more ->
              ScanFrom(word.str, rest, word.width, StoreText(done, word.s))
         [] Is(fmt, {"n"}) /\ more ->
              ScanFrom(str, rest, width, StoreNum(done, done.size - Len(str), 0))
         [] Is(fmt, {"%"}) /\ more /\ str[1] = Percent ->
              ScanFrom(Tail(str), rest, width, done)
         [] Is(fmt, {"o", "x", "X", "d", "i", "u"}) /\ more /\ isdigit(SkipWhite(str)[1]) ->
              ScanFrom(value.end, rest, width, StoreNum(done, value.num, 1))
         [] OTHER -> done

vsscanf(buf, fmt) == ScanFrom(buf, fmt, -1, [out |-> <<>>, num |-> 0, size |-> Len(buf)])
=============================================================================
