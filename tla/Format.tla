------------------------------- MODULE Format -------------------------------
(***************************************************************************)
(* Formatted output, lib/vsprintf.c and printk() of kernel/console.c.      *)
(*                                                                         *)
(* A format is a sequence of items: characters that are printed as they    *)
(* are, and conversions with their flags, width, precision, qualifier and  *)
(* argument, as the head of the loop in vsnprintf() takes them apart.  A   *)
(* width or a precision is <<>> when there is none; the ones that come     *)
(* from an argument may be negative.                                       *)
(***************************************************************************)
EXTENDS FormatWord, Strings, SequencesExt

CONSTANTS SHORT,      \* the number of values of a short: 2^16
          PTR_DIGITS  \* the digits of a pointer: 8

ASSUME FormatAssumption == SHORT \in Nat /\ SHORT % 2 = 0 /\ PTR_DIGITS \in Nat

Repeat(c, n) == [k \in 1..Max({n, 0}) |-> c]

(* The characters number() and vsnprintf() print by themselves.            *)
Blank == 32
Zero == 48
Percent == 37

(* An integer of a type with m values, read as a signed one.               *)
Signed(v, m) == IF v < m \div 2 THEN v ELSE v - m

-----------------------------------------------------------------------------
(* The digits of n, by the loop around do_div().                           *)
DigitChar(d, large) == IF d < 10 THEN Zero + d ELSE (IF large THEN 65 ELSE 97) + d - 10

Digits(n, base, large) ==
    LET From[m \in 0..LONGLONG - 1] ==
            LET d == do_div(m, base)
            IN (IF d.n = 0 THEN <<>> ELSE From[d.n]) \o <<DigitChar(d.mod, large)>>
    IN From[n]

(* What is to be in a field of some width, with blanks before or after it. *)
Justify(text, width, left) ==
    IF left THEN text \o Repeat(Blank, width - Len(text))
            ELSE Repeat(Blank, width - Len(text)) \o text

SignOf(num, type) ==
    CASE "SIGN" \notin type -> <<>>
      [] Signed(num, LONGLONG) < 0 -> <<45>>
      [] "PLUS" \in type -> <<43>>
      [] "SPACE" \in type -> <<Blank>>
      [] OTHER -> <<>>

Prefix(base, type) ==
    CASE "SPECIAL" \in type /\ base = 16 -> <<Zero, IF "LARGE" \in type THEN 88 ELSE 120>>
      [] "SPECIAL" \in type /\ base = 8 -> <<Zero>>
      [] OTHER -> <<>>

(* Zeros up to the precision.                                              *)
Padded(digits, precision) == Repeat(Zero, precision - Len(digits)) \o digits

(* Sign and prefix, and the digits, in a field of some width.              *)
InField(before, digits, size, type) ==
    IF "ZEROPAD" \in type /\ "LEFT" \notin type
    THEN before \o Repeat(Zero, size - Len(before) - Len(digits)) \o digits
    ELSE Justify(before \o digits, size, "LEFT" \in type)

(* number(): the text it puts into the buffer.                             *)
number(num, base, size, precision, type) ==
    LET value == IF "SIGN" \in type /\ Signed(num, LONGLONG) < 0 THEN LONGLONG - num ELSE num
    IN InField(SignOf(num, type) \o Prefix(base, type),
               Padded(Digits(value, base, "LARGE" \in type), precision), size, type)

-----------------------------------------------------------------------------
(* The argument of an integer conversion, as an unsigned long long.        *)
Argument(qualifier, signed, arg) ==
    LET values == CASE qualifier = "h" -> SHORT [] qualifier = "L" -> LONGLONG [] OTHER -> WORD
        num == arg % values
    IN IF signed /\ qualifier # "Z" THEN Signed(num, values) % LONGLONG ELSE num

Base(conv) == CASE conv = "o" -> 8 [] conv \in {"x", "X", "p"} -> 16 [] OTHER -> 10

(* A width from an argument that is negative asks for the left side.       *)
Width(item) == CASE item.width = <<>> -> -1
                 [] item.width[1] < 0 -> -item.width[1]
                 [] OTHER -> item.width[1]

Precision(item) == IF item.precision = <<>> THEN -1 ELSE Max({item.precision[1], 0})

Flags(item) ==
    item.flags \cup (IF item.width # <<>> /\ item.width[1] < 0 THEN {"LEFT"} ELSE {})
               \cup (IF item.conv = "X" THEN {"LARGE"} ELSE {})
               \cup (IF item.conv \in {"d", "i"} THEN {"SIGN"} ELSE {})

(* %s: the null pointer is printed as <NULL>, and a precision of -1 is the *)
(* largest unsigned number to strnlen().                                   *)
NULLText == <<60, 78, 85, 76, 76, 62, 0>>

StringText(item) ==
    LET s == IF item.arg = NULLPtr THEN NULLText ELSE item.arg
        len == strnlen(s, Precision(item) % WORD)
    IN Justify(SubSeq(s, 1, len), Width(item), "LEFT" \in Flags(item))

(* %p: zeros in front unless a width is given.                             *)
PointerText(item) ==
    IF item.width = <<>>
    THEN number(item.arg, 16, PTR_DIGITS, Precision(item), Flags(item) \cup {"ZEROPAD"})
    ELSE number(item.arg, 16, Width(item), Precision(item), Flags(item))

IntegerText(item) ==
    number(Argument(item.qualifier, "SIGN" \in Flags(item), item.arg), Base(item.conv),
           Width(item), Precision(item), Flags(item))

(* What an item prints.  A conversion that does not exist is printed as it *)
(* stands; a format that ends in a % prints that.                          *)
ItemText(item) ==
    CASE item.conv = "plain" -> <<item.arg>>
      [] item.conv = "c" -> Justify(<<item.arg % 256>>, Width(item), "LEFT" \in Flags(item))
      [] item.conv = "s" -> StringText(item)
      [] item.conv = "p" -> PointerText(item)
      [] item.conv = "n" -> <<>>
      [] item.conv \in {"%", "end"} -> <<Percent>>
      [] item.conv = "unknown" -> <<Percent, item.arg>>
      [] OTHER -> IntegerText(item)

Text(fmt) == FoldLeft(LAMBDA text, item : text \o ItemText(item), <<>>, fmt)

(* What each %n stores: how much was printed before it.                    *)
Counts(fmt) == [k \in {j \in DOMAIN fmt : fmt[j].conv = "n"} |-> Len(Text(SubSeq(fmt, 1, k - 1)))]

(* Every character is stored if it is not behind the end, then a NUL.      *)
Store(m, buf, end, size, text) ==
    LET str == buf + Len(text)
        full == [a \in DOMAIN m |-> IF a \in buf..str - 1 /\ a <= end THEN text[a - buf + 1] ELSE m[a]]
    IN CASE str <= end -> [full EXCEPT ![str] = 0]
         [] str > end /\ size > 0 -> [full EXCEPT ![end] = 0]
         [] OTHER -> full

(* The result counts all characters, stored or not.                        *)
vsnprintf(m, buf, size, fmt) ==
    [len |-> Len(Text(fmt)),
     counts |-> Counts(fmt),
     mem |-> Store(m, buf, BufferEnd(buf, size), BufferSize(buf, size), Text(fmt))]

vsprintf(m, buf, fmt) == vsnprintf(m, buf, WORD - 1, fmt)

(* printk(): the characters it hands to kputchar(), from a buffer of size  *)
(* bytes.                                                                  *)
UpToNUL(m, buf, size) ==
    LET shown == CHOOSE k \in 0..size : /\ k < size => m[buf + k] = 0
                                        /\ \A j \in 0..k - 1 : m[buf + j] # 0
    IN [k \in 1..shown |-> m[buf + k - 1]]

printk(m, buf, size, fmt) == UpToNUL(vsnprintf(m, buf, size, fmt).mem, buf, size)
=============================================================================
