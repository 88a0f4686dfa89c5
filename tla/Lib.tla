-------------------------------- MODULE Lib --------------------------------
(***************************************************************************)
(* Calls of the library, lib/ and include/string.h: one after the other,   *)
(* each with inputs that are chosen where the boundaries are.  The         *)
(* invariants compare what a call yields with what it should.              *)
(***************************************************************************)
EXTENDS Scan

CONSTANTS Letter,      \* the characters strings are made of
          MaxLen,      \* the length of the longest string
          Arg,         \* integers, as the bits of a long long
          FieldWidth   \* field widths; an argument may give them negated

VARIABLE call

Idle == [fn |-> "idle"]

Init == call = Idle

Return == call # Idle /\ call' = Idle

Item(flags, width, precision, qualifier, conv, arg) ==
    [flags |-> flags, width |-> width, precision |-> precision,
     qualifier |-> qualifier, conv |-> conv, arg |-> arg]

Plain(c) == Item({}, <<>>, <<>>, "none", "plain", c)

Optional(S) == {<<>>} \cup {<<x>> : x \in S}

String == SeqOf(Letter, MaxLen)

Z(s) == Append(s, 0)

-----------------------------------------------------------------------------
(* One integer conversion.                                                 *)
PrintNumber ==
    /\ call = Idle
    /\ \E flags \in SUBSET {"LEFT", "PLUS", "SPACE", "SPECIAL", "ZEROPAD"},
          width \in Optional(FieldWidth \cup {-w : w \in FieldWidth}), precision \in Optional({-1, 3}),
          qualifier \in {"none", "h", "l", "L", "Z"},
          conv \in {"d", "i", "u", "o", "x", "X"}, arg \in Arg :
            call' = [fn |-> "number", item |-> Item(flags, width, precision, qualifier, conv, arg)]

(* A format of up to three items, into a buffer of any size.               *)
PrintItem ==
    {Plain(97), Item({"LEFT"}, <<3>>, <<>>, "none", "c", 98),
     Item({}, <<>>, <<>>, "none", "c", 256), Item({}, <<>>, <<1>>, "none", "s", Z(<<97, 98>>)),
     Item({}, <<8>>, <<>>, "none", "s", NULLPtr), Item({}, <<>>, <<>>, "none", "n", 0),
     Item({}, <<>>, <<>>, "none", "%", 0), Item({}, <<>>, <<>>, "none", "unknown", 113),
     Item({}, <<-4>>, <<>>, "none", "d", WORD - 5), Item({}, <<>>, <<>>, "none", "p", 30)}

PrintFormat ==
    /\ call = Idle
    /\ \E fmt \in SeqOf(PrintItem, 3), buf \in {1, 4}, size \in {0, 1, 2, 5, WORD - 3, WORD - 1} :
         call' = [fn |-> "print", fmt |-> fmt, buf |-> buf, size |-> size]

(* Two conversions that are printed and read again, something between them *)
(* and the place of the second counted.                                    *)
Bare(qualifier, conv, arg) == Item({}, <<>>, <<>>, qualifier, conv, arg)

ReadItem ==
    {Bare(q, c, n) : q \in {"none", "h", "l", "L", "Z"}, c \in {"d", "u", "o", "x"}, n \in Arg}
    \cup {Bare("none", "s", Z(s)) : s \in {<<97>>, <<98, 97>>}}

ReadBack ==
    /\ call = Idle
    /\ \E d1, d2 \in ReadItem, between \in {Plain(Blank), Plain(44), Bare("none", "%", 0)} :
         call' = [fn |-> "readback", fmt |-> <<d1, between, Bare("none", "n", 0), d2>>]

(* A word of some width, and one without, perhaps behind one to be skipped.*)
ScanWords ==
    /\ call = Idle
    /\ \E skip \in BOOLEAN, width \in Optional({1, 2}), s, t \in String :
         call' = [fn |-> "words", skip |-> skip, width |-> width, s |-> s, t |-> t]

(* Any two strings.                                                        *)
UseStrings == /\ call = Idle
              /\ \E s, t \in String : call' = [fn |-> "strings", s |-> s, t |-> t]

Next == PrintNumber \/ PrintFormat \/ ReadBack \/ ScanWords \/ UseStrings \/ Return

Spec == Init /\ [][Next]_call

-----------------------------------------------------------------------------
(* The number a conversion is asked to print.                              *)
ValueOf(item) ==
    LET values == CASE item.qualifier = "h" -> SHORT [] item.qualifier = "L" -> LONGLONG [] OTHER -> WORD
        n == item.arg % values
    IN IF item.conv \in {"d", "i"} /\ item.qualifier # "Z" THEN Signed(n, values) ELSE n

Abs(n) == IF n < 0 THEN -n ELSE n

DigitsOf(n, base) == CHOOSE k \in 1..22 : Abs(n) < base^k /\ (k = 1 \/ Abs(n) >= base^(k - 1))

SignLength(item) ==
    IF item.conv \in {"d", "i"} /\ (ValueOf(item) < 0 \/ item.flags \cap {"PLUS", "SPACE"} # {})
    THEN 1 ELSE 0

PrefixLength(item) == CASE "SPECIAL" \notin item.flags \/ Base(item.conv) = 10 -> 0
                        [] Base(item.conv) = 8 -> 1
                        [] OTHER -> 2

Blanks(text) == {k \in DOMAIN text : text[k] = Blank}

(* A number is printed as long as it must be and no longer, on the side of *)
(* its field it belongs to, and its text, read by simple_strtoll(), is the *)
(* number again, whatever its type, sign, base, flags, width and           *)
(* precision; the division never faults (vsprintf.c:7-219, 428-446).       *)
(* simple_strtoll() knows neither a plus sign nor the prefix 0X: the first *)
(* is printed where it was asked for and nowhere else, the second where    *)
(* the number is special, and both are skipped before it reads.            *)
NumberReadsBack ==
    call.fn = "number" =>
        LET item == call.item
            text == ItemText(item)
            start == SkipWhite(Z(text))
            plus == item.conv \in {"d", "i"} /\ "PLUS" \in item.flags /\ ValueOf(item) >= 0
            digits == IF plus THEN Tail(start) ELSE start
            special == "SPECIAL" \in item.flags /\ Base(item.conv) # 10
            marked == special /\ item.conv = "X"
            read == CASE marked -> simple_strtoll(SubSeq(digits, 3, Len(digits)), 16)
                      [] special /\ ~marked -> simple_strtoll(digits, 0)
                      [] OTHER -> simple_strtoll(digits, Base(item.conv))
            shown == SignLength(item) + PrefixLength(item)
                     + Max({DigitsOf(ValueOf(item), Base(item.conv)), Precision(item)})
            left == "LEFT" \in Flags(item)
            own == IF "SPACE" \in item.flags /\ SignLength(item) = 1 THEN 1 ELSE 0
        IN /\ start[1] = 43 <=> plus
           /\ marked => SubSeq(digits, 1, 2) = <<48, 88>>
           /\ read.num = ValueOf(item) % LONGLONG
           /\ SkipWhite(read.end) = <<0>>
           /\ Len(text) = Max({Width(item), shown})
           /\ left => \A k \in Blanks(text) : k <= own \/ k > shown
           /\ ~left => text[Len(text)] # Blank
           /\ ~left /\ "ZEROPAD" \in item.flags => Blanks(text) \subseteq 1..own
           /\ ~do_div(item.arg, Base(item.conv)).fault

-----------------------------------------------------------------------------
Memory == [a \in 0..WORD - 1 |-> 255]

(* What a text leaves in memory, and on the screen, from a buffer.         *)
Holds(text, buf, size, r, shown) ==
    LET kept == Min({Len(text), size - 1})
    IN /\ r.len = Len(text)
       /\ \A a \in DOMAIN Memory \ (buf..buf + size - 1) : r.mem[a] = Memory[a]
       /\ size > 0 => /\ \A k \in 1..kept : r.mem[buf + k - 1] = text[k]
                      /\ r.mem[buf + kept] = 0
                      /\ IsPrefix(shown, text)
                      /\ Len(shown) = kept \/ text[Len(shown) + 1] = 0

(* vsnprintf() writes as much of the text as the buffer holds, always with *)
(* a NUL unless it has no room for any, never outside, and says how long   *)
(* the text is; a buffer that reaches beyond the last address, as that of  *)
(* vsprintf(), holds everything; printk() shows the text up to the first   *)
(* NUL or the end of its buffer (vsprintf.c:248-258, 448-490,              *)
(* console.c:72-90).                                                       *)
PrintFits ==
    call.fn = "print" =>
        /\ Holds(Text(call.fmt), call.buf, call.size,
                 vsnprintf(Memory, call.buf, call.size, call.fmt),
                 printk(Memory, call.buf, call.size, call.fmt))
        /\ LET r == vsprintf(Memory, call.buf, call.fmt) IN r.mem[call.buf + r.len] = 0

(* What is printed with a format is read again with it, as long as the     *)
(* numbers start with a digit and white space follows the words: with      *)
(* every qualifier, base and type, after whatever was read before, and     *)
(* from where %n says.  A word is read to its end or up to its width       *)
(* (vsprintf.c:22-107, 376-389, 517-695).                                  *)
WhiteFor(item) == IF item.conv = "plain" /\ item.arg = Blank THEN Bare("none", "space", 0) ELSE item

WordsRead ==
    LET word == Item({}, call.width, <<>>, "none", "s", 0)
        fmt == (IF call.skip THEN <<Bare("none", "skip", 0), WhiteFor(Plain(Blank))>> ELSE <<>>)
               \o <<word, WhiteFor(Plain(Blank)), Bare("none", "s", 0)>>
    IN vsscanf(Z(call.s \o <<Blank>> \o call.t), fmt).out

ReadsBack ==
    /\ call.fn = "readback" =>
         LET fmt == call.fmt
             r == vsscanf(Z(Text(fmt)), [k \in DOMAIN fmt |-> WhiteFor(fmt[k])])
             Starts(item) == item.conv = "s" \/ isdigit(ItemText(item)[1])
             Same(item, stored) ==
                 IF item.conv = "s" THEN Z(stored.text) = item.arg ELSE stored.num = ValueOf(item)
         IN /\ Starts(fmt[1])
            /\ Starts(fmt[4])
            /\ fmt[1].conv = "s" => fmt[2] = Plain(Blank)
            => /\ r.num = 2
               /\ Same(fmt[1], r.out[1])
               /\ r.out[2].num = Counts(fmt)[3]
               /\ Same(fmt[4], r.out[3])
    /\ call.fn = "words" /\ call.s # <<>> /\ call.t # <<>> =>
         LET word == IF call.skip THEN call.t ELSE call.s
         IN WordsRead[1].text = IF call.width = <<>> THEN word
                                ELSE SubSeq(word, 1, Min({Len(word), call.width[1]}))

(* A word that is read without a width is read "until next white space",   *)
(* although the word before it had one (vsprintf.c:598).                   *)
WordsWhole ==
    /\ call.fn = "words" /\ ~call.skip
    /\ call.s # <<>> /\ call.t # <<>>
    /\ call.width # <<>> /\ Len(call.s) <= call.width[1]
    => WordsRead[2].text = call.t

-----------------------------------------------------------------------------
From(s, where) == IF where = {} THEN NULLPtr ELSE SubSeq(s, Min(where), Len(s))

Char == Letter \cup {0}

(* The functions that search find the first place there is, or the last,   *)
(* or none (string.h:61-99, 127-136, string.c:34-78).                      *)
SearchesRight ==
    call.fn = "strings" =>
        LET s == Z(call.s)
            t == Z(call.t)
            Places(c) == {k \in DOMAIN s : s[k] = c}
            Starts == {k \in DOMAIN s : IsPrefix(call.t, SubSeq(call.s, k, Len(call.s)))}
            cut == strsep(s, t)
            Delimiter == {k \in DOMAIN call.s : call.s[k] \in Range(call.t)}
        IN /\ strlen(s) = Len(call.s)
           /\ \A n \in 0..Len(s) : strnlen(s, n) = Min({n, Len(call.s)})
           /\ \A c \in Char : /\ strchr(s, c) = From(s, Places(c))
                              /\ strrchr(s, c) = From(s, {k \in Places(c) : k >= Max(Places(c))})
                              /\ \A n \in 0..Len(s) : memchr(s, c, n) = From(s, Places(c) \cap 1..n)
           /\ strstr(s, t) = From(s, Starts)
           /\ strpbrk(s, t) = From(s, Delimiter)
           /\ Range(Front(cut.token)) \cap Range(call.t) = {}
           /\ IF Delimiter = {} THEN cut = [token |-> s, rest |-> NULLPtr]
              ELSE Front(cut.token) \o <<s[Min(Delimiter)]>> \o cut.rest = s

(* The functions that compare order the strings by the first character     *)
(* that differs within what they compare (string.h:50-59, 166-188,         *)
(* string.c:4-32).                                                         *)
OrderOf(s, t, n, Key(_)) ==
    LET differ == {k \in 1..Min({n, Len(s), Len(t)}) : Key(s[k]) # Key(t[k])}
    IN IF differ = {} THEN 0 ELSE Key(s[Min(differ)]) - Key(t[Min(differ)])

ComparesRight ==
    call.fn = "strings" =>
        LET s == Z(call.s)
            t == Z(call.t)
            Self(c) == c
        IN /\ strcmp(s, t) = OrderOf(s, t, Len(s), SChar)
           /\ strcasecmp(s, t) = OrderOf(s, t, Len(s), tolower)
           /\ \A n \in 0..MaxLen + 2 : /\ strncmp(s, t, n) = OrderOf(s, t, n, Self)
                                       /\ strncasecmp(s, t, n) = OrderOf(s, t, n, tolower)
           /\ \A n \in 0..Min({Len(s), Len(t)}) : memcmp(s, t, n) = OrderOf(s, t, n, Self)

(* The functions that copy leave the string they should where they should, *)
(* and touch nothing else (string.h:6-48, 101-125, 138-164).               *)
Src == (2 * MaxLen) + 3

Put(m, at, s) == [a \in DOMAIN m |-> IF a \in at..at + Len(s) - 1 THEN s[a - at + 1] ELSE m[a]]

CopiesRight ==
    call.fn = "strings" =>
        LET t == Z(call.t)
            m == Put(Put([a \in 0..Src + MaxLen + 1 |-> 255], 1, Z(call.s)), Src, t)
            end == 1 + Len(call.s)
        IN /\ strcpy(m, 1, Src) = Put(m, 1, t)
           /\ strcat(m, 1, Src) = Put(m, end, t)
           /\ \A n \in 0..MaxLen + 1 :
                LET first == SubSeq(call.t, 1, Min({n, Len(call.t)}))
                IN /\ strncpy(m, 1, Src, n) = Put(m, 1, first \o Repeat(0, n - Len(call.t)))
                   /\ strncat(m, 1, Src, n) = IF n = 0 THEN m ELSE Put(m, end, Z(first))
           /\ \A n \in 0..Len(t) : memcpy(m, 1, Src, n) = Put(m, 1, SubSeq(t, 1, n))
           /\ \A n \in 0..Len(t) : memset(m, 1, 0, n) = Put(m, 1, Repeat(0, n))
=============================================================================
