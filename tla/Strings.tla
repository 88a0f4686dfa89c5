------------------------------ MODULE Strings ------------------------------
(***************************************************************************)
(* The string functions of include/string.h and lib/string.c.              *)
(*                                                                         *)
(* For the functions that only read, a pointer into a string is the rest   *)
(* of the string from there on, its NUL included; the null pointer is the  *)
(* empty sequence.  The functions that write work on a memory, a function  *)
(* from addresses to bytes.                                                *)
(***************************************************************************)
EXTENDS Ctype, Sequences

NULLPtr == <<>>

(* A char as the compiler reads it: signed.                                *)
SChar(c) == IF c < 128 THEN c ELSE c - 256

RECURSIVE strlen(_)
strlen(s) == IF s = NULLPtr \/ s[1] = 0 THEN 0 ELSE 1 + strlen(Tail(s))

RECURSIVE strnlen(_, _)
strnlen(s, count) ==
    IF s = NULLPtr \/ count = 0 \/ s[1] = 0 THEN 0 ELSE 1 + strnlen(Tail(s), count - 1)

-----------------------------------------------------------------------------
RECURSIVE memcmp(_, _, _)
memcmp(s, t, n) ==
    IF n = 0 THEN 0
    ELSE IF s[1] # t[1] THEN s[1] - t[1] ELSE memcmp(Tail(s), Tail(t), n - 1)

RECURSIVE strcmp(_, _)
strcmp(s1, s2) == IF s2[1] # 0 /\ s2[1] = s1[1]
                  THEN strcmp(Tail(s1), Tail(s2))
                  ELSE SChar(s1[1]) - SChar(s2[1])

(* Faulty variant: one character too many is compared.                     *)
RECURSIVE StrncmpOneMore(_, _, _)
StrncmpOneMore(s1, s2, n) ==
    IF s1[1] # s2[1] THEN s1[1] - s2[1]
    ELSE IF s1[1] = 0 \/ n = 0 THEN 0
    ELSE StrncmpOneMore(Tail(s1), Tail(s2), n - 1)

RECURSIVE strncmp(_, _, _)
strncmp(s1, s2, n) ==
    IF n = 0 THEN 0
    ELSE IF s1[1] # s2[1] THEN s1[1] - s2[1]
    ELSE IF s1[1] = 0 THEN 0
    ELSE strncmp(Tail(s1), Tail(s2), n - 1)

RECURSIVE strcasecmp(_, _)
strcasecmp(s1, s2) ==
    IF tolower(s1[1]) # tolower(s2[1]) THEN tolower(s1[1]) - tolower(s2[1])
    ELSE IF s1[1] = 0 THEN 0 ELSE strcasecmp(Tail(s1), Tail(s2))

RECURSIVE strncasecmp(_, _, _)
strncasecmp(s1, s2, n) ==
    IF n = 0 THEN 0
    ELSE IF tolower(s1[1]) # tolower(s2[1]) THEN tolower(s1[1]) - tolower(s2[1])
    ELSE IF s1[1] = 0 THEN 0 ELSE strncasecmp(Tail(s1), Tail(s2), n - 1)

-----------------------------------------------------------------------------
RECURSIVE memchr(_, _, _)
memchr(s, c, n) == IF n = 0 THEN NULLPtr
                   ELSE IF c % 256 = s[1] THEN s ELSE memchr(Tail(s), c, n - 1)

RECURSIVE strchr(_, _)
strchr(s, c) == IF s[1] = c % 256 THEN s
                ELSE IF s[1] = 0 THEN NULLPtr ELSE strchr(Tail(s), c)

(* From the NUL backwards: p is how far behind the start of s.             *)
RECURSIVE StrrchrFrom(_, _, _)
StrrchrFrom(s, c, p) ==
    IF s[p + 1] = c % 256 THEN SubSeq(s, p + 1, Len(s))
    ELSE IF p = 0 THEN NULLPtr ELSE StrrchrFrom(s, c, p - 1)

strrchr(s, c) == StrrchrFrom(s, c, strlen(s))

(* Both loops of strstr(): the next place with the first character, until  *)
(* the others follow.                                                      *)
RECURSIVE StrstrFrom(_, _, _)
StrstrFrom(s, c, find) ==
    IF s[1] = 0 THEN NULLPtr
    ELSE IF s[1] = c /\ strncmp(Tail(s), find, strlen(find)) = 0 THEN s
    ELSE StrstrFrom(Tail(s), c, find)

strstr(s, find) == IF find[1] # 0 THEN StrstrFrom(s, find[1], Tail(find)) ELSE s

RECURSIVE strpbrk(_, _)
strpbrk(cs, ct) ==
    IF cs[1] = 0 THEN NULLPtr
    ELSE IF \E k \in 1..strlen(ct) : ct[k] = cs[1] THEN cs
    ELSE strpbrk(Tail(cs), ct)

-----------------------------------------------------------------------------
(* memset(), bzero(), memsetw() and memsetl(); a unit is a byte or a word. *)
memset(m, s, c, count) ==
    [a \in DOMAIN m |-> IF a \in s..s + count - 1 THEN c ELSE m[a]]

RECURSIVE memcpy(_, _, _, _)
memcpy(m, to, from, n) ==
    IF n = 0 THEN m
    ELSE memcpy([m EXCEPT ![to] = m[from]], to + 1, from + 1, n - 1)

RECURSIVE strcpy(_, _, _)
strcpy(m, dest, org) ==
    LET m1 == [m EXCEPT ![dest] = m[org]]
    IN IF m[org] = 0 THEN m1 ELSE strcpy(m1, dest + 1, org + 1)

RECURSIVE strncpy(_, _, _, _)
strncpy(m, dest, org, n) ==
    LET m1 == [m EXCEPT ![dest] = m[org]]
    IN IF n = 0 THEN m
       ELSE IF m[org] = 0 THEN memset(m1, dest + 1, 0, n - 1)
       ELSE strncpy(m1, dest + 1, org + 1, n - 1)

RECURSIVE EndOf(_, _)
EndOf(m, s) == IF m[s] = 0 THEN s ELSE EndOf(m, s + 1)

strcat(m, s, append) == strcpy(m, EndOf(m, s), append)

(* Faulty variant: the NUL takes the place of the last character.          *)
RECURSIVE AppendCutShort(_, _, _, _)
AppendCutShort(m, dest, src, count) ==
    LET m1 == [m EXCEPT ![dest] = m[src]]
    IN IF m[src] = 0 THEN m1
       ELSE IF count = 1 THEN [m1 EXCEPT ![dest] = 0]
       ELSE AppendCutShort(m1, dest + 1, src + 1, count - 1)

RECURSIVE AppendUpTo(_, _, _, _)
AppendUpTo(m, dest, src, count) ==
    LET m1 == [m EXCEPT ![dest] = m[src]]
    IN IF m[src] = 0 THEN m1
       ELSE IF count = 1 THEN [m1 EXCEPT ![dest + 1] = 0]
       ELSE AppendUpTo(m1, dest + 1, src + 1, count - 1)

strncat(m, dest, src, count) ==
    IF count = 0 THEN m ELSE AppendUpTo(m, EndOf(m, dest), src, count)

(* strsep() on the string s: the token it cuts off, and what is left.      *)
strsep(s, ct) ==
    LET end == IF s = NULLPtr THEN NULLPtr ELSE strpbrk(s, ct)
    IN [token |-> IF end = NULLPtr THEN s ELSE Append(SubSeq(s, 1, Len(s) - Len(end)), 0),
        rest |-> IF end = NULLPtr THEN NULLPtr ELSE Tail(end)]
=============================================================================
