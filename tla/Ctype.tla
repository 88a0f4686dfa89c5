------------------------------- MODULE Ctype -------------------------------
(***************************************************************************)
(* The character classes of lib/ctype.c and include/ctype.h, as far as the *)
(* library itself asks for them.  A character is its code; the table       *)
(* covers ISO 8859-1.                                                      *)
(***************************************************************************)
EXTENDS Integers

(* The entries of _ctype[] with _U, _L, _D, _S and _X.                     *)
Upper == 65..90 \cup (192..222 \ {215})

Lower == 97..122 \cup (223..255 \ {247})

Digit == 48..57

White == 9..13 \cup {32, 160}

Hex == 65..70 \cup 97..102

isupper(c) == c \in Upper

islower(c) == c \in Lower

isdigit(c) == c \in Digit

isspace(c) == c \in White

isxdigit(c) == c \in Digit \cup Hex

tolower(c) == IF isupper(c) THEN c + 32 ELSE c

toupper(c) == IF islower(c) THEN c - 32 ELSE c
=============================================================================
