----------------------------- MODULE Characters -----------------------------
(***************************************************************************)
(* Character classes of the C locale, src/ctype.c and src/wctype.c.  A     *)
(* classification function of the code is the set of the integers it       *)
(* accepts; characters are their codes, -1 is EOF.                         *)
(***************************************************************************)
EXTENDS Integers

NUL == 0

islower == 97..122
isupper == 65..90
isalpha == islower \cup isupper
isdigit == 48..57
isalnum == isalpha \cup isdigit
iscntrl == (0..31) \cup {127}
isgraph == 33..126
isprint == 32..126
isspace == {32} \cup (9..13)
isblank == {32, 9}
ispunct == isgraph \ isalnum
isxdigit == isdigit \cup (97..102) \cup (65..70)
isascii == 0..127

tolower(c) == IF c \in isupper THEN c + 32 ELSE c
toupper(c) == IF c \in islower THEN c - 32 ELSE c

-----------------------------------------------------------------------------
(* A wide character is classified as a byte if it is one, and belongs to   *)
(* no class otherwise; iswblank alone tests the character itself.          *)
WideByte == 0..255
Wide(class) == class \cap WideByte

(* The descriptors wctype returns, each with the set iswctype tests; the   *)
(* null descriptor 0 stands for every other name.                          *)
wctype == [alnum |-> Wide(isalnum), alpha |-> Wide(isalpha), blank |-> isblank,
           cntrl |-> Wide(iscntrl), digit |-> Wide(isdigit), graph |-> Wide(isgraph),
           lower |-> Wide(islower), print |-> Wide(isprint), punct |-> Wide(ispunct),
           space |-> Wide(isspace), upper |-> Wide(isupper), xdigit |-> Wide(isxdigit)]

iswctype(c, name) == name \in DOMAIN wctype /\ c \in wctype[name]

towlower(c) == IF c \in WideByte THEN tolower(c) ELSE c
towupper(c) == IF c \in WideByte THEN toupper(c) ELSE c

(* wctrans and towctrans: an unknown name maps every character to itself.  *)
towctrans(c, name) ==
  CASE name = "tolower" -> towlower(c)
    [] name = "toupper" -> towupper(c)
    [] OTHER -> c

-----------------------------------------------------------------------------
(* The codes of the printable characters, to write texts down.             *)
Printable == <<
  " ", "!", "quote", "#", "$", "%", "&", "'", "(", ")", "*", "+", ",", "-", ".", "/",
  "0", "1", "2", "3", "4", "5", "6", "7", "8", "9", ":", ";", "<", "=", ">", "?",
  "@", "A", "B", "C", "D", "E", "F", "G", "H", "I", "J", "K", "L", "M", "N", "O",
  "P", "Q", "R", "S", "T", "U", "V", "W", "X", "Y", "Z", "[", "backslash", "]", "^", "_",
  "backquote", "a", "b", "c", "d", "e", "f", "g", "h", "i", "j", "k", "l", "m", "n", "o",
  "p", "q", "r", "s", "t", "u", "v", "w", "x", "y", "z", "{", "|", "}", "~" >>

Code == [c \in {Printable[i] : i \in DOMAIN Printable} |->
           31 + CHOOSE i \in DOMAIN Printable : Printable[i] = c]
Codes(s) == [i \in DOMAIN s |-> Code[s[i]]]
=============================================================================
