--------------------------- MODULE MultibyteText ---------------------------
(***************************************************************************)
(* Multibyte characters of the C locale, where each is one byte:           *)
(* src/wchar_convert.c and the conversions at the end of src/stdlib.c.     *)
(* `t` is a text without its terminator and positions count from 0; the    *)
(* conversion state always returns to its initial value, so it is left     *)
(* out.  A result names the return value (-1 and -2 as the code casts      *)
(* them), the units stored, and the source position it leaves, NULL when *)
(* the terminator was converted.                                           *)
(***************************************************************************)
EXTENDS Integers, Sequences

NULL == -1
EOF == -1
WEOF == -1
Bytes == 0..255
Unit(t, i) == IF i < Len(t) THEN t[i + 1] ELSE 0

btowc(c) == IF c \in Bytes THEN c ELSE WEOF
wctob(w) == IF w \in Bytes THEN w ELSE EOF

(* One character; a null source stands for the empty text.                 *)
mbrtowc(t, i, count) ==
  CASE count = 0 -> [r |-> -2, stored |-> <<>>]
    [] OTHER -> [r |-> IF Unit(t, i) = 0 THEN 0 ELSE 1, stored |-> <<Unit(t, i)>>]
mbrlen(t, i, count) == mbrtowc(t, i, count).r
wcrtomb(w) ==
  IF w \in Bytes THEN [r |-> 1, stored |-> <<w>>, errno |-> ""]
  ELSE [r |-> -1, stored |-> <<>>, errno |-> "EILSEQ"]

(* The restartable conversion of a text from position i.  Bytes always     *)
(* convert; a wide unit that is none stops the conversion where it stands. *)
RECURSIVE Convert(_, _, _, _)
Convert(t, i, count, stored) ==
  CASE Len(stored) = count -> [r |-> Len(stored), stored |-> stored, source |-> i, errno |-> ""]
    [] Len(stored) # count /\ Unit(t, i) \notin Bytes ->
         [r |-> -1, stored |-> stored, source |-> i, errno |-> "EILSEQ"]
    [] Len(stored) # count /\ Unit(t, i) = 0 ->
         [r |-> Len(stored), stored |-> Append(stored, 0), source |-> NULL, errno |-> ""]
    [] OTHER -> Convert(t, i + 1, count, Append(stored, Unit(t, i)))
mbsrtowcs(t, i, count) == Convert(t, i, count, <<>>)
wcsrtombs(t, i, count) == Convert(t, i, count, <<>>)

(* Without a destination nothing is stored and the source does not move.   *)
Measured(t, i) ==
  IF \E j \in i + 1 .. Len(t) : t[j] \notin Bytes
  THEN [r |-> -1, stored |-> <<>>, source |-> i, errno |-> "EILSEQ"]
  ELSE [r |-> Len(t) - i, stored |-> <<>>, source |-> i, errno |-> ""]

(* The older pair of stdlib.c: the terminator is stored only if the count  *)
(* leaves room, and no position is given back.                             *)
Older(t, count) ==
  LET c == Convert(t, 0, count, <<>>) IN [r |-> c.r, stored |-> c.stored, errno |-> c.errno]
mbstowcs(t, count) == Older(t, count)
wcstombs(t, count) == Older(t, count)
mblen(t, count) == IF count = 0 THEN -1 ELSE IF t = <<>> THEN 0 ELSE 1
mbtowc(t, count) ==
  [r |-> mblen(t, count), stored |-> IF mblen(t, count) >= 0 THEN <<Unit(t, 0)>> ELSE <<>>]
wctomb(w) == wcrtomb(w)
=============================================================================
