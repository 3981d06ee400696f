----------------------------- MODULE Formatting -----------------------------
(***************************************************************************)
(* Formatted output: src/stdio_format.c and src/wchar_format.c.  Formats   *)
(* and output are sequences of one-character strings; "wide" stands for a  *)
(* wide character that is no byte.  Integer arguments are integers that    *)
(* the length modifier cuts to Width bits.  A floating argument of the     *)
(* decimal conversions is exact, d1.d2d3... * 10^exponent (its binary      *)
(* arithmetic is left out); one of %a is a binary number of FRACTION       *)
(* hexadecimal digits, as it is stored.                                    *)
(***************************************************************************)
EXTENDS Integers, Sequences, FiniteSetsExt, SequencesExt

CONSTANTS INT_MAX, FRACTION, Width

Repeat(c, n) == [i \in 1..n |-> c]
At(s, i) == IF i <= Len(s) THEN s[i] ELSE "end"
Some(condition, s) == IF condition THEN s ELSE <<>>

-----------------------------------------------------------------------------
(* The destination: a stream that takes `limit` characters before it       *)
(* fails, a string without a bound, a bounded string that keeps the first  *)
(* `limit`, or a null pointer with that bound.  `count` goes on counting.  *)
Sink(kind, limit) == [kind |-> kind, limit |-> limit, stored |-> <<>>, count |-> 0, failed |-> FALSE]

wcrt_emit(o, c) ==
  LET inside == o.kind = "string" \/ o.count < o.limit
      stores == inside /\ o.kind # "null"
  IN IF o.failed THEN o
     ELSE [o EXCEPT !.stored = IF stores THEN Append(@, c) ELSE @,
                    !.failed = \/ o.kind = "stream" /\ ~inside
                               \/ o.kind = "null" /\ inside
                               \/ o.count = INT_MAX,
                    !.count = IF @ = INT_MAX THEN @ ELSE @ + 1]

RECURSIVE Emit(_, _)
Emit(o, s) == IF s = <<>> \/ o.failed THEN o ELSE Emit(wcrt_emit(o, Head(s)), Tail(s))

(* A field: zeroes go between the prefix (a sign, 0x) and the rest.        *)
(* Mutation of wcrt_field: zeroes go before the sign.                      *)
FieldZeroesFirst(o, text, width, left, zero) ==
  LET padding == Repeat(IF zero THEN "0" ELSE " ", IF width > Len(text) THEN width - Len(text) ELSE 0)
  IN IF left THEN Emit(o, text \o padding) ELSE Emit(o, padding \o text)

wcrt_field(o, text, width, left, zero) ==
  LET padding == IF width > Len(text) THEN width - Len(text) ELSE 0
      sign == IF At(text, 1) \in {"+", "-", " "} THEN 1 ELSE 0
      prefix == IF At(text, sign + 1) = "0" /\ At(text, sign + 2) \in {"x", "X"}
                THEN sign + 2 ELSE sign
      cut == IF zero THEN prefix ELSE 0
  IN IF left THEN Emit(o, text \o Repeat(" ", padding))
     ELSE Emit(o, SubSeq(text, 1, cut) \o Repeat(IF zero THEN "0" ELSE " ", padding) \o
                  SubSeq(text, cut + 1, Len(text)))

-----------------------------------------------------------------------------
(* Numbers to characters.                                                  *)
Lower == <<"0", "1", "2", "3", "4", "5", "6", "7", "8", "9", "a", "b", "c", "d", "e", "f">>
Upper == <<"0", "1", "2", "3", "4", "5", "6", "7", "8", "9", "A", "B", "C", "D", "E", "F">>
DigitOf(n, upper) == IF upper THEN Upper[n + 1] ELSE Lower[n + 1]
Numeral == {"0", "1", "2", "3", "4", "5", "6", "7", "8", "9"}
ValueOf(c) == CHOOSE n \in 0..9 : Lower[n + 1] = c

RECURSIVE wcrt_unsigned(_, _, _)
wcrt_unsigned(n, base, upper) ==
  (IF n < base THEN <<>> ELSE wcrt_unsigned(n \div base, base, upper)) \o
  <<DigitOf(n % base, upper)>>

wcrt_exponent(exponent, upper) ==
  LET digits == wcrt_unsigned(IF exponent < 0 THEN -exponent ELSE exponent, 10, FALSE)
  IN <<IF upper THEN "E" ELSE "e", IF exponent < 0 THEN "-" ELSE "+">> \o
     Some(Len(digits) < 2, <<"0">>) \o digits

(* The first `count` digits of a value and its exponent, rounded to even   *)
(* on the digits after them; a carry out of the first gives one digit      *)
(* more.                                                                   *)
DigitAt(v, i) == IF i <= Len(v.digits) THEN v.digits[i] ELSE 0
RECURSIVE Increment(_)
Increment(digits) ==
  IF digits = <<>> THEN <<1>>
  ELSE LET last == digits[Len(digits)]
           rest == SubSeq(digits, 1, Len(digits) - 1)
       IN IF last = 9 THEN Append(Increment(rest), 0) ELSE Append(rest, last + 1)

wcrt_decimal_digits(v, count) ==
  LET digits == [i \in 1..count |-> DigitAt(v, i)]
      guard == DigitAt(v, count + 1)
      sticky == \E i \in count + 2 .. Len(v.digits) : v.digits[i] # 0
      up == guard > 5 \/ (guard = 5 /\ (sticky \/ (count > 0 /\ DigitAt(v, count) % 2 = 1)))
      rounded == IF up THEN Increment(digits) ELSE digits
  IN [digits |-> rounded,
      exponent |-> v.exponent + (IF Len(rounded) > count THEN 1 ELSE 0)]

RECURSIVE Trimmed(_)
Trimmed(s) == IF s # <<>> /\ s[Len(s)] = "0" THEN Trimmed(SubSeq(s, 1, Len(s) - 1)) ELSE s
WithoutPoint(s) == IF s # <<>> /\ s[Len(s)] = "." THEN SubSeq(s, 1, Len(s) - 1) ELSE s

IsZero(v) == v.digits = <<>>

wcrt_decimal_fixed(v, precision, alternate, trim) ==
  LET wanted == IF IsZero(v) THEN 0 ELSE v.exponent + precision + 1
      count == IF wanted < 0 THEN 0 ELSE wanted
      r == IF count > 0 THEN wcrt_decimal_digits(v, count)
           ELSE [digits |-> <<>>, exponent |-> IF IsZero(v) THEN 0 ELSE v.exponent]
      rounded_up == /\ count = 0 /\ ~IsZero(v) /\ v.exponent + precision = -1
                    /\ DigitAt(v, 1) >= 5 /\ v.digits # <<5>>          \* normalized > 5.0
      digit(power) == Lower[DigitAt(r, r.exponent - power + 1) + 1]
      whole == IF r.exponent < 0 THEN <<"0">>
               ELSE [i \in 1 .. r.exponent + 1 |-> digit(r.exponent + 1 - i)]
      part == [i \in 1..precision |->
                 IF rounded_up /\ i = precision THEN "1"
                 ELSE IF r.exponent + i < 0 THEN "0" ELSE digit(-i)]
      point == precision > 0 \/ alternate
  IN IF trim /\ ~alternate /\ point THEN whole \o WithoutPoint(<<".">> \o Trimmed(part))
     ELSE whole \o Some(point, <<".">>) \o part

wcrt_decimal_scientific(v, precision, alternate, upper, trim) ==
  LET r == IF IsZero(v) THEN [digits |-> Repeat(0, precision + 1), exponent |-> 0]
           ELSE wcrt_decimal_digits(v, precision + 1)
      text == [i \in 1..1 |-> Lower[r.digits[1] + 1]] \o Some(precision > 0 \/ alternate, <<".">>) \o
              [i \in 1..precision |-> Lower[DigitAt(r, i + 1) + 1]]
  IN (IF trim /\ ~alternate THEN WithoutPoint(Trimmed(text)) ELSE text) \o
     wcrt_exponent(r.exponent, upper)

Special(v, upper) ==
  CASE v.kind = "nan" -> IF upper THEN <<"N", "A", "N">> ELSE <<"n", "a", "n">>
    [] v.kind = "inf" -> IF upper THEN <<"I", "N", "F">> ELSE <<"i", "n", "f">>

(* %g looks at the exponent of the value as it is, before it is rounded.   *)
wcrt_decimal_float(v, asked, alternate, upper, conversion) ==
  LET given == IF asked < 0 THEN 6 ELSE asked
      precision == IF conversion \in {"g", "G"} /\ given = 0 THEN 1 ELSE given
      exponent == IF IsZero(v) THEN 0 ELSE v.exponent
  IN CASE conversion \in {"e", "E"} ->
            wcrt_decimal_scientific(v, precision, alternate, upper, FALSE)
       [] conversion \in {"f", "F"} -> wcrt_decimal_fixed(v, precision, alternate, FALSE)
       [] OTHER ->
            IF exponent < -4 \/ exponent >= precision
            THEN wcrt_decimal_scientific(v, precision - 1, alternate, upper, TRUE)
            ELSE wcrt_decimal_fixed(v, precision - exponent - 1, alternate, TRUE)

(* %a: field and fraction as stored, bias BIAS; rounded to even when fewer *)
(* digits are asked for than there are.                                    *)
BIAS == 3
wcrt_hexadecimal_float(v, precision, alternate, upper) ==
  LET unit == 16 ^ FRACTION
      significand == v.fraction + (IF v.field = 0 THEN 0 ELSE unit)
      stored == CASE v.field # 0 -> v.field - BIAS
                  [] OTHER -> IF v.fraction = 0 THEN 0 ELSE 1 - BIAS
      fewest == CHOOSE n \in 0..FRACTION :
                  /\ significand % (16 ^ (FRACTION - n)) = 0
                  /\ \A k \in 0 .. n - 1 : significand % (16 ^ (FRACTION - k)) # 0
      digits == IF precision < 0 THEN fewest ELSE precision
      shift == 16 ^ (IF digits < FRACTION THEN FRACTION - digits ELSE 0)
      retained == significand \div shift
      discarded == significand % shift
      up == 2 * discarded > shift \/ (2 * discarded = shift /\ retained % 2 = 1)
      rounded == (IF up THEN retained + 1 ELSE retained) * shift
      carried == rounded = 2 * unit
      bits == IF carried THEN unit ELSE rounded
      exponent == IF carried THEN stored + 1 ELSE stored
      magnitude == IF exponent < 0 THEN -exponent ELSE exponent
  IN <<"0", IF upper THEN "X" ELSE "x", DigitOf((bits \div unit) % 16, upper)>> \o
     Some(digits > 0 \/ alternate, <<".">>) \o
     [i \in 1..digits |-> IF i <= FRACTION
                          THEN DigitOf((bits \div (16 ^ (FRACTION - i))) % 16, upper) ELSE "0"] \o
     <<IF upper THEN "P" ELSE "p", IF exponent < 0 THEN "-" ELSE "+">> \o
     wcrt_unsigned(magnitude, 10, FALSE)

-----------------------------------------------------------------------------
(* Directives.                                                             *)

(* A decimal number at i, saturating at INT_MAX; wide formats fail instead *)
(* (-1).  `end` is the position after it.                                  *)
RECURSIVE Number(_, _, _, _)
Number(f, i, value, saturated) ==
  LET d == ValueOf(f[i])
      over == value > (INT_MAX - d) \div 10
  IN IF At(f, i) \notin Numeral THEN [value |-> value, end |-> i]
     ELSE Number(f, i + 1, IF over THEN saturated
                           ELSE IF value < 0 THEN value ELSE value * 10 + d, saturated)
wcrt_format_number(f, i) == Number(f, i, 0, INT_MAX)
wcrt_wformat_number(f, i) == Number(f, i, 0, -1)

RECURSIVE PastFlags(_, _)
PastFlags(f, i) == IF At(f, i) \in {"-", "+", " ", "#", "0"} THEN PastFlags(f, i + 1) ELSE i

(* A width or precision at i: an argument or digits.                       *)
Amount(f, i, args, wide) ==
  IF At(f, i) = "*" THEN [value |-> Head(args), end |-> i + 1, args |-> Tail(args), star |-> TRUE]
  ELSE LET n == IF wide THEN wcrt_wformat_number(f, i) ELSE wcrt_format_number(f, i)
       IN [value |-> n.value, end |-> n.end, args |-> args, star |-> FALSE]

Modifier(f, i, wide) ==
  CASE At(f, i) \in {"h", "l"} /\ At(f, i + 1) = At(f, i) ->
         [length |-> IF At(f, i) = "h" THEN "hh" ELSE "ll", end |-> i + 2]
    [] At(f, i) \in {"h", "l"} /\ At(f, i + 1) # At(f, i) -> [length |-> At(f, i), end |-> i + 1]
    [] ~wide /\ At(f, i) = "I" /\ At(f, i + 1) = "6" /\ At(f, i + 2) = "4" ->
         [length |-> "ll", end |-> i + 3]
    [] At(f, i) \in {"j", "z", "t", "L"} -> [length |-> At(f, i), end |-> i + 1]
    [] OTHER -> [length |-> "none", end |-> i]

(* The directive that begins after the percent sign at i - 1.              *)
Directive(f, i, args, wide) ==
  LET flagged == PastFlags(f, i)
      flags == {f[k] : k \in i .. flagged - 1}
      width == Amount(f, flagged, args, wide)
      pointed == At(f, width.end) = "."
      precision == IF pointed THEN Amount(f, width.end + 1, width.args, wide)
                   ELSE [value |-> -1, end |-> width.end, args |-> width.args, star |-> TRUE]
      modifier == Modifier(f, precision.end, wide)
  IN [left |-> "-" \in flags \/ width.value < 0, plus |-> "+" \in flags,
      space |-> " " \in flags, alternate |-> "#" \in flags, zero |-> "0" \in flags,
      width |-> IF width.value < 0 THEN -width.value ELSE width.value,
      precision |-> IF precision.value < 0 THEN -1 ELSE precision.value,
      length |-> modifier.length, conversion |-> At(f, modifier.end),
      next |-> modifier.end + 1, args |-> precision.args,
      invalid |-> \/ At(f, modifier.end) = "end"
                  \/ ~width.star /\ width.value < 0           \* wide overflow
                  \/ ~precision.star /\ precision.value < 0]

(* An integer argument cut to the type its modifier names.                 *)
Bits(length) == Width[IF length = "L" THEN "none" ELSE length]
wcrt_unsigned_argument(n, length) == n % (2 ^ Bits(length))
wcrt_signed_argument(n, length) ==
  LET half == 2 ^ (Bits(length) - 1) IN ((n + half) % (2 * half)) - half

Sign(d, negative) ==
  CASE negative -> <<"-">>
    [] ~negative /\ d.plus -> <<"+">>
    [] ~negative /\ ~d.plus /\ d.space -> <<" ">>
    [] OTHER -> <<>>

Zeroes(d, count) == Repeat("0", IF d.precision > count THEN d.precision - count ELSE 0)

SignedText(d, argument) ==
  LET n == wcrt_signed_argument(argument, d.length)
      digits == IF n = 0 /\ d.precision = 0 THEN <<>>
                ELSE wcrt_unsigned(IF n < 0 THEN -n ELSE n, 10, FALSE)
  IN Sign(d, n < 0) \o Zeroes(d, Len(digits)) \o digits

(* The zero of an alternate octal number is added before the zeroes of the *)
(* precision, and does not count as one of them.                           *)
UnsignedText(d, argument) ==
  LET c == d.conversion
      n == IF c = "p" THEN argument ELSE wcrt_unsigned_argument(argument, d.length)
      base == IF c = "o" THEN 8 ELSE IF c = "u" THEN 10 ELSE 16
      digits == IF n = 0 /\ d.precision = 0 THEN <<>> ELSE wcrt_unsigned(n, base, c = "X")
  IN Some(base = 16 /\ (c = "p" \/ (d.alternate /\ n # 0)), <<"0", IF c = "X" THEN "X" ELSE "x">>) \o
     Some(base = 8 /\ d.alternate /\ At(digits, 1) # "0", <<"0">>) \o
     Zeroes(d, Len(digits)) \o digits

FloatText(d, v) ==
  LET upper == d.conversion \in {"F", "E", "G", "A"}
  IN Sign(d, v.neg) \o
     (IF v.kind # "finite" THEN Special(v, upper)
      ELSE IF d.conversion \in {"a", "A"}
           THEN wcrt_hexadecimal_float(v, d.precision, d.alternate, upper)
           ELSE wcrt_decimal_float(v, d.precision, d.alternate, upper, d.conversion))

Null == <<"(", "n", "u", "l", "l", ")">>
Cut(s, precision) ==
  IF precision >= 0 /\ Len(s) > precision THEN SubSeq(s, 1, precision) ELSE s
Fail(o) == [o EXCEPT !.failed = TRUE]

Integers1 == {"d", "i", "u", "o", "x", "X", "p"}
Floats == {"f", "F", "e", "E", "g", "G", "a", "A"}

(* One conversion of the narrow formatter; "refused" ends the call with -1 *)
(* and leaves the destination as it is.                                    *)
Refuses(d) ==
  \/ d.invalid
  \/ d.conversion \notin Integers1 \cup Floats \cup {"c", "s", "n", "%"}
  \/ d.conversion \in Integers1 /\ d.precision > INT_MAX - 70
  \/ d.conversion \in Floats /\ d.precision > INT_MAX - 400

Convert(o, d, argument) ==
  CASE d.conversion \in {"d", "i"} ->
         wcrt_field(o, SignedText(d, argument), d.width, d.left, d.zero /\ d.precision < 0)
    [] d.conversion \in {"u", "o", "x", "X", "p"} ->
         wcrt_field(o, UnsignedText(d, argument), d.width, d.left, d.zero /\ d.precision < 0)
    [] d.conversion \in Floats ->
         wcrt_field(o, FloatText(d, argument), d.width, d.left,
                    d.zero /\ argument.kind = "finite")
    [] d.conversion = "c" ->
         IF argument = "wide" /\ d.length = "l" THEN Fail(o)
         ELSE wcrt_field(o, <<argument>>, d.width, d.left, d.zero)
    [] d.conversion = "s" /\ d.length # "l" ->
         wcrt_field(o, Cut(IF argument = <<"NULL">> THEN Null ELSE argument, d.precision),
                    d.width, d.left, FALSE)
    [] d.conversion = "s" /\ d.length = "l" ->
         IF argument = <<"NULL">> THEN wcrt_field(o, Null, d.width, d.left, FALSE)
         ELSE IF \E i \in DOMAIN Cut(argument, d.precision) : argument[i] = "wide" THEN Fail(o)
         ELSE wcrt_field(o, Cut(argument, d.precision), d.width, d.left, FALSE)
    [] d.conversion = "n" -> o
    [] d.conversion = "%" -> wcrt_field(o, <<"%">>, d.width, d.left, d.zero)

(* The format from i on; `counts` are the values %n stored.                *)
RECURSIVE Format(_, _, _, _, _)
Format(o, f, i, args, counts) ==
  LET d == Directive(f, i + 1, args, FALSE)
      takes == d.conversion # "%"
      rest == IF takes THEN Tail(d.args) ELSE d.args
  IN CASE i > Len(f) \/ o.failed -> [o |-> o, r |-> IF o.failed THEN -1 ELSE o.count, counts |-> counts]
       [] i <= Len(f) /\ ~o.failed /\ f[i] # "%" -> Format(wcrt_emit(o, f[i]), f, i + 1, args, counts)
       [] OTHER ->
          IF Refuses(d) THEN [o |-> o, r |-> -1, counts |-> counts]
          ELSE Format(Convert(o, d, IF takes THEN Head(d.args) ELSE "none"), f, d.next, rest,
                      IF d.conversion = "n"
                      THEN Append(counts, wcrt_signed_argument(o.count, d.length)) ELSE counts)
wcrt_format(o, f, args) == Format(o, f, 1, args, <<>>)

-----------------------------------------------------------------------------
(* The callers.  `stored` is what the destination holds; "nul" is the      *)
(* terminator, put where the code puts it.                                 *)
Result(call, stored) == [r |-> call.r, stored |-> stored, counts |-> call.counts]

vfprintf(f, args, accepts) ==
  LET call == wcrt_format(Sink("stream", accepts), f, args) IN Result(call, call.o.stored)
vsprintf(f, args) ==
  LET call == wcrt_format(Sink("string", 0), f, args)
  IN Result(call, call.o.stored \o Some(~call.o.failed /\ call.r >= 0, <<"nul">>))
vsnprintf(size, f, args) ==
  LET call == wcrt_format(Sink("bounded", IF size > 0 THEN size - 1 ELSE 0), f, args)
      end == IF call.o.count < size THEN call.o.count ELSE size - 1
  IN Result(call, IF size > 0 THEN SubSeq(call.o.stored, 1, end) \o <<"nul">> ELSE <<>>)

(* The Microsoft form terminates only what is shorter than the size.       *)
_vsnprintf(size, f, args) ==
  LET call == wcrt_format(Sink("bounded", size), f, args)
  IN IF size = 0 THEN [r |-> -1, stored |-> <<>>, counts |-> <<>>]
     ELSE [r |-> IF call.r > size THEN -1 ELSE call.r,
           stored |-> call.o.stored \o Some(0 <= call.r /\ call.r < size, <<"nul">>),
           counts |-> call.counts]

-----------------------------------------------------------------------------
(* The wide formatter.  A string sink keeps what leaves room for the       *)
(* terminator and remembers an overflow; numbers are formatted by the      *)
(* narrow one from a directive spelled anew, as long as it needs.          *)
wcrt_narrow_spec(d, length) ==
  <<"%">> \o Some(d.alternate, <<"#">>) \o Some(d.zero /\ ~d.left, <<"0">>) \o
  Some(d.left, <<"-">>) \o Some(d.space, <<" ">>) \o Some(d.plus, <<"+">>) \o
  Some(d.width > 0, wcrt_unsigned(d.width, 10, FALSE)) \o
  Some(d.precision >= 0, <<".">> \o wcrt_unsigned(d.precision, 10, FALSE)) \o
  length \o <<d.conversion>>

wcrt_emit_narrow_result(o, spec, argument) ==
  LET measured == vsnprintf(0, spec, <<argument>>)
      text == vsnprintf(measured.r + 1, spec, <<argument>>)
  IN IF measured.r < 0 THEN Fail(o) ELSE Emit(o, SubSeq(text.stored, 1, measured.r))

wcrt_wsigned_argument(n, length) == wcrt_signed_argument(n, length)
wcrt_wunsigned_argument(n, length) == wcrt_unsigned_argument(n, length)
wcrt_wwide_field(o, text, d) == wcrt_field(o, text, d.width, d.left, FALSE)

wcrt_wformat_character(o, d, argument) ==
  IF d.length # "l" /\ argument = "wide" THEN Fail(o) ELSE wcrt_wwide_field(o, <<argument>>, d)
wcrt_wformat_string(o, d, argument) ==
  wcrt_wwide_field(o, Cut(IF argument = <<"NULL">> THEN Null ELSE argument, d.precision), d)

wcrt_wformat_conversion(o, d, argument) ==
  CASE d.conversion = "c" -> wcrt_wformat_character(o, d, argument)
    [] d.conversion = "s" -> wcrt_wformat_string(o, d, argument)
    [] d.conversion = "n" -> o
    [] d.conversion = "%" -> wcrt_emit(o, "%")
    [] d.conversion \in {"d", "i"} ->
         wcrt_emit_narrow_result(o, wcrt_narrow_spec(d, <<"l", "l">>),
                                 wcrt_wsigned_argument(argument, d.length))
    [] d.conversion \in {"u", "o", "x", "X"} ->
         wcrt_emit_narrow_result(o, wcrt_narrow_spec(d, <<"l", "l">>),
                                 wcrt_wunsigned_argument(argument, d.length))
    [] d.conversion \in Floats \cup {"p"} ->
         wcrt_emit_narrow_result(o, wcrt_narrow_spec(d, Some(d.length = "L", <<"L">>)), argument)
    [] OTHER -> Fail(o)

RECURSIVE WideFormat(_, _, _, _)
WideFormat(o, f, i, args) ==
  LET d == Directive(f, i + 1, args, TRUE)
      takes == d.conversion # "%"
      rest == IF takes THEN Tail(d.args) ELSE d.args
  IN CASE i > Len(f) \/ o.failed -> [o |-> o, r |-> IF o.failed THEN -1 ELSE o.count]
       [] i <= Len(f) /\ ~o.failed /\ f[i] # "%" -> WideFormat(wcrt_emit(o, f[i]), f, i + 1, args)
       [] OTHER ->
          IF d.invalid THEN [o |-> o, r |-> -1]
          ELSE WideFormat(wcrt_wformat_conversion(o, d, IF takes THEN Head(d.args) ELSE "none"),
                          f, d.next, rest)

vswprintf(capacity, f, args) ==
  LET call == WideFormat(Sink("bounded", capacity - 1), f, 1, args)
      overflow == call.o.count >= capacity
  IN [r |-> IF overflow THEN -1 ELSE call.r,
      stored |-> call.o.stored \o Some(call.r >= 0 /\ ~overflow, <<"nul">>)]
vfwprintf(f, args, accepts) ==
  LET call == WideFormat(Sink("stream", accepts), f, 1, args)
  IN [r |-> call.r, stored |-> call.o.stored]

-----------------------------------------------------------------------------
(* What formatted output promises (C99 7.19.6.1 and 7.24.2.1, as           *)
(* docs/req-0029-stdio-c99-format.md and docs/req-0039-numeric-text.md     *)
(* adopt them), for one directive [flags, width, precision, length,        *)
(* conversion], width and precision -1 if absent.                          *)

R == INSTANCE NumericText

Digits10(n) == wcrt_unsigned(n, 10, FALSE)
Letters(length) == CASE length = "hh" -> <<"h", "h">>
                     [] length = "ll" -> <<"l", "l">>
                     [] length = "none" -> <<>>
                     [] OTHER -> <<length>>
Spelled(d, width, precision) ==
  <<"%">> \o SetToSeq(d.flags) \o Some(d.width >= 0, width) \o
  Some(d.precision >= 0, <<".">> \o precision) \o Letters(d.length) \o <<d.conversion>>
Literal(d) == Spelled(d, Digits10(d.width), Digits10(d.precision))
Starred(d) == Spelled(d, <<"*">>, <<"*">>)
StarArguments(d) == Some(d.width >= 0, <<d.width>>) \o Some(d.precision >= 0, <<d.precision>>)

(* The field: `head` (sign, 0x) before zeroes, spaces on either side.      *)
Field(d, head, tail, zero) ==
  LET gap == Max({0, d.width - Len(head) - Len(tail)})
  IN CASE "-" \in d.flags -> head \o tail \o Repeat(" ", gap)
       [] "-" \notin d.flags /\ zero -> head \o Repeat("0", gap) \o tail
       [] OTHER -> Repeat(" ", gap) \o head \o tail

SignOf(d, negative) ==
  IF negative THEN <<"-">> ELSE IF "+" \in d.flags THEN <<"+">>
  ELSE Some(" " \in d.flags, <<" ">>)

(* The numeral of n of at least `least` digits.                            *)
NumeralOf(n, base, least, upper) ==
  LET k == Max({least, Min({j \in 0..6 : n < base ^ j})})
  IN [i \in 1..k |-> DigitOf((n \div base ^ (k - i)) % base, upper)]

-----------------------------------------------------------------------------
(* Integers.                                                               *)
Modulo(n, bits) == n % (2 ^ bits)
Centred(n, bits) == CHOOSE k \in -(2 ^ (bits - 1)) .. 2 ^ (bits - 1) - 1 :
                      Modulo(k, bits) = Modulo(n, bits)

IntegerText(d, n) ==
  LET signed == d.conversion = "d"
      upper == d.conversion = "X"
      base == CASE d.conversion \in {"d", "u"} -> 10 [] d.conversion = "o" -> 8 [] OTHER -> 16
      v == IF signed THEN Centred(n, Width[d.length]) ELSE Modulo(n, Width[d.length])
      magnitude == IF v < 0 THEN -v ELSE v
      plain == NumeralOf(magnitude, base, IF d.precision < 0 THEN 1 ELSE d.precision, upper)
      digits == Some(base = 8 /\ "#" \in d.flags /\ (plain = <<>> \/ plain[1] # "0"), <<"0">>) \o plain
      head == IF signed THEN SignOf(d, v < 0)
              ELSE Some(base = 16 /\ "#" \in d.flags /\ v # 0, <<"0", IF upper THEN "X" ELSE "x">>)
  IN Field(d, head, digits, "0" \in d.flags /\ d.precision < 0)

(* The precision gives an alternate octal number its zeroes, and the code  *)
(* adds one more.                                                          *)
OctalExtra(d, n) ==
  /\ d.conversion = "o" /\ "#" \in d.flags
  /\ d.precision > Len(NumeralOf(Modulo(n, Width[d.length]), 8, 1, FALSE))

IntegersFormatted(d, n) ==
  OctalExtra(d, n) \/ vsprintf(Literal(d), <<n>>).stored = IntegerText(d, n) \o <<"nul">>

-----------------------------------------------------------------------------
(* Decimal floating numbers, as integers scaled by a power of ten.         *)
SCALE == 5
Scaled(v) == IF IsZero(v) THEN 0
             ELSE FoldLeft(LAMBDA sum, n : 10 * sum + n, 0, v.digits) *
                  10 ^ (v.exponent - Len(v.digits) + 1 + SCALE)
Even(a, b) == LET q == a \div b
                  r == a % b
              IN IF 2 * r > b \/ (2 * r = b /\ q % 2 = 1) THEN q + 1 ELSE q
(* v in units of 10^-places, rounded to even.                              *)
Units(v, places) == IF places > SCALE THEN Scaled(v) * 10 ^ (places - SCALE)
                    ELSE Even(Scaled(v), 10 ^ (SCALE - places))

Pointed(d, whole, part, trim) ==
  LET kept == IF trim /\ "#" \notin d.flags
              THEN SubSeq(part, 1, Max({0} \cup {i \in DOMAIN part : part[i] # "0"})) ELSE part
  IN whole \o Some(kept # <<>> \/ "#" \in d.flags, <<".">>) \o kept

Fixed(d, v, places, trim) ==
  LET n == Units(v, places)
  IN Pointed(d, NumeralOf(n \div 10 ^ places, 10, 1, FALSE),
             NumeralOf(n % 10 ^ places, 10, places, FALSE), trim)

(* The exponent of v rounded to places + 1 digits.                         *)
Exponent10(v, places) ==
  IF IsZero(v) THEN 0
  ELSE Min({x \in {v.exponent, v.exponent + 1} : Units(v, places - x) \in 10 ^ places .. 10 ^ (places + 1) - 1})
Scientific(d, v, places, trim) ==
  LET x == Exponent10(v, places)
      n == Units(v, places - x)
  IN Pointed(d, NumeralOf(n \div 10 ^ places, 10, 1, FALSE),
             NumeralOf(n % 10 ^ places, 10, places, FALSE), trim) \o
     <<"e", IF x < 0 THEN "-" ELSE "+">> \o NumeralOf(IF x < 0 THEN -x ELSE x, 10, 2, FALSE)

Precision(d) == CASE d.precision < 0 -> 6
                  [] d.conversion = "g" /\ d.precision = 0 -> 1
                  [] OTHER -> d.precision
DecimalText(d, v) ==
  LET p == Precision(d)
      x == Exponent10(v, p - 1)
      tail == CASE v.kind # "finite" -> IF v.kind = "nan" THEN <<"n", "a", "n">> ELSE <<"i", "n", "f">>
                [] v.kind = "finite" /\ d.conversion = "f" -> Fixed(d, v, p, FALSE)
                [] v.kind = "finite" /\ d.conversion = "e" -> Scientific(d, v, p, FALSE)
                [] OTHER -> IF x \in -4 .. p - 1 THEN Fixed(d, v, p - 1 - x, TRUE)
                            ELSE Scientific(d, v, p - 1, TRUE)
  IN Field(d, SignOf(d, v.neg), tail, "0" \in d.flags /\ v.kind = "finite")

(* Where the code departs: %.0f of a number between one half and one, and  *)
(* %g of a number that rounding carries to the next power of ten.          *)
RoundsToOne(d, v) ==
  d.conversion = "f" /\ d.precision = 0 /\ Units(v, 0) = 1 /\ v.exponent = -1
StyleShifts(d, v) ==
  d.conversion = "g" /\ ~IsZero(v) /\ Exponent10(v, Precision(d) - 1) # v.exponent

DecimalExact(d, v) == vsprintf(Literal(d), <<v>>).stored = DecimalText(d, v) \o <<"nul">>
DecimalsFormatted(d, v) ==
  \/ v.kind = "finite" /\ (RoundsToOne(d, v) \/ StyleShifts(d, v))
  \/ DecimalExact(d, v)

-----------------------------------------------------------------------------
(* %a: reading the text back gives the number; of fewer digits, what the   *)
(* reader would round the whole text to.                                   *)
Marks == [c \in {"+", "-", ".", "x", "p", "X", "P"} |->
            CASE c = "+" -> 43 [] c = "-" -> 45 [] c = "." -> 46
              [] c = "x" -> 120 [] c = "p" -> 112 [] c = "X" -> 88 [] c = "P" -> 80]
Code(c) ==
  IF c \in DOMAIN Marks THEN Marks[c]
  ELSE LET i == CHOOSE i \in 1..16 : c \in {Lower[i], Upper[i]}
       IN IF i <= 10 THEN 47 + i ELSE (IF Lower[i] = c THEN 86 ELSE 54) + i
ReadBack(text, precision) ==
  R!wcrt_hexadecimal_bits([i \in DOMAIN text |-> Code(text[i])], precision, 1 - BIAS, BIAS, BIAS).value

HexadecimalReadsBack(v) ==
  \A upper \in BOOLEAN :
    LET whole == wcrt_hexadecimal_float(v, -1, FALSE, upper)
    IN /\ ReadBack(whole, 4 * FRACTION + 1) = v.field * 16 ^ FRACTION + v.fraction
       /\ \A digits \in 0 .. FRACTION + 1 :
            LET text == wcrt_hexadecimal_float(v, digits, FALSE, upper)
                kept == IF digits < FRACTION THEN digits ELSE FRACTION
            IN /\ ReadBack(text, 4 * FRACTION + 1) \div 16 ^ (FRACTION - kept) =
                    ReadBack(whole, 4 * kept + 1)
               /\ Len(SelectSeq(text, LAMBDA c : c = ".")) = (IF digits > 0 THEN 1 ELSE 0)

-----------------------------------------------------------------------------
(* Where the code departs: swprintf and vswprintf, when the text does not  *)
(* fit, leave what they have stored without a terminator.                  *)
Unterminated(n, size) == n >= size

(* Every destination holds as much of the same text as it can, the count   *)
(* is that of the whole text, and widths given as arguments are those      *)
(* written out.                                                            *)
SinksAgree(d, argument) ==
  LET f == Literal(d)
      whole == vsprintf(f, <<argument>>)
      n == Len(whole.stored) - 1
      t == SubSeq(whole.stored, 1, n)
  IN /\ whole.r = n
     /\ vsprintf(Starred(d), StarArguments(d) \o <<argument>>) = whole
     /\ \A size \in {0, 1, 2, n, n + 1, n + 2} :
          LET bounded == vsnprintf(size, f, <<argument>>)
              microsoft == _vsnprintf(size, f, <<argument>>)
              stream == vfprintf(f, <<argument>>, size)
              wide == vswprintf(size, f, <<argument>>)
          IN /\ bounded.r = n
             /\ size > 0 => bounded.stored = SubSeq(t, 1, Min({n, size - 1})) \o <<"nul">>
             /\ size > 0 => /\ microsoft.r = IF n > size THEN -1 ELSE n
                            /\ microsoft.stored = IF n < size THEN whole.stored ELSE SubSeq(t, 1, size)
             /\ stream.r = IF n <= size THEN n ELSE -1
             /\ stream.stored = SubSeq(t, 1, Min({n, size}))
             /\ size > 0 =>
                  /\ wide.r = IF n < size THEN n ELSE -1
                  /\ SubSeq(wide.stored, 1, Min({n, size - 1})) = SubSeq(t, 1, Min({n, size - 1}))
                  /\ \/ Unterminated(n, size)
                     \/ wide.stored = SubSeq(t, 1, Min({n, size - 1})) \o <<"nul">>
             /\ vfwprintf(f, <<argument>>, size) = [r |-> stream.r, stored |-> stream.stored]

(* Texts and characters: at most the precision, never cut in the middle of *)
(* an encoding error, which fails the call.                                *)
TextExpected(d, s) ==
  LET cut == SubSeq(s, 1, IF d.precision < 0 THEN Len(s) ELSE Min({Len(s), d.precision}))
  IN IF "wide" \in ToSet(cut) THEN [r |-> -1, stored |-> <<>>]
     ELSE [r |-> Len(Field(d, <<>>, cut, FALSE)), stored |-> Field(d, <<>>, cut, FALSE) \o <<"nul">>]
TextsFormatted(d, s) ==
  LET whole == vsprintf(<<"<">> \o Literal(d) \o <<"%", "n">>, <<s>>)
      e == TextExpected(d, s)
  IN /\ whole.r = IF e.r < 0 THEN -1 ELSE e.r + 1
     /\ e.r >= 0 => whole.stored = <<"<">> \o e.stored /\ whole.counts = <<e.r + 1>>
     /\ e.r < 0 => whole.stored = <<"<">>
=============================================================================
