---------------------------- MODULE NumericText ----------------------------
(***************************************************************************)
(* Numbers from text and back: src/stdlib.c and the wide forms of          *)
(* src/wchar_string.c.  A text is the sequence of its characters' codes    *)
(* before the terminator; a cursor is an offset into it.  The widths of    *)
(* the integer types are parameters of the operators.  A result names the  *)
(* value, the end offset (the end pointer) and errno ("" if untouched).    *)
(***************************************************************************)
EXTENDS Characters, Sequences, FiniteSetsExt, SequencesExt

Plus == 43
Minus == 45
Point == 46
Zero == 48
Letter(c, lower) == tolower(c) = lower
LowerE == 101
LowerP == 112
LowerX == 120

At(t, c) == IF c < Len(t) THEN t[c + 1] ELSE NUL

RECURSIVE Past(_, _, _)
Past(t, c, class) == IF At(t, c) \in class THEN Past(t, c + 1, class) ELSE c

(* The value of a digit in any base, -1 if the character is none.          *)
wcrt_digit(c) ==
  CASE c \in isdigit -> c - 48
    [] c \in islower -> c - 97 + 10
    [] c \in isupper -> c - 65 + 10
    [] OTHER -> -1
Digits(base) == {c \in isalnum : wcrt_digit(c) < base}

(* Spaces, then a sign.                                                    *)
Start(t) ==
  LET c == Past(t, 0, isspace)
  IN [neg |-> At(t, c) = Minus, c |-> IF At(t, c) \in {Plus, Minus} THEN c + 1 ELSE c]

-----------------------------------------------------------------------------
(* Integers.                                                               *)

(* The base found at the cursor, and the cursor past a 0x prefix that a    *)
(* hexadecimal digit follows.                                              *)
Prefix(t, c, base) ==
  IF /\ base \in {0, 16}
     /\ At(t, c) = Zero /\ Letter(At(t, c + 1), LowerX)
     /\ At(t, c + 2) \in Digits(16)
  THEN [base |-> 16, c |-> c + 2]
  ELSE [base |-> IF base # 0 THEN base ELSE IF At(t, c) = Zero THEN 8 ELSE 10, c |-> c]

(* The digits: a digit that would carry the value past `max` sets the      *)
(* overflow flag, and the rest of the digits is only skipped.              *)
RECURSIVE Magnitude(_, _, _, _, _, _)
Magnitude(t, c, base, max, value, overflow) ==
  LET d == wcrt_digit(At(t, c))
      over == overflow \/ value > (max - d) \div base
  IN IF d < 0 \/ d >= base THEN [value |-> value, overflow |-> overflow, c |-> c]
     ELSE Magnitude(t, c + 1, base, max, IF over THEN value ELSE value * base + d, over)

(* wcrt_strtoull and strtoul are the same function for two widths.         *)
wcrt_strtoull(t, base, bits) ==
  LET start == Start(t)
      prefix == Prefix(t, start.c, base)
      max == 2 ^ bits - 1
      m == Magnitude(t, prefix.c, prefix.base, max, 0, FALSE)
  IN IF prefix.base < 2 \/ prefix.base > 36
     THEN [value |-> 0, end |-> 0, neg |-> start.neg, overflow |-> FALSE, errno |-> ""]
     ELSE [value |-> IF m.overflow THEN max
                     ELSE IF start.neg THEN (0 - m.value) % (2 ^ bits) ELSE m.value,
           end |-> IF m.c > prefix.c THEN m.c ELSE 0,
           neg |-> start.neg, overflow |-> m.overflow,
           errno |-> IF m.overflow THEN "ERANGE" ELSE ""]

strtoul(t, base, bits) == wcrt_strtoull(t, base, bits)

(* strtol takes the sign from the text again and turns the value strtoul   *)
(* returned, which is modulo 2^bits or saturated, back into a magnitude.   *)
(* Mutation of Signed: the least number is out of range.                   *)
SignedSymmetric(u, neg, bits) ==
  LET limit == 2 ^ (bits - 1)
      magnitude == IF neg THEN (0 - u.value) % (2 ^ bits) ELSE u.value
  IN IF u.end # 0 /\ magnitude > limit - 1
     THEN [value |-> IF neg THEN -limit ELSE limit - 1, end |-> u.end, errno |-> "ERANGE"]
     ELSE [value |-> IF neg THEN -magnitude ELSE magnitude, end |-> u.end, errno |-> u.errno]

Signed(u, neg, bits) ==
  LET limit == 2 ^ (bits - 1)
      magnitude == IF neg THEN (0 - u.value) % (2 ^ bits) ELSE u.value
      error == [value |-> IF neg THEN -limit ELSE limit - 1, end |-> u.end, errno |-> "ERANGE"]
      exact == [value |-> IF neg THEN -magnitude ELSE magnitude, end |-> u.end, errno |-> u.errno]
  IN CASE u.end = 0 -> [value |-> 0, end |-> 0, errno |-> u.errno]
       [] u.end # 0 /\ magnitude > (IF neg THEN limit ELSE limit - 1) -> error
       [] OTHER -> exact

strtol(t, base, bits) ==
  Signed(strtoul(t, base, bits), At(t, Past(t, 0, isspace)) = Minus, bits)

(* strtoll is told of the overflow and answers it before the magnitude.    *)
strtoll(t, base, bits) ==
  LET u == wcrt_strtoull(t, base, bits)
      limit == 2 ^ (bits - 1)
  IN IF u.end # 0 /\ u.overflow
     THEN [value |-> IF u.neg THEN -limit ELSE limit - 1, end |-> u.end, errno |-> "ERANGE"]
     ELSE Signed(u, u.neg, bits)

(* The 64-bit forms of the Microsoft library refuse a base first.          *)
wcrt_ms_integer_input(base) == base = 0 \/ base \in 2..36
strtoi64(t, base, bits) ==
  IF wcrt_ms_integer_input(base) THEN strtoll(t, base, bits)
  ELSE [value |-> 0, end |-> 0, errno |-> "EINVAL"]

(* The wide forms narrow the text into a block first: a unit outside a     *)
(* byte becomes DEL, which is no digit; without memory nothing is read.    *)
wcrt_narrow_wide_number(w) == [i \in DOMAIN w |-> IF w[i] <= 255 THEN w[i] ELSE 127]
wcstoll(w, base, bits, allocated) ==
  IF allocated THEN strtoll(wcrt_narrow_wide_number(w), base, bits)
  ELSE [value |-> 0, end |-> 0, errno |-> "ENOMEM"]

(* Integers to text, least digit first and reversed; minus in base 10      *)
(* only.  A radix outside 2..36 is EINVAL, here the empty text.            *)
RECURSIVE Reversed(_, _)
Reversed(value, radix) ==
  LET d == value % radix
      digit == <<IF d < 10 THEN 48 + d ELSE 87 + d>>
  IN IF value < radix THEN digit ELSE digit \o Reversed(value \div radix, radix)
wcrt_ultoa_core(value, radix, negative) ==
  LET digits == Reversed(value, radix) \o (IF negative THEN <<Minus>> ELSE <<>>)
  IN IF radix \notin 2..36 THEN <<>>
     ELSE [i \in DOMAIN digits |-> digits[Len(digits) + 1 - i]]
ltoa(value, radix, bits) ==
  LET negative == radix = 10 /\ value < 0
      magnitude == value % (2 ^ bits)
  IN wcrt_ultoa_core(IF negative THEN (0 - magnitude) % (2 ^ bits) ELSE magnitude,
                     radix, negative)

-----------------------------------------------------------------------------
(* Floating subjects.  An infinity or a NaN, in any case.                  *)
RECURSIVE wcrt_ascii_word(_, _, _)
wcrt_ascii_word(t, c, word) ==
  \/ word = <<>>
  \/ Letter(At(t, c), Head(word)) /\ wcrt_ascii_word(t, c + 1, Tail(word))

Inf == <<105, 110, 102>>
Inity == <<105, 110, 105, 116, 121>>
Nan == <<110, 97, 110>>
OpenParenthesis == 40
CloseParenthesis == 41
Underscore == 95
None == [kind |-> "none"]

wcrt_special_double(t) ==
  LET start == Start(t)
      c == start.c
      payload == Past(t, c + 4, isalnum \cup {Underscore})
      result(kind, end) == [kind |-> kind, neg |-> start.neg, end |-> end]
  IN CASE wcrt_ascii_word(t, c, Inf) ->
            result("infinity", IF wcrt_ascii_word(t, c + 3, Inity) THEN c + 8 ELSE c + 3)
       [] wcrt_ascii_word(t, c, Nan) ->
            result("nan", IF At(t, c + 3) = OpenParenthesis /\ At(t, payload) = CloseParenthesis
                          THEN payload + 1 ELSE c + 3)
       [] OTHER -> None

(* An exponent after its letter: taken only if a digit follows.  The value *)
(* stops growing once it has reached the limit.                            *)
RECURSIVE Capped(_, _, _, _)
Capped(t, c, value, limit) ==
  IF At(t, c) \notin isdigit THEN value
  ELSE Capped(t, c + 1, IF value < limit THEN value * 10 + At(t, c) - 48 ELSE value, limit)
Exponent(t, c, letter, limit) ==
  LET sign == IF At(t, c + 1) \in {Plus, Minus} THEN c + 2 ELSE c + 1
      value == Capped(t, sign, 0, limit)
  IN IF Letter(At(t, c), letter) /\ At(t, sign) \in isdigit
     THEN [value |-> IF At(t, c + 1) = Minus THEN -value ELSE value,
           end |-> Past(t, sign, isdigit)]
     ELSE [value |-> 0, end |-> c]

(* Digits with at most one point among them.                               *)
Significand(t, c, class) ==
  LET point == Past(t, c, class)
      end == IF At(t, point) = Point THEN Past(t, point + 1, class) ELSE point
  IN [whole |-> SubSeq(t, c + 1, point), part |-> SubSeq(t, point + 2, end), end |-> end]

(* A hexadecimal subject packed into a binary format of `precision` bits   *)
(* and exponents from minimum to maximum: as many bits as the format keeps *)
(* at this exponent, rounded by the next bit and whether any later is set, *)
(* to even when halfway.  The sign mask is the bit above the exponent.     *)
RECURSIVE Bits(_)
Bits(digits) ==
  IF digits = <<>> THEN <<>>
  ELSE LET d == wcrt_digit(Head(digits))
       IN <<d \div 8, (d \div 4) % 2, (d \div 2) % 2, d % 2>> \o Bits(Tail(digits))
RECURSIVE Binary(_, _, _)
Binary(bits, n, value) ==
  IF n = 0 THEN value
  ELSE IF bits = <<>> THEN Binary(<<>>, n - 1, 2 * value)
  ELSE Binary(Tail(bits), n - 1, 2 * value + Head(bits))

wcrt_hexadecimal_bits(t, precision, minimum, maximum, bias) ==
  LET start == Start(t)
      s == Significand(t, start.c + 2, isxdigit)
      e == Exponent(t, s.end, LowerP, 100000)
      all == Bits(s.whole \o s.part)
      first == Past([i \in DOMAIN all |-> all[i] + 1], 0, {1})
      bits == SubSeq(all, first + 1, Len(all))
      exponent == e.value + 4 * Len(s.whole) - first - 1
      keep == IF exponent >= minimum THEN precision
              ELSE exponent - (minimum - (precision - 1)) + 1
      kept == Binary(bits, keep, 0)
      guard == At(bits, keep) = 1
      sticky == \E i \in keep + 2 .. Len(bits) : bits[i] = 1
      rounded == IF guard /\ (sticky \/ kept % 2 = 1) THEN kept + 1 ELSE kept
      carried == rounded = 2 ^ precision
      final == IF carried THEN exponent + 1 ELSE exponent
      unit == 2 ^ (precision - 1)
      result(value, errno) ==
        [kind |-> "hexadecimal", neg |-> start.neg, end |-> e.end, value |-> value, errno |-> errno]
  IN CASE At(t, start.c) # Zero \/ ~Letter(At(t, start.c + 1), LowerX)
            \/ s.whole \o s.part = <<>> -> None
       [] OTHER ->
          CASE bits = <<>> -> result(0, "")
            [] bits # <<>> /\ keep < 0 -> result(0, "ERANGE")
            [] bits # <<>> /\ keep >= 0 /\ exponent < minimum -> result(rounded, "ERANGE")
            [] OTHER -> IF final > maximum
                        THEN result((maximum + bias + 1) * unit - 1, "ERANGE")
                        ELSE result((final + bias) * unit +
                                    ((IF carried THEN rounded \div 2 ELSE rounded) % unit), "")

(* Binary arithmetic on numbers that are not negative, in units of the     *)
(* smallest one: n/d to the nearest, halfway to even.                      *)
One(precision, minimum) == 2 ^ (precision - 1 - minimum)
Largest(precision, minimum, maximum) == (2 ^ precision - 1) * 2 ^ (maximum - minimum)
RECURSIVE Rounded(_, _, _)
Rounded(n, d, precision) ==
  LET rest == n % d
  IN IF n \div d >= 2 ^ precision THEN 2 * Rounded(n, 2 * d, precision)
     ELSE IF 2 * rest > d \/ (2 * rest = d /\ (n \div d) % 2 = 1) THEN n \div d + 1
     ELSE n \div d

(* The table of powers 10^(2^i) holds those the format does; a scale past  *)
(* the table is an overflow, or zero.  A product a little over the largest *)
(* number is taken for it.                                                 *)
RECURSIVE ScaleBits(_, _, _, _, _, _)
ScaleBits(value, magnitude, up, powers, largest, precision) ==
  LET factor == Rounded(Head(powers), 1, precision)
      limit == Rounded(largest, factor, precision)
      next(v) == ScaleBits(v, magnitude \div 2, up, Tail(powers), largest, precision)
      end(v, over) == [value |-> v, overflow |-> over]
  IN IF magnitude = 0 THEN end(value, FALSE)
     ELSE IF powers = <<>> THEN IF magnitude % 2 = 1 THEN end(IF up THEN largest ELSE 0, up)
                                ELSE ScaleBits(value, magnitude \div 2, up, <<>>, largest, precision)
     ELSE IF magnitude % 2 = 0 THEN next(value)
     ELSE IF ~up THEN next(Rounded(value, factor, precision))
     ELSE IF value <= limit THEN next(Rounded(value * factor, 1, precision))
     ELSE end(largest, value - limit > (2 * limit) \div 2 ^ (precision - 1))
wcrt_scale_decimal(value, scale, precision, minimum, maximum) ==
  LET largest == Largest(precision, minimum, maximum)
      powers == SelectSeq(<<10, 100, 10000>>, LAMBDA n : n <= largest \div One(precision, minimum))
  IN IF value = 0 THEN [value |-> 0, overflow |-> FALSE]
     ELSE ScaleBits(value, IF scale < 0 THEN -scale ELSE scale, scale > 0, powers, largest, precision)

(* A decimal subject: the first `most` significant digits as an integer,   *)
(* scaled by a power of ten in binary arithmetic.                          *)
RECURSIVE Decimal(_, _)
Decimal(digits, value) ==
  IF digits = <<>> THEN value ELSE Decimal(Tail(digits), value * 10 + Head(digits) - 48)

wcrt_strtod_decimal(t, precision, minimum, maximum, most) ==
  LET start == Start(t)
      s == Significand(t, start.c, isdigit)
      e == Exponent(t, s.end, LowerE, 1000)
      all == s.whole \o s.part
      zeros == Past(all, 0, {Zero})
      stored == SubSeq(all, zeros + 1, IF Len(all) - zeros > most THEN zeros + most ELSE Len(all))
      significand == Decimal(stored, 0)
      scale == e.value + Len(s.whole) - zeros - Len(stored)
      scaled == wcrt_scale_decimal(Rounded(significand * One(precision, minimum), 1, precision),
                                   scale, precision, minimum, maximum)
      tiny == zeros < Len(all) /\ scaled.value < 2 ^ (precision - 1)
      result(n, k, end, value, errno) ==
        [kind |-> "decimal", neg |-> start.neg, end |-> end, significand |-> n, scale |-> k,
         value |-> value, errno |-> errno]
  IN IF all = <<>> THEN result(0, 0, 0, 0, "")
     ELSE result(significand, scale, e.end, scaled.value,
                 IF scaled.overflow \/ tiny THEN "ERANGE" ELSE "")

strtod(t, precision, minimum, maximum, bias, most) ==
  LET special == wcrt_special_double(t)
      hexadecimal == wcrt_hexadecimal_bits(t, precision, minimum, maximum, bias)
  IN CASE special # None -> special
       [] special = None /\ hexadecimal # None -> hexadecimal
       [] OTHER -> wcrt_strtod_decimal(t, precision, minimum, maximum, most)

-----------------------------------------------------------------------------
(* The reference (docs/req-0013-stdlib.md, docs/req-0039-numeric-text.md,  *)
(* C99 7.20.1): the longest prefix that is a subject sequence, its exact   *)
(* value, and that value brought into the range or rounded to the format.  *)

Longest(t, Subject(_)) ==
  LET S == {n \in 0 .. Len(t) : Subject(SubSeq(t, 1, n))} IN IF S = {} THEN 0 ELSE Max(S)

Spaces(t) == IF ToSet(t) \subseteq isspace THEN Len(t)
             ELSE Min({i \in DOMAIN t : t[i] \notin isspace}) - 1
Unspaced(t) == SubSeq(t, Spaces(t) + 1, Len(t))
IsSigned(t) == t # <<>> /\ t[1] \in {Plus, Minus}
Unsigned(t) == IF IsSigned(t) THEN Tail(t) ELSE t
Body(t) == Unsigned(Unspaced(t))
Negative(t) == Unspaced(t) # <<>> /\ Unspaced(t)[1] = Minus

HasPrefix(b) == Len(b) >= 2 /\ b[1] = Zero /\ b[2] \in {120, 88}
Drop(b, n) == SubSeq(b, n + 1, Len(b))
Over(b, class) == b # <<>> /\ ToSet(b) \subseteq class

(* The exact value of digits, most significant first.                      *)
Value(digits, base) ==
  FoldLeftDomain(LAMBDA sum, i : sum + wcrt_digit(digits[i]) * base ^ (Len(digits) - i),
                 0, digits)

-----------------------------------------------------------------------------
(* Integers.                                                               *)
IntegerSubject(t, base) ==
  LET b == Body(t)
  IN \/ base \in {0, 16} /\ HasPrefix(b) /\ Over(Drop(b, 2), Digits(16))
     \/ base # 0 /\ Over(b, Digits(base))
     \/ base = 0 /\ Over(b, Digits(IF b[1] = Zero THEN 8 ELSE 10))
IntegerValue(t, base) ==
  LET b == Body(t)
  IN IF base \in {0, 16} /\ HasPrefix(b) THEN Value(Drop(b, 2), 16)
     ELSE Value(b, IF base # 0 THEN base ELSE IF b[1] = Zero THEN 8 ELSE 10)

(* The value brought into low..high.                                       *)
Clamped(n, low, high, end) ==
  CASE n < low -> [value |-> low, end |-> end, errno |-> "ERANGE"]
    [] n > high -> [value |-> high, end |-> end, errno |-> "ERANGE"]
    [] OTHER -> [value |-> n, end |-> end, errno |-> ""]

SignedReference(t, base, bits) ==
  LET end == Longest(t, LAMBDA s : IntegerSubject(s, base))
      s == SubSeq(t, 1, end)
      v == IntegerValue(s, base)
  IN IF end = 0 THEN [value |-> 0, end |-> 0, errno |-> ""]
     ELSE Clamped(IF Negative(s) THEN -v ELSE v, -(2 ^ (bits - 1)), 2 ^ (bits - 1) - 1, end)

(* strtoul negates within the type; only the magnitude can overflow.       *)
UnsignedReference(t, base, bits) ==
  LET end == Longest(t, LAMBDA s : IntegerSubject(s, base))
      s == SubSeq(t, 1, end)
      r == Clamped(IntegerValue(s, base), 0, 2 ^ bits - 1, end)
  IN IF end = 0 THEN [value |-> 0, end |-> 0, errno |-> ""]
     ELSE IF Negative(s) /\ r.errno = "" THEN [r EXCEPT !.value = (-r.value) % (2 ^ bits)]
     ELSE r

Three(r) == [value |-> r.value, end |-> r.end, errno |-> r.errno]

(* Where the code departs: a magnitude no unsigned long holds comes back   *)
(* from strtoul as its largest value, whose negation strtol takes for the  *)
(* magnitude 1, where the least long is promised                           *)
(* (docs/req-0013-stdlib.md:40).                                           *)
Saturated(t, base, bits) ==
  Negative(t) /\ UnsignedReference(t, base, bits).errno = "ERANGE"

IntegersCorrect(t, base, bits) ==
  /\ Three(strtoul(t, base, bits)) = UnsignedReference(t, base, bits)
  /\ strtoll(t, base, bits) = SignedReference(t, base, bits)
  /\ Saturated(t, base, bits) \/ strtol(t, base, bits) = SignedReference(t, base, bits)
  /\ strtol(t, base, bits).end = SignedReference(t, base, bits).end
  /\ strtol(t, base, bits).errno = SignedReference(t, base, bits).errno
  /\ wcstoll(t, base, bits, TRUE) = SignedReference(t, base, bits)
  /\ strtoi64(t, base, bits) = SignedReference(t, base, bits)
  /\ \A bad \in {-1, 1, 37} :
       /\ Three(strtoul(t, bad, bits)) = [value |-> 0, end |-> 0, errno |-> ""]
       /\ strtoi64(t, bad, bits).errno = "EINVAL"

(* Writing a number and reading it back; in another base than 10 the text  *)
(* of a negative number is that of its unsigned image.                     *)
RoundTrip(n, radix, bits) ==
  LET t == ltoa(n, radix, bits)
  IN /\ Len(t) <= bits + 1
     /\ IF radix = 10 THEN strtol(t, radix, bits) = [value |-> n, end |-> Len(t), errno |-> ""]
        ELSE Three(strtoul(t, radix, bits)) =
               [value |-> n % (2 ^ bits), end |-> Len(t), errno |-> ""]

-----------------------------------------------------------------------------
(* Floating subjects.                                                      *)
Pointed(b, class) ==
  /\ Over(b, class \cup {Point})
  /\ Cardinality({i \in DOMAIN b : b[i] = Point}) <= 1
  /\ \E i \in DOMAIN b : b[i] \in class
(* b is digits with a point, then perhaps a letter and a signed exponent.  *)
Scaled(b, class, letters) ==
  \/ Pointed(b, class)
  \/ \E i \in DOMAIN b : /\ b[i] \in letters /\ Pointed(SubSeq(b, 1, i - 1), class)
                         /\ Over(Unsigned(Drop(b, i)), isdigit)
Word(b) == [i \in DOMAIN b |-> tolower(b[i])]
FloatSubject(t) ==
  LET b == Body(t)
      w == Word(b)
  IN \/ w \in {Inf, Inf \o Inity, Nan}
     \/ /\ Len(w) >= 5 /\ SubSeq(w, 1, 4) = Nan \o <<OpenParenthesis>>
        /\ Last(w) = CloseParenthesis
        /\ \A i \in 5 .. Len(w) - 1 : w[i] \in isalnum \cup {Underscore}
     \/ HasPrefix(b) /\ Scaled(Drop(b, 2), isxdigit, {112, 80})
     \/ Scaled(b, isdigit, {101, 69})

(* The parts of a subject with a point and an exponent.                    *)
Parts(b, letters) ==
  LET e == Min({i \in DOMAIN b : b[i] \in letters} \cup {Len(b) + 1})
      digits == SubSeq(b, 1, e - 1)
      exponent == Drop(b, e)
      value == Value(Unsigned(exponent), 10)
  IN [digits |-> SelectSeq(digits, LAMBDA c : c # Point),
      places |-> Cardinality({i \in DOMAIN digits : \E j \in 1 .. i - 1 : digits[j] = Point}),
      exponent |-> IF exponent # <<>> /\ exponent[1] = Minus THEN -value ELSE value]

(* The format's numbers as pairs of their bits and their value in units of *)
(* the smallest one: gradual underflow, and one step past the largest.     *)
Magnitudes(precision, minimum, maximum) ==
  LET unit == 2 ^ (precision - 1)
  IN {[bits |-> n, ulps |-> IF n < unit THEN n ELSE (unit + (n % unit)) * 2 ^ (n \div unit - 1)] :
        n \in 0 .. (maximum - minimum + 2) * unit}

(* The number nearest to value * 2^power units, to even bits when halfway. *)
Nearest(value, power, formats) ==
  LET up == IF power >= 0 THEN 2 ^ power ELSE 1
      down == IF power >= 0 THEN 1 ELSE 2 ^ (-power)
      distance(f) == LET d == value * up - f.ulps * down IN IF d < 0 THEN -d ELSE d
  IN CHOOSE f \in formats : \A g \in formats :
       \/ distance(f) < distance(g)
       \/ distance(f) = distance(g) /\ (f = g \/ f.bits % 2 = 0)

HexadecimalRounded(t, precision, minimum, maximum) ==
  LET bias == 1 - minimum
      r == wcrt_hexadecimal_bits(t, precision, minimum, maximum, bias)
      p == Parts(Drop(Body(SubSeq(t, 1, r.end)), 2), {112, 80})
      value == Value(p.digits, 16)
      formats == Magnitudes(precision, minimum, maximum)
      near == Nearest(value, p.exponent - 4 * p.places + precision - 1 - minimum, formats)
      infinite == (maximum + bias + 1) * 2 ^ (precision - 1)
  IN r # None =>
       /\ r.value = IF near.bits >= infinite THEN infinite - 1 ELSE near.bits
       /\ near.bits >= infinite => r.errno = "ERANGE"
       /\ r.errno = "" => near.bits < infinite
       /\ value # 0 /\ near.bits = 0 => r.errno = "ERANGE"

(* The whole subject is consumed, by the right reader; a decimal one of at *)
(* most `most` significant digits keeps its exact value, and a longer one  *)
(* is cut, never by a whole unit of its last stored digit.                 *)
FloatsCorrect(t, precision, minimum, maximum, most) ==
  LET r == strtod(t, precision, minimum, maximum, 1 - minimum, most)
      end == Longest(t, FloatSubject)
      b == Body(SubSeq(t, 1, end))
      p == Parts(b, {101, 69})
      value == Value(p.digits, 10)
      shift == r.scale - (p.exponent - p.places)
  IN /\ r.end = end
     /\ end > 0 => r.neg = Negative(t)
     /\ r.kind = "hexadecimal" <=> end > 0 /\ HasPrefix(b)
     /\ r.kind = "decimal" /\ end > 0 =>
          /\ shift >= 0
          /\ r.significand * 10 ^ shift <= value
          /\ value < (r.significand + 1) * 10 ^ shift
          /\ value < 10 ^ most => r.significand * 10 ^ shift = value

(* What a decimal subject is worth, by exact arithmetic: its value is      *)
(* n * 10^E, between 10^(position - 1) and 10^position, and near is that   *)
(* rounded once.                                                           *)
RECURSIVE Spacing(_, _)
Spacing(n, precision) == IF n < 2 ^ precision THEN 1 ELSE 2 * Spacing(n \div 2, precision)
Ten(n) == 10 ^ Min({n, 9})

(* The documented accuracy of the scaling (docs/req-0039-numeric-text.md:  *)
(* 36-40): not the correctly rounded value but one within `slack` units in *)
(* its last place.  ERANGE tells that the value is past the largest number *)
(* or, not being zero, below the smallest normal one, unless it is that    *)
(* close to the limit (at the top a product's tolerance of two units comes *)
(* to it); and then the value is the largest, a subnormal or zero.         *)
DecimalsScaled(t, precision, minimum, maximum, most, slack) ==
  LET r == wcrt_strtod_decimal(t, precision, minimum, maximum, most)
      p == Parts(Body(SubSeq(t, 1, r.end)), {101, 69})
      n == Value(p.digits, 10)
      E == p.exponent - p.places
      position == E + Min({k \in 0 .. Len(p.digits) : n < 10 ^ k})
      one == One(precision, minimum)
      largest == Largest(precision, minimum, maximum)
      normal == 2 ^ (precision - 1)
      near == Rounded(n * one * Ten(Max({E, 0})), Ten(Max({-E, 0})), precision)
      allowed == slack * Spacing(near, precision)
  IN r.end > 0 =>
     CASE n = 0 -> r.value = 0 /\ r.errno = ""
       [] n # 0 /\ position > 0 /\ Ten(position - 1) > largest \div one -> r.value = largest /\ r.errno = "ERANGE"
       [] n # 0 /\ position < 0 /\ Ten(-position) > 2 * one -> r.value = 0 /\ r.errno = "ERANGE"
       [] OTHER ->
            /\ r.value \in near - allowed .. near + allowed \/ (near > largest /\ r.value = largest)
            /\ near > largest + 2 * allowed \/ near < normal - allowed => r.errno = "ERANGE"
            /\ near \in normal + allowed .. largest - allowed => r.errno = ""
            /\ r.errno = "ERANGE" => r.value < normal \/ r.value = largest
=============================================================================
