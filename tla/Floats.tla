------------------------------- MODULE Floats -------------------------------
(***************************************************************************)
(* The representation functions of src/math.c on one binary format.  A     *)
(* value is its encoding: a sign, EXPONENT_BITS of exponent and            *)
(* FRACTION_BITS of fraction, read as one number, as the unions of the     *)
(* code read it.  Every finite value is a whole number of units, the least *)
(* subnormal one, so sums are whole and products are in squared units.     *)
(*                                                                         *)
(* Every function takes and gives its errno as the code does: "none" when  *)
(* it stores nothing.  The processor's own operations are external.        *)
(***************************************************************************)
EXTENDS Integers, FiniteSets, TLC

CONSTANTS
  EXPONENT_BITS,   \* 11 for double, 8 for float
  FRACTION_BITS,   \* 52 for double, 23 for float
  STEP,            \* 512: the power of two wcrt_scalbn_core multiplies by at once
  RANGE,           \* 4096: the exponents beyond which it does not multiply
  LONG_BITS,       \* the width of a long
  LLONG_BITS       \* the width of a long long

Implicit == 2^FRACTION_BITS
Top == 2^EXPONENT_BITS - 1
Bias == 2^(EXPONENT_BITS - 1) - 1
SignMask == 2^(EXPONENT_BITS + FRACTION_BITS)
Encodings == 0..2 * SignMask - 1

Sign(x) == x \div SignMask
Magnitude(x) == x % SignMask
Exponent(x) == Magnitude(x) \div Implicit
Fraction(x) == x % Implicit

Zero == 0
HUGE_VAL == Top * Implicit - 1
wcrt_infinity == Top * Implicit
wcrt_quiet_nan == Top * Implicit + Implicit \div 2
Negated(x) == IF Sign(x) = 1 THEN x - SignMask ELSE x + SignMask

__wcrt_fpclassify(x) ==
  CASE Exponent(x) = Top -> IF Fraction(x) # 0 THEN "nan" ELSE "infinite"
    [] Exponent(x) = 0 -> IF Fraction(x) # 0 THEN "subnormal" ELSE "zero"
    [] OTHER -> "normal"
__wcrt_signbit(x) == Sign(x)
wcrt_is_nan(x) == __wcrt_fpclassify(x) = "nan"
wcrt_is_infinite(x) == __wcrt_fpclassify(x) = "infinite"
wcrt_is_finite(x) == __wcrt_fpclassify(x) \notin {"nan", "infinite"}
copysign(x, sign) == Magnitude(x) + Sign(sign) * SignMask
fabs(x) == Magnitude(x)

-----------------------------------------------------------------------------
(* What the processor does.  Units(x) is the value of a finite x.          *)
Signed(sign, n) == IF sign = 1 THEN -n ELSE n
Size(n) == IF n < 0 THEN -n ELSE n
Units(x) ==
  Signed(Sign(x), IF Exponent(x) = 0 THEN Fraction(x) ELSE (Implicit + Fraction(x)) * 2^(Exponent(x) - 1))
Ordinal(x) == IF wcrt_is_infinite(x) THEN Signed(Sign(x), 2^Top * Implicit) ELSE Units(x)
Less(x, y) == ~wcrt_is_nan(x) /\ ~wcrt_is_nan(y) /\ Ordinal(x) < Ordinal(y)
Equal(x, y) == ~wcrt_is_nan(x) /\ ~wcrt_is_nan(y) /\ Ordinal(x) = Ordinal(y)

(* The exponent of the least binade that holds n / d units.                *)
RECURSIVE Binade(_, _)
Binade(n, d) == IF n < 2 * Implicit * d THEN 0 ELSE 1 + Binade(n, 2 * d)
Up(sign, mode, odd, doubled, d) ==
  CASE mode = "nearest" -> doubled > d \/ (doubled = d /\ odd)
    [] mode = "upward" -> sign = 0 /\ doubled > 0
    [] mode = "downward" -> sign = 1 /\ doubled > 0
    [] mode = "zero" -> FALSE
(* n / d units rounded; past the largest value it is what the mode says.   *)
Rounded(sign, n, d, mode) ==
  LET b == Binade(n, d)
      q == n \div (d * 2^b)
      r == n - q * d * 2^b
      m == q + IF Up(sign, mode, q % 2 = 1, 2 * r, d * 2^b) THEN 1 ELSE 0
      bits == m + b * Implicit
  IN sign * SignMask +
     (IF bits < wcrt_infinity THEN bits
      ELSE IF Up(sign, mode, TRUE, 2, 2) THEN wcrt_infinity ELSE HUGE_VAL)
FromUnits(n, d, mode) == Rounded(IF n < 0 THEN 1 ELSE 0, Size(n), d, mode)
FromInteger(n) == FromUnits(n * 2^(Bias - 1) * Implicit, 1, "nearest")
Half == FromUnits(2^(Bias - 2) * Implicit, 1, "nearest")
One == FromInteger(1)

Product(sign) == (Sign(sign[1]) + Sign(sign[2])) % 2
Multiplied(x, y, mode) ==
  LET sign == Product(<<x, y>>)
  IN CASE wcrt_is_nan(x) \/ wcrt_is_nan(y) -> wcrt_quiet_nan
       [] wcrt_is_infinite(x) \/ wcrt_is_infinite(y) ->
            IF Magnitude(x) = 0 \/ Magnitude(y) = 0 THEN wcrt_quiet_nan ELSE wcrt_infinity + sign * SignMask
       [] OTHER -> Rounded(sign, Size(Units(x)) * Size(Units(y)), 2^(Bias - 1) * Implicit, mode)
Divided(x, y, mode) ==
  LET sign == Product(<<x, y>>)
  IN CASE wcrt_is_nan(x) \/ wcrt_is_nan(y) -> wcrt_quiet_nan
       [] wcrt_is_infinite(x) -> IF wcrt_is_infinite(y) THEN wcrt_quiet_nan ELSE wcrt_infinity + sign * SignMask
       [] wcrt_is_infinite(y) -> sign * SignMask
       [] Magnitude(y) = 0 -> IF Magnitude(x) = 0 THEN wcrt_quiet_nan ELSE wcrt_infinity + sign * SignMask
       [] OTHER -> Rounded(sign, Size(Units(x)) * 2^(Bias - 1) * Implicit, Size(Units(y)), mode)
Added(x, y, mode) ==
  CASE wcrt_is_nan(x) \/ wcrt_is_nan(y) -> wcrt_quiet_nan
    [] wcrt_is_infinite(x) -> IF wcrt_is_infinite(y) /\ x # y THEN wcrt_quiet_nan ELSE x
    [] wcrt_is_infinite(y) -> y
    [] Units(x) + Units(y) = 0 -> IF Sign(x) = Sign(y) THEN Sign(x) * SignMask
                                  ELSE IF mode = "downward" THEN SignMask ELSE Zero
    [] OTHER -> FromUnits(Units(x) + Units(y), 1, mode)
Subtracted(x, y, mode) == Added(x, Negated(y), mode)

-----------------------------------------------------------------------------
Gives(r, errno) == [r |-> r, errno |-> errno]
Plain(r) == Gives(r, "none")

(* The comparison macros behind isgreater and its kin.                     *)
Ordered(x, y) == ~(wcrt_is_nan(x) \/ wcrt_is_nan(y))
Compared(x, y) ==
  [greater |-> Ordered(x, y) /\ Less(y, x), greaterequal |-> Ordered(x, y) /\ (Less(y, x) \/ Equal(x, y)),
   less |-> Ordered(x, y) /\ Less(x, y), lessequal |-> Ordered(x, y) /\ (Less(x, y) \/ Equal(x, y)),
   lessgreater |-> Ordered(x, y) /\ (Less(x, y) \/ Less(y, x)), unordered |-> ~Ordered(x, y)]

nextafter(x, direction) ==
  IF ~Ordered(x, direction) THEN Plain(wcrt_quiet_nan)
  ELSE IF Equal(x, direction) THEN Plain(direction)
  ELSE LET next == CASE Magnitude(x) = 0 -> Sign(direction) * SignMask + 1
                     [] Magnitude(x) # 0 /\ Less(Zero, x) = Less(x, direction) -> x + 1
                     [] OTHER -> x - 1
       IN Gives(next, IF __wcrt_fpclassify(next) = "normal" THEN "none" ELSE "ERANGE")

(* The part after the point and, in *integer_part, the part before it.     *)
modf(x) ==
  LET e == Exponent(x) - Bias
      mask == 2^(FRACTION_BITS - e)
      integral == x - (x % mask)
  IN CASE Exponent(x) = Top -> [r |-> IF wcrt_is_nan(x) THEN x ELSE copysign(Zero, x), whole |-> x]
       [] e < 0 -> [r |-> x, whole |-> copysign(Zero, x)]
       [] e >= FRACTION_BITS \/ x % mask = 0 -> [r |-> copysign(Zero, x), whole |-> x]
       [] OTHER -> [r |-> Subtracted(x, integral, "nearest"), whole |-> integral]

IsWhole(x) == ~wcrt_is_finite(x) \/ Magnitude(x) = 0
floor(x) ==
  IF IsWhole(x) THEN x
  ELSE IF Less(modf(x).r, Zero) THEN Subtracted(modf(x).whole, One, "nearest") ELSE modf(x).whole
ceil(x) ==
  IF IsWhole(x) THEN x
  ELSE IF Less(Zero, modf(x).r) THEN Added(modf(x).whole, One, "nearest") ELSE modf(x).whole
trunc(x) == IF IsWhole(x) THEN x ELSE modf(x).whole
round(x) ==
  IF IsWhole(x) THEN x
  ELSE LET f == modf(x)
       IN CASE ~Less(f.r, Half) -> Added(f.whole, One, "nearest")
            [] ~Less(Negated(Half), f.r) -> Subtracted(f.whole, One, "nearest")
            [] OTHER -> f.whole

-----------------------------------------------------------------------------
(* The significand with its leading bit in the place of the implicit one,  *)
(* and the exponent that goes with it.                                     *)
RECURSIVE Shifted(_, _)
Shifted(m, e) == IF m >= Implicit THEN [m |-> m, e |-> e] ELSE Shifted(2 * m, e - 1)
Normalized(x) ==
  IF Exponent(x) = 0 THEN Shifted(Fraction(x), 1) ELSE [m |-> Implicit + Fraction(x), e |-> Exponent(x)]

(* Long division: what is left of m, of exponent e, after d, of exponent f.*)
RECURSIVE Reduced(_, _, _, _)
Reduced(m, e, d, f) ==
  LET left == IF m >= d THEN m - d ELSE m
  IN IF left = 0 THEN 0
     ELSE IF e > f THEN Reduced(2 * left, e - 1, d, f) ELSE left
fmod(x, y) ==
  LET n == Normalized(Magnitude(x))
      d == Normalized(Magnitude(y))
      left == Reduced(n.m, n.e, d.m, d.e)
      r == Shifted(left, d.e)
  IN CASE ~Ordered(x, y) -> Plain(wcrt_quiet_nan)
       [] Ordered(x, y) /\ (Magnitude(y) = 0 \/ wcrt_is_infinite(x)) -> Gives(Zero, "EDOM")
       [] wcrt_is_finite(x) /\ Ordered(x, y) /\ Magnitude(y) # 0 ->
            Plain(IF wcrt_is_infinite(y) \/ Magnitude(x) < Magnitude(y) THEN x
                  ELSE copysign(IF left = 0 THEN Zero
                                ELSE IF r.e > 0 THEN r.m - Implicit + r.e * Implicit
                                ELSE r.m \div 2^(1 - r.e), x))

(* rint and nearbyint take the processor's inexact flag and give it back.  *)
wcrt_round_even(x) ==
  IF IsWhole(x) THEN x
  ELSE LET f == modf(x)
       IN IF Less(Half, fabs(f.r)) \/ (fabs(f.r) = Half /\ fmod(fabs(f.whole), FromInteger(2)).r = One)
          THEN Added(f.whole, IF Less(f.r, Zero) THEN Negated(One) ELSE One, "nearest") ELSE f.whole
wcrt_round_mode(x, mode) ==
  CASE mode = "downward" -> floor(x)
    [] mode = "upward" -> ceil(x)
    [] mode = "zero" -> trunc(x)
    [] OTHER -> wcrt_round_even(x)
rint(x, mode, inexact) ==
  LET r == wcrt_round_mode(x, mode)
  IN [r |-> r, inexact |-> inexact \/ (wcrt_is_finite(x) /\ ~Equal(r, x))]
nearbyint(x, mode, inexact) == [r |-> wcrt_round_mode(x, mode), inexact |-> inexact]

(* rounded is out of range or not, as each of the two tests it; a value    *)
(* that is a NaN is not below zero, so it gives the largest.               *)
ToInteger(x) == Signed(Sign(x), Size(Units(x)) \div (2^(Bias - 1) * Implicit))
Converted(rounded, outside, bits) ==
  IF wcrt_is_nan(rounded) \/ outside
  THEN Gives(IF Less(rounded, Zero) THEN -2^(bits - 1) ELSE 2^(bits - 1) - 1, "EDOM")
  ELSE Plain(ToInteger(rounded))
wcrt_to_long(rounded) ==
  Converted(rounded, \/ Less(FromInteger(2^(LONG_BITS - 1) - 1), rounded)
                     \/ Less(rounded, FromInteger(-2^(LONG_BITS - 1))), LONG_BITS)
wcrt_to_long_long(rounded) ==
  Converted(rounded, \/ ~Less(rounded, FromInteger(2^(LLONG_BITS - 1)))
                     \/ Less(rounded, FromInteger(-2^(LLONG_BITS - 1))), LLONG_BITS)
lrint(x, mode) == wcrt_to_long(wcrt_round_mode(x, mode))
llrint(x, mode) == wcrt_to_long_long(wcrt_round_mode(x, mode))
lround(x) == wcrt_to_long(round(x))
llround(x) == wcrt_to_long_long(round(x))

frexp(x) ==
  LET scaled == IF Exponent(x) = 0 THEN Multiplied(x, FromInteger(4 * Implicit), "nearest") ELSE x
      back == IF Exponent(x) = 0 THEN FRACTION_BITS + 2 ELSE 0
  IN IF Magnitude(x) = 0 \/ Exponent(x) = Top THEN [r |-> x, exponent |-> 0]
     ELSE [r |-> Sign(x) * SignMask + (Bias - 1) * Implicit + Fraction(scaled),
           exponent |-> Exponent(scaled) - (Bias - 1) - back]

(* value * 2^exponent by steps of 2^STEP; every step rounds.  An infinity  *)
(* on the way becomes HUGE_VAL and a zero on the way ends it.              *)
PowerOfTwo(n) == (n + Bias) * Implicit
Overflowed(x) == Gives(copysign(HUGE_VAL, x), "ERANGE")
RECURSIVE Scaled(_, _, _, _)
Scaled(x, result, exponent, mode) ==
  IF exponent > STEP
  THEN LET next == Multiplied(result, PowerOfTwo(STEP), mode)
       IN IF wcrt_is_infinite(next) THEN Overflowed(x) ELSE Scaled(x, next, exponent - STEP, mode)
  ELSE IF exponent < -STEP
  THEN LET next == Multiplied(result, PowerOfTwo(-STEP), mode)
       IN IF Magnitude(next) = 0 THEN Gives(copysign(Zero, x), "ERANGE")
          ELSE Scaled(x, next, exponent + STEP, mode)
  ELSE LET last == Multiplied(result, PowerOfTwo(exponent), mode)
       IN IF wcrt_is_infinite(last) THEN Overflowed(x)
          ELSE Gives(last, IF __wcrt_fpclassify(last) \in {"subnormal", "zero"} THEN "ERANGE" ELSE "none")
wcrt_scalbn_core(x, exponent, mode) ==
  IF IsWhole(x) THEN Plain(x)
  ELSE IF exponent > RANGE THEN Overflowed(x)
  ELSE IF exponent < -RANGE THEN Gives(copysign(Zero, x), "ERANGE")
  ELSE Scaled(x, x, exponent, mode)

FP_ILOGB0 == -2^(LLONG_BITS - 1)
FP_ILOGBNAN == FP_ILOGB0
GreatestInt == 2^(LLONG_BITS - 1) - 1
ilogb(x) ==
  CASE __wcrt_fpclassify(x) = "zero" -> Gives(FP_ILOGB0, "EDOM")
    [] __wcrt_fpclassify(x) = "nan" -> Gives(FP_ILOGBNAN, "EDOM")
    [] __wcrt_fpclassify(x) = "infinite" -> Plain(GreatestInt)
    [] OTHER -> Plain(frexp(x).exponent - 1)
logb(x) ==
  CASE __wcrt_fpclassify(x) = "zero" -> Gives(Negated(wcrt_infinity), "ERANGE")
    [] __wcrt_fpclassify(x) = "nan" -> Plain(x)
    [] __wcrt_fpclassify(x) = "infinite" -> Plain(wcrt_infinity)
    [] OTHER -> Plain(FromInteger(ilogb(x).r))

-----------------------------------------------------------------------------
(* The quotient is rounded before it is made whole.                        *)
Nearest(x, y, mode) == wcrt_round_even(Divided(x, y, mode))
LessMultiple(x, y, nearest, mode) == Plain(Subtracted(x, Multiplied(nearest, y, mode), mode))
remainder(x, y, mode) ==
  IF ~Ordered(x, y) THEN Plain(wcrt_quiet_nan)
  ELSE IF Magnitude(y) = 0 \/ wcrt_is_infinite(x) THEN Gives(wcrt_quiet_nan, "EDOM")
  ELSE IF wcrt_is_infinite(y) THEN Plain(x)
  ELSE LessMultiple(x, y, Nearest(x, y, mode), mode)
remquo(x, y, mode) ==
  IF Magnitude(y) = 0 \/ wcrt_is_infinite(x) \/ ~Ordered(x, y)
  THEN remainder(x, y, mode) @@ [quotient |-> 0]
  ELSE LET nearest == Nearest(x, y, mode)
           low == ToInteger(fmod(fabs(nearest), FromInteger(8)).r)
       IN LessMultiple(x, y, nearest, mode) @@ [quotient |-> IF Less(nearest, Zero) THEN -low ELSE low]

fmax(x, y) ==
  CASE wcrt_is_nan(x) -> y
    [] Less(x, y) -> y
    [] Magnitude(x) = 0 /\ Equal(x, y) /\ Sign(x) = 1 -> y
    [] OTHER -> x
fmin(x, y) ==
  CASE wcrt_is_nan(x) -> y
    [] Less(y, x) -> y
    [] Magnitude(x) = 0 /\ Equal(x, y) /\ Sign(x) = 0 -> y
    [] OTHER -> x
fdim(x, y, mode) ==
  IF ~Ordered(x, y) THEN Plain(wcrt_quiet_nan)
  ELSE IF ~Less(y, x) THEN Plain(Zero)
  ELSE LET r == Subtracted(x, y, mode)
       IN Gives(r, IF wcrt_is_infinite(r) /\ wcrt_is_finite(x) /\ wcrt_is_finite(y) THEN "ERANGE" ELSE "none")

-----------------------------------------------------------------------------
(* fma adds in whole numbers.  The array of words is the number it holds,  *)
(* in units of 2^WCRT_FMA_BASE_EXP: the square of the least subnormal.     *)
wcrt_fma_decode(x) ==
  [negative |-> Sign(x) = 1, zero |-> Magnitude(x) = 0, infinite |-> wcrt_is_infinite(x),
   not_a_number |-> wcrt_is_nan(x),
   significand |-> Fraction(x) + IF Exponent(x) = 0 THEN 0 ELSE Implicit,
   exponent |-> (IF Exponent(x) = 0 THEN 1 ELSE Exponent(x)) - Bias - FRACTION_BITS]
LeastExponent == 1 - Bias - FRACTION_BITS
WCRT_FMA_BASE_EXP == 2 * LeastExponent
wcrt_fma_add_operand(o) == o.significand * 2^(o.exponent - WCRT_FMA_BASE_EXP)
wcrt_fma_product(l, m) == l.significand * m.significand * 2^(l.exponent + m.exponent - WCRT_FMA_BASE_EXP)
RECURSIVE wcrt_fma_high_bit(_)
wcrt_fma_high_bit(n) == IF n = 0 THEN -1 ELSE 1 + wcrt_fma_high_bit(n \div 2)
Bit(n, i) == IF i < 0 THEN 0 ELSE (n \div 2^i) % 2
AnyBelow(n, i) == i > 0 /\ n % 2^i # 0

(* Mutation of wcrt_fma_round_up: a tie always goes up.                    *)
RoundUpTies(n, cutoff, retained, negative, mode) ==
  /\ AnyBelow(n, cutoff)
  /\ CASE mode = "upward" -> ~negative
       [] mode = "downward" -> negative
       [] mode = "zero" -> FALSE
       [] OTHER -> Bit(n, cutoff - 1) = 1

wcrt_fma_round_up(n, cutoff, retained, negative, mode) ==
  /\ AnyBelow(n, cutoff)
  /\ CASE mode = "upward" -> ~negative
       [] mode = "downward" -> negative
       [] mode = "zero" -> FALSE
       [] OTHER -> Bit(n, cutoff - 1) = 1 /\ (AnyBelow(n, cutoff - 1) \/ retained % 2 = 1)

(* The rounding of n * 2^base to this format: below its normal exponents   *)
(* the retained bits are the encoding, and past them it is the largest     *)
(* value.                                                                  *)
wcrt_fma_round(n, base, negative, mode) ==
  LET high == wcrt_fma_high_bit(n)
      least == 1 - Bias
      most == Bias
      e == base + high
      signed(bits) == bits + IF negative THEN SignMask ELSE 0
      underflow == e < least
      cutoff == IF underflow THEN least - FRACTION_BITS - base ELSE high - FRACTION_BITS
      kept == IF high < cutoff THEN 0 ELSE IF cutoff >= 0 THEN n \div 2^cutoff ELSE n * 2^(-cutoff)
      retained == kept + IF wcrt_fma_round_up(n, cutoff, kept, negative, mode) THEN 1 ELSE 0
      carried == retained = 2 * Implicit
      exponent == IF carried THEN e + 1 ELSE e
  IN CASE high < 0 -> Plain(signed(0))
       [] high >= 0 /\ e > most -> Gives(signed(HUGE_VAL), "ERANGE")
       [] high >= 0 /\ underflow -> Gives(signed(retained), "ERANGE")
       [] high >= 0 /\ ~underflow /\ e <= most /\ exponent > most -> Gives(signed(HUGE_VAL), "ERANGE")
       [] OTHER -> Plain(signed((exponent + Bias) * Implicit + (IF carried THEN 0 ELSE retained - Implicit)))

(* The exact sum, and its sign.                                            *)
wcrt_fma_finite_bits(l, m, a, mode) ==
  LET product == wcrt_fma_product(l, m)
      addend == wcrt_fma_add_operand(a)
      negative == l.negative # m.negative
  IN CASE negative = a.negative -> [n |-> product + addend, negative |-> negative]
       [] negative # a.negative /\ product > addend -> [n |-> product - addend, negative |-> negative]
       [] negative # a.negative /\ product < addend -> [n |-> addend - product, negative |-> a.negative]
       [] OTHER -> [n |-> 0, negative |-> mode = "downward"]

fma(x, y, z, mode) ==
  LET l == wcrt_fma_decode(x)
      m == wcrt_fma_decode(y)
      a == wcrt_fma_decode(z)
      negative == l.negative # m.negative
  IN IF l.not_a_number \/ m.not_a_number \/ a.not_a_number THEN Plain(wcrt_quiet_nan)
     ELSE IF (l.infinite /\ m.zero) \/ (m.infinite /\ l.zero) THEN Gives(wcrt_quiet_nan, "EDOM")
     ELSE IF l.infinite \/ m.infinite
     THEN IF a.infinite /\ negative # a.negative THEN Gives(wcrt_quiet_nan, "EDOM")
          ELSE Plain(wcrt_infinity + IF negative THEN SignMask ELSE 0)
     ELSE IF a.infinite THEN Plain(z)
     ELSE LET sum == wcrt_fma_finite_bits(l, m, a, mode)
          IN wcrt_fma_round(sum.n, WCRT_FMA_BASE_EXP, sum.negative, mode)

-----------------------------------------------------------------------------
(* What the representation functions promise, in exact rationals: values   *)
(* are whole numbers of units, and One is Scale of them.                   *)

Finite == {x \in Encodings : wcrt_is_finite(x)}
Scale == Units(One)
Largest == Units(HUGE_VAL)
LeastNormal == Implicit
Modes == {"nearest", "upward", "downward", "zero"}
SameSign(x, y) == Sign(x) = Sign(y)

(* r is the finite value that n / d units round to in the mode, the        *)
(* largest one past the end of the range; a tie goes to the even fraction. *)
Distance(x, n, d) == Size(Units(x) * d - n)
RoundsTo(r, n, d, mode) ==
  LET beyond(x) == CASE mode = "nearest" -> TRUE
                     [] mode = "upward" -> Units(x) * d >= n \/ Units(x) = Largest
                     [] mode = "downward" -> Units(x) * d =< n \/ Units(x) = -Largest
                     [] mode = "zero" -> Size(Units(x)) * d =< Size(n)
  IN /\ wcrt_is_finite(r) /\ beyond(r)
     /\ n # 0 => Sign(r) = IF n < 0 THEN 1 ELSE 0
     /\ n = 0 => Units(r) = 0
     /\ \A m \in {Magnitude(r) - 1, Magnitude(r) + 1} \cap 0..HUGE_VAL :
          beyond(copysign(m, r)) =>
            \/ Distance(copysign(m, r), n, d) > Distance(r, n, d)
            \/ Distance(copysign(m, r), n, d) = Distance(r, n, d) /\ Fraction(r) % 2 = 0

(* The first size, in units, that the mode carries past the largest value. *)
Overflows(n, d, mode) ==
  LET gap == 2^(Top - 2)
  IN CASE mode = "nearest" -> 2 * Size(n) >= (2 * Largest + gap) * d
       [] (mode = "upward" /\ n > 0) \/ (mode = "downward" /\ n < 0) -> Size(n) > Largest * d
       [] OTHER -> Size(n) >= (Largest + gap) * d
-----------------------------------------------------------------------------
(* One operand.                                                            *)
SplitMatches(x) ==
  LET whole == modf(x).whole
      part == modf(x).r
      f == frexp(x)
  IN /\ wcrt_is_finite(x) =>
          /\ Units(whole) + Units(part) = Units(x) /\ Units(whole) % Scale = 0 /\ Size(Units(part)) < Scale
          /\ SameSign(whole, x) /\ SameSign(part, x)
     /\ wcrt_is_infinite(x) => whole = x /\ part = copysign(Zero, x)
     /\ ~wcrt_is_finite(x) \/ Magnitude(x) = 0 => f = [r |-> x, exponent |-> 0]
     /\ wcrt_is_finite(x) /\ Magnitude(x) # 0 =>
          /\ SameSign(f.r, x) /\ 2 * Size(Units(f.r)) \in Scale..2 * Scale - 1
          /\ Units(f.r) * 2^(f.exponent + Bias + FRACTION_BITS) = Units(x) * 2^(Bias + FRACTION_BITS)
          /\ ilogb(x) = Plain(f.exponent - 1)
          /\ Units(logb(x).r) = (f.exponent - 1) * Scale /\ logb(x).errno = "none"
     /\ Magnitude(x) = 0 => ilogb(x).errno = "EDOM" /\ logb(x) = Gives(Negated(wcrt_infinity), "ERANGE")

(* i is x to a whole number in the direction, or to the nearest one; a tie *)
(* goes to the even one, or away from zero.                                *)
WholeOf(i, x, direction) ==
  LET n == Units(i) \div Scale
      left == Units(x) - n * Scale
  IN /\ Units(i) % Scale = 0 /\ SameSign(i, x)
     /\ CASE direction = "downward" -> left \in 0..Scale - 1
          [] direction = "upward" -> left \in 1 - Scale..0
          [] direction = "zero" -> Size(left) < Scale /\ Size(Units(i)) =< Size(Units(x))
          [] direction = "nearest" -> 2 * Size(left) < Scale \/ (2 * Size(left) = Scale /\ n % 2 = 0)
          [] direction = "away" -> 2 * Size(left) < Scale \/ (2 * Size(left) = Scale /\ Size(Units(i)) > Size(Units(x)))
ConvertsTo(o, i, bits) ==
  LET n == Units(i) \div Scale
      least == -2^(bits - 1)
  IN IF wcrt_is_finite(i) /\ n \in least..-least - 1 THEN o = Plain(n)
     ELSE o = Gives(IF Less(i, Zero) THEN least ELSE -least - 1, "EDOM")
IntegralMatches(x) ==
  /\ wcrt_is_finite(x) =>
       /\ WholeOf(floor(x), x, "downward") /\ WholeOf(ceil(x), x, "upward")
       /\ WholeOf(trunc(x), x, "zero") /\ WholeOf(round(x), x, "away")
       /\ \A mode \in Modes, raised \in BOOLEAN :
            LET exact == Units(rint(x, mode, raised).r) = Units(x)
            IN /\ WholeOf(rint(x, mode, raised).r, x, mode)
               /\ rint(x, mode, raised).inexact = (raised \/ ~exact)
               /\ nearbyint(x, mode, raised) = [r |-> rint(x, mode, raised).r, inexact |-> raised]
  /\ ~wcrt_is_finite(x) => \A mode \in Modes : {floor(x), ceil(x), trunc(x), round(x), rint(x, mode, FALSE).r} = {x}
  /\ ConvertsTo(lround(x), round(x), LONG_BITS) /\ ConvertsTo(llround(x), round(x), LLONG_BITS)
  /\ \A mode \in Modes : /\ ConvertsTo(lrint(x, mode), rint(x, mode, FALSE).r, LONG_BITS)
                         /\ ConvertsTo(llrint(x, mode), rint(x, mode, FALSE).r, LLONG_BITS)

(* x * 2^n: exact where the result is normal, the largest value past the   *)
(* end, which is told unless the mode stops there by itself, and otherwise *)
(* next to the exact one.                                                  *)
Exact(x, n) == IF n < 0 THEN <<Units(x), 2^(-n)>> ELSE <<Units(x) * 2^n, 1>>
ScaleMatches(x, n, mode) ==
  LET o == wcrt_scalbn_core(x, n, mode)
      e == Exact(x, n)
  IN IF ~wcrt_is_finite(x) \/ Magnitude(x) = 0 THEN o = Plain(x)
     ELSE /\ SameSign(o.r, x)
          /\ CASE Size(e[1]) > Largest * e[2] ->
                    o.r = copysign(HUGE_VAL, x) /\ (Up(Sign(x), mode, TRUE, 2, 2) => o.errno = "ERANGE")
               [] Size(e[1]) =< Largest * e[2] /\ Size(e[1]) >= LeastNormal * e[2] ->
                    Units(o.r) * e[2] = e[1] /\ o.errno = "none"
               [] OTHER -> Distance(o.r, e[1], e[2]) =< e[2] /\ Size(Units(o.r)) =< LeastNormal

-----------------------------------------------------------------------------
(* Two operands.                                                           *)
Place(x) == Signed(Sign(x), Magnitude(x))
NextMatches(x, y) ==
  LET o == nextafter(x, y)
  IN IF ~Ordered(x, y) THEN wcrt_is_nan(o.r) /\ o.errno = "none"
     ELSE IF Equal(x, y) THEN o = Plain(y)
     ELSE /\ Place(o.r) = Place(x) + IF Less(x, y) THEN 1 ELSE -1
          /\ Magnitude(o.r) = 0 => SameSign(o.r, x)
          /\ Less(x, y) => Less(x, o.r) /\ ~Less(y, o.r)
          /\ Less(y, x) => Less(o.r, x) /\ ~Less(o.r, y)
          /\ o.errno = "ERANGE" <=> __wcrt_fpclassify(o.r) # "normal"

FmodMatches(x, y) ==
  LET o == fmod(x, y)
      size == Size(Units(x)) % Size(Units(y))
  IN CASE ~Ordered(x, y) -> wcrt_is_nan(o.r)
       [] Ordered(x, y) /\ (Magnitude(y) = 0 \/ wcrt_is_infinite(x)) -> o = Gives(Zero, "EDOM")
       [] wcrt_is_finite(x) /\ wcrt_is_infinite(y) -> o = Plain(x)
       [] OTHER -> o.errno = "none" /\ SameSign(o.r, x) /\ Size(Units(o.r)) = size

(* The quotient is near a whole number k that is at most half of one, and  *)
(* an error of rounding, away; the remainder is what that k leaves.        *)
RemainderMatches(x, y) ==
  LET o == remquo(x, y, "nearest")
      q == Divided(x, y, "nearest")
      k == Units(wcrt_round_even(q)) \div Scale
      left == Units(x) - k * Units(y)
  IN /\ wcrt_is_finite(x) /\ wcrt_is_infinite(y) => remainder(x, y, "nearest") = Plain(x)
     /\ ~wcrt_is_infinite(y) => remainder(x, y, "nearest") = Gives(o.r, o.errno)
     /\ wcrt_is_finite(x) /\ wcrt_is_finite(y) /\ Magnitude(y) # 0 /\ wcrt_is_finite(q) =>
          /\ Size(o.quotient) = Size(k) % 8 /\ o.quotient * k >= 0
          /\ Size(k) < Implicit /\ Size(k * Units(y)) =< Largest =>
               2 * Size(left) * Implicit =< Size(Units(y)) * (Implicit + Size(k) + 1)

ExtremesMatch(x, y) ==
  LET c == Compared(x, y)
      among == {z \in {x, y} : ~wcrt_is_nan(z)}
  IN /\ among # {} =>
          /\ fmax(x, y) \in among /\ \A z \in among : Ordinal(z) =< Ordinal(fmax(x, y))
          /\ fmin(x, y) \in among /\ \A z \in among : Ordinal(fmin(x, y)) =< Ordinal(z)
          /\ x \in among /\ y \in among => {fmax(x, y), fmin(x, y)} = {x, y}
     /\ Cardinality({f \in {"less", "greater", "unordered"} : c[f]}) = IF Equal(x, y) THEN 0 ELSE 1
     /\ c.lessequal = (c.less \/ Equal(x, y)) /\ c.greaterequal = (c.greater \/ Equal(x, y))
     /\ c.lessgreater = (c.less \/ c.greater)
     /\ \A mode \in Modes : LET d == fdim(x, y, mode)
        IN IF ~Ordered(x, y) THEN wcrt_is_nan(d.r)
           ELSE IF ~Less(y, x) THEN d = Plain(Zero)
           ELSE IF wcrt_is_infinite(d.r)
           THEN (d.errno = "ERANGE") = (wcrt_is_finite(x) /\ wcrt_is_finite(y))
           ELSE d.errno = "none" /\ RoundsTo(d.r, Units(x) - Units(y), 1, mode)

(* Three operands: one rounding of the exact sum; a range error is told    *)
(* for a sum below the normal values and for one past the largest, which   *)
(* is given in its place whatever the direction.                           *)
FmaMatches(x, y, z, mode) ==
  LET o == fma(x, y, z, mode)
      n == Units(x) * Units(y) + Units(z) * Scale
      negative == ~SameSign(x, y)
      infinite == wcrt_is_infinite(x) \/ wcrt_is_infinite(y)
  IN CASE wcrt_is_nan(x) \/ wcrt_is_nan(y) \/ wcrt_is_nan(z) -> wcrt_is_nan(o.r) /\ o.errno = "none"
       [] ~wcrt_is_nan(z) /\ Ordered(x, y) /\ infinite ->
            IF 0 \in {Magnitude(x), Magnitude(y)} \/ (wcrt_is_infinite(z) /\ negative # (Sign(z) = 1))
            THEN wcrt_is_nan(o.r) /\ o.errno = "EDOM"
            ELSE wcrt_is_infinite(o.r) /\ negative = (Sign(o.r) = 1) /\ o.errno = "none"
       [] wcrt_is_infinite(z) /\ Ordered(x, y) /\ ~infinite -> o = Plain(z)
       [] OTHER ->
            /\ RoundsTo(o.r, n, Scale, mode)
            /\ n = 0 => (Sign(o.r) = 1) = IF negative = (Sign(z) = 1) THEN negative ELSE mode = "downward"
            /\ o.errno = "ERANGE" <=> n # 0 /\ (Size(n) < LeastNormal * Scale \/ Overflows(n, Scale, mode))
=============================================================================
