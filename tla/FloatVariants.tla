---------------------------- MODULE FloatVariants ---------------------------
(***************************************************************************)
(* The float functions of src/math.c: most of them widen their operands,   *)
(* call the double function and pass the result through one conversion.    *)
(* D is the wide format, F the narrow one.                                 *)
(***************************************************************************)
EXTENDS Integers, TLC

CONSTANTS WIDE_EXPONENT, WIDE_FRACTION, NARROW_EXPONENT, NARROW_FRACTION

D == INSTANCE Floats WITH
       EXPONENT_BITS <- WIDE_EXPONENT, FRACTION_BITS <- WIDE_FRACTION, STEP <- 2^(WIDE_EXPONENT - 2),
       RANGE <- 2^(WIDE_EXPONENT + 2), LONG_BITS <- WIDE_FRACTION + 1, LLONG_BITS <- WIDE_FRACTION + 2
F == INSTANCE Floats WITH
       EXPONENT_BITS <- NARROW_EXPONENT, FRACTION_BITS <- NARROW_FRACTION, STEP <- 2^(NARROW_EXPONENT - 2),
       RANGE <- 2^(NARROW_EXPONENT + 2), LONG_BITS <- WIDE_FRACTION + 1, LLONG_BITS <- WIDE_FRACTION + 2

(* The processor's conversions.                                            *)
Widened(x) ==
  CASE F!wcrt_is_nan(x) -> D!wcrt_quiet_nan
    [] F!wcrt_is_infinite(x) -> D!wcrt_infinity + D!SignMask * F!Sign(x)
    [] OTHER -> D!Rounded(F!Sign(x), F!Size(F!Units(x)) * D!Scale, F!Scale, "nearest")
Narrowed(v, mode) ==
  CASE D!wcrt_is_nan(v) -> F!wcrt_quiet_nan
    [] D!wcrt_is_infinite(v) -> F!wcrt_infinity + F!SignMask * D!Sign(v)
    [] OTHER -> F!Rounded(D!Sign(v), D!Size(D!Units(v)) * F!Scale, D!Scale, mode)

(* o is what the double function gave and stored in errno.                 *)
wcrt_float_result(o, mode) ==
  LET converted == Narrowed(o.r, mode)
  IN IF ~D!wcrt_is_finite(o.r) THEN [o EXCEPT !.r = converted]
     ELSE IF D!Size(D!Units(o.r)) > D!Units(Widened(F!HUGE_VAL))
     THEN [o EXCEPT !.r = F!copysign(F!HUGE_VAL, converted), !.errno = "ERANGE"]
     ELSE [o EXCEPT !.r = converted,
                    !.errno = IF D!Units(o.r) # 0 /\ F!Magnitude(converted) = 0 THEN "ERANGE" ELSE @]

WCRT_UNARY_WRAPPERS(x, mode) ==
  LET v == Widened(x)
      f == [ceil |-> D!ceil(v), floor |-> D!floor(v), trunc |-> D!trunc(v), round |-> D!round(v),
            rint |-> D!rint(v, mode, FALSE).r, nearbyint |-> D!nearbyint(v, mode, FALSE).r]
  IN [name \in DOMAIN f |-> wcrt_float_result(D!Plain(f[name]), mode)]
logbf(x, mode) == wcrt_float_result(D!logb(Widened(x)), mode)
WCRT_BINARY_WRAPPERS(x, y, mode) ==
  LET v == Widened(x)
      w == Widened(y)
      f == [fmod |-> D!fmod(v, w), remainder |-> D!remainder(v, w, mode), fdim |-> D!fdim(v, w, mode),
            fmax |-> D!Plain(D!fmax(v, w)), fmin |-> D!Plain(D!fmin(v, w))]
  IN [name \in DOMAIN f |-> wcrt_float_result(f[name], mode)]
scalbnf(x, n, mode) == wcrt_float_result(D!wcrt_scalbn_core(Widened(x), n, mode), mode)
remquof(x, y, mode) == wcrt_float_result(D!remquo(Widened(x), Widened(y), mode), mode)
ilogbf(x) == D!ilogb(Widened(x))
IntegerConversions(x, mode) ==
  <<D!lrint(Widened(x), mode), D!llrint(Widened(x), mode), D!lround(Widened(x)), D!llround(Widened(x))>>

(* The direction is a double, which may lie between two floats.            *)
nexttowardf(x, direction, mode) ==
  IF D!Equal(Widened(x), direction) THEN F!Plain(Narrowed(direction, mode))
  ELSE F!nextafter(x, IF D!Less(Widened(x), direction) THEN F!wcrt_infinity ELSE F!Negated(F!wcrt_infinity))

(* fmaf adds as fma does, and rounds the exact sum to a float; its other   *)
(* cases are those of fma.                                                 *)
fmaf(x, y, z, mode) ==
  LET decoded(v) == D!wcrt_fma_decode(Widened(v))
      sum == D!wcrt_fma_finite_bits(decoded(x), decoded(y), decoded(z), mode)
  IN IF \A v \in {x, y, z} : F!wcrt_is_finite(v)
     THEN F!wcrt_fma_round(sum.n, D!WCRT_FMA_BASE_EXP, sum.negative, mode) ELSE F!fma(x, y, z, mode)

-----------------------------------------------------------------------------
Same(o, r) == IF F!wcrt_is_nan(r) THEN F!wcrt_is_nan(o.r) ELSE o.r = r

(* The detour through double gives what the operation in float gives, with *)
(* one rounding.                                                           *)
UnaryVariantsMatch(x, mode) ==
  LET u == WCRT_UNARY_WRAPPERS(x, mode)
  IN /\ Same(u.ceil, F!ceil(x)) /\ Same(u.floor, F!floor(x)) /\ Same(u.trunc, F!trunc(x)) /\ Same(u.round, F!round(x))
     /\ \A name \in {"rint", "nearbyint"} : Same(u[name], F!rint(x, mode, FALSE).r)
     /\ \A name \in DOMAIN u : u[name].errno = "none"
     /\ ilogbf(x) = F!ilogb(x) /\ Same(logbf(x, mode), F!logb(x).r)
     /\ LET c == IntegerConversions(x, mode)
            whole == <<F!rint(x, mode, FALSE).r, F!round(x)>>
        IN \A i \in 1..2 : /\ F!ConvertsTo(c[2 * i - 1], whole[i], WIDE_FRACTION + 1)
                           /\ F!ConvertsTo(c[2 * i], whole[i], WIDE_FRACTION + 2)
ScaledVariantMatches(x, n, mode) ==
  LET o == scalbnf(x, n, mode)
      e == F!Exact(x, n)
  IN IF ~F!wcrt_is_finite(x) \/ F!Magnitude(x) = 0 THEN Same(o, x)
     ELSE /\ F!RoundsTo(o.r, e[1], e[2], mode)
          /\ F!Size(e[1]) > F!Largest * e[2] \/ (F!Magnitude(o.r) = 0) => o.errno = "ERANGE"
BinaryVariantsMatch(x, y, mode) ==
  LET b == WCRT_BINARY_WRAPPERS(x, y, mode)
      r == remquof(x, y, mode)
      even == CHOOSE k \in -64..64 : LET left == F!Units(x) - k * F!Units(y)
                                     IN 2 * F!Size(left) < F!Size(F!Units(y)) \/ (2 * F!Size(left) = F!Size(F!Units(y)) /\ k % 2 = 0)
  IN /\ Same(b.fmod, F!fmod(x, y).r) /\ b.fmod.errno = F!fmod(x, y).errno
     /\ Same(b.fmax, F!fmax(x, y)) /\ Same(b.fmin, F!fmin(x, y))
     /\ F!Less(y, x) /\ F!wcrt_is_finite(x) /\ F!wcrt_is_finite(y) =>
          F!RoundsTo(b.fdim.r, F!Units(x) - F!Units(y), 1, mode)
     /\ mode = "nearest" /\ F!wcrt_is_finite(x) /\ F!wcrt_is_finite(y) /\ F!Magnitude(y) # 0 =>
          /\ F!Size(F!Units(x)) < 2^(WIDE_FRACTION - NARROW_FRACTION - 1) * F!Size(F!Units(y)) =>
               /\ F!Units(b.remainder.r) = F!Units(x) - even * F!Units(y) /\ r.r = b.remainder.r
               /\ F!Size(r.quotient) = F!Size(even) % 8 /\ r.quotient * even >= 0
NextTowardMatches(x, direction) ==
  LET o == nexttowardf(x, direction, "nearest")
  IN ~F!wcrt_is_nan(x) /\ ~D!wcrt_is_nan(direction) /\ ~D!Equal(Widened(x), direction) =>
       F!Place(o.r) = F!Place(x) + IF D!Less(Widened(x), direction) THEN 1 ELSE -1
=============================================================================
