--------------------------- MODULE KasonNumberRef ---------------------------
(***************************************************************************)
(* Conversions against the value that a number has on paper.               *)
(***************************************************************************)
EXTENDS KasonNumber, FiniteSets

Done == cached # NoResult
Digits(s) == {p \in DOMAIN s : is_digit(s[p])}
NumberOf(s, positions) ==
  LET value[p \in 0..Len(s)] ==
        CASE p = 0 -> 0
          [] p \in positions -> (value[p - 1] * 10) + (s[p] - ZERO)
          [] OTHER -> value[p - 1]
  IN  value[Len(s)]

ExponentAt(s) ==
  CHOOSE p \in 1..(Len(s) + 1) :
    /\ p = Len(s) + 1 \/ is_exponent(At(s, p))
    /\ \A q \in 1..(p - 1) : ~is_exponent(s[q])
PointAt(s) ==
  CHOOSE p \in 1..ExponentAt(s) :
    /\ p = ExponentAt(s) \/ s[p] = POINT
    /\ \A q \in 1..(p - 1) : s[q] # POINT
IsInteger(s) == PointAt(s) = Len(s) + 1
Signed(s, n) == IF s[1] = MINUS THEN -n ELSE n
IntegerOf(s) == Signed(s, NumberOf(s, Digits(s)))

(* The states of a parser accept what the grammar calls a number, and nothing else.    *)
StatesSpellNumbers ==
  Done => (is_valid_number(text) <=> kason_number_complete(state))

(* A number is converted to the integer it stands for when that is in      *)
(* range, to RANGE when it is not, at both ends of the range; "-0" is not  *)
(* unsigned.                                                               *)
Representable(to) ==
  IF to = "SIGNED" THEN (-INT64_MAX - 1)..INT64_MAX ELSE 0..UINT64_MAX
Fits(to, s) == IntegerOf(s) \in Representable(to) /\ (to = "UNSIGNED" => s[1] # MINUS)
IsExact(to, s, converted) ==
  IF IsInteger(s)
  THEN IF Fits(to, s) THEN converted = Converted(IntegerOf(s)) ELSE converted.result = "RANGE"
  ELSE converted.result \in {"ERROR", "RANGE"}
ParsedExactly ==
  Done /\ kind # "DOUBLE" /\ is_valid_number(text) => IsExact(kind, text, cached)

\* An int is the int64 it would be, or RANGE.
IntsAreExact ==
  ptr = 1 /\ kind = "SIGNED" /\ is_valid_number(text) /\ IsInteger(text) =>
    \A converted \in {kason_value_to_int(text)} :
      IF IntegerOf(text) \in (-INT_MAX - 1)..INT_MAX THEN converted = Converted(IntegerOf(text))
      ELSE converted.result = "RANGE"

\* What an accumulator gives is what the digits it was fed stand for.
Fed == IF accumulator.negative THEN -exact ELSE exact
ReadExactly ==
  kind # "DOUBLE" =>
    /\ cached.result = "SUCCESS" => cached.value = Fed /\ Fed \in Representable(kind)
    /\ cached.result = "RANGE" =>
         Fed \notin Representable(kind) \/ (kind = "UNSIGNED" /\ accumulator.negative)
IntegersAreExact == ParsedExactly /\ ReadExactly /\ IntsAreExact

(* Converted while it is parsed, or later from its slice, a text is or is  *)
(* not a number, and a number has the same value and the same error.       *)
ConvertedAlike ==
  Done /\ is_valid_number(text) =>
    cached = IF kind = "DOUBLE" THEN kason_value_to_double(text) ELSE kason_value_to(kind, text)
ConversionsAgree == StatesSpellNumbers /\ ConvertedAlike

-----------------------------------------------------------------------------
\* The digits of a number without point and leading zeros, as an integer,
\* and its power of ten.
Mantissa(s) == NumberOf(s, {p \in Digits(s) : p < ExponentAt(s)})
ExponentSign(s) == IF At(s, ExponentAt(s) + 1) = MINUS THEN -1 ELSE 1
FractionDigits(s) == Cardinality({p \in Digits(s) : p > PointAt(s) /\ p < ExponentAt(s)})
PowerOf(s) ==
  ExponentSign(s) * NumberOf(s, {p \in Digits(s) : p > ExponentAt(s)}) - FractionDigits(s)
Power[k \in Nat] == IF k = 0 THEN 1 ELSE 10 * Power[k - 1]
Length(n) == CHOOSE k \in 0..n : n < Power[k] /\ (k > 0 => n >= Power[k - 1])
Dropped(n) == IF Length(n) > SIGNIFICANT THEN Length(n) - SIGNIFICANT ELSE 0
Rounded(n) ==
  IF Dropped(n) = 0 THEN n ELSE (n + 5 * Power[Dropped(n) - 1]) \div Power[Dropped(n)]

RoundedDouble(negative, mantissa, power) ==
  IF mantissa = 0 THEN Zero(negative)
  ELSE strtod(negative, Rounded(mantissa), power + Dropped(mantissa))
DoubleOf(s) == RoundedDouble(s[1] = MINUS, Mantissa(s), PowerOf(s))
\* No count reached its cap.
Counted ==
  /\ accumulator.fraction_digits < CAP /\ accumulator.dropped_digits < CAP
  /\ accumulator.explicit_exponent < CAP

(* The decimal handed to strtod is the number rounded once, to SIGNIFICANT *)
(* digits, half up: digits that are dropped, before or after the point,    *)
(* still count for the exponent.                                           *)
DoublesAreRounded ==
  Done /\ kind = "DOUBLE" /\ is_valid_number(text) /\ Counted =>
    cached = DoubleOf(text)

(* No digit makes the significand or the magnitude exceed its 64 bits, and *)
(* neither does rounding up.                                               *)
WidthIsKept ==
  accumulator.magnitude <= UINT64_MAX /\ Significand(accumulator) <= UINT64_MAX
=============================================================================
