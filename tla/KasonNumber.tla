---------------------------- MODULE KasonNumber ----------------------------
(***************************************************************************)
(* Numbers.  A number is read one byte at a time through the states of     *)
(* kason_number_next, and an accumulator takes its value on the way, so    *)
(* that a selected field is converted while it is parsed.  The functions   *)
(* kason_value_to_* convert a slice that was captured before.              *)
(*                                                                         *)
(* The widths are constants.  A double is the decimal that is handed to    *)
(* strtod: a sign, a significand and an exponent of ten.                   *)
(***************************************************************************)
EXTENDS KasonText

CONSTANTS
  Texts,         \* slices a number is looked for in
  UINT64_MAX, INT64_MAX, INT_MAX,
  SIGNIFICANT,   \* digits a significand holds (19)
  CAP,           \* where digits and exponents are no longer counted (1000000)
  DBL_EXP        \* greatest decimal exponent of a double

ASSUME TextsAssumption == Texts \subseteq Seq(Byte)
ASSUME WidthAssumption ==
  /\ UINT64_MAX \in Nat /\ INT64_MAX \in Nat /\ INT_MAX \in Nat
  /\ INT_MAX <= INT64_MAX /\ INT64_MAX < UINT64_MAX /\ UINT64_MAX >= 9
ASSUME DoubleAssumption == SIGNIFICANT \in Nat /\ CAP \in Nat /\ DBL_EXP \in Nat
\* SIGNIFICANT digits fit in the significand.
ASSUME SignificandAssumption == 10^SIGNIFICANT <= UINT64_MAX
\* Arithmetic: what powers of ten are, as far as a significand reaches.
ASSUME PowersAssumption ==
  /\ \A n \in 0..SIGNIFICANT : 10^n \in Nat /\ 10^n <= 10^SIGNIFICANT
  /\ \A n \in 0..(SIGNIFICANT - 1) : 10^(n + 1) = 10 * 10^n

VARIABLES
  text, kind,
  ptr,           \* the next byte
  state,         \* kason_number_state
  accumulator,
  cached,        \* kason_cached_number, NONE before the end
  exact          \* history: the value of the digits before a point or exponent

numberVars == <<text, kind, ptr, state, accumulator, cached, exact>>

Kinds == {"SIGNED", "UNSIGNED", "DOUBLE"}

-----------------------------------------------------------------------------
(***************************************************************************)
(* kason_number_begin and kason_number_next.                               *)
(***************************************************************************)
is_positive_digit(c) == c \in 49..57
kason_number_begin(c) ==
  CASE c = MINUS -> "SIGN" [] c = ZERO -> "ZERO"
    [] is_positive_digit(c) -> "INTEGER" [] OTHER -> "INVALID"
AfterInteger(c) ==
  CASE c = POINT -> "DECIMAL_POINT" [] is_exponent(c) -> "EXPONENT_MARK"
    [] OTHER -> "INVALID"
DigitOr(c, digit, otherwise) == IF is_digit(c) THEN digit ELSE otherwise
kason_number_next(from, c) ==
  CASE from = "SIGN" -> IF c = MINUS THEN "INVALID" ELSE kason_number_begin(c)
    [] from = "ZERO" -> AfterInteger(c)
    [] from = "INTEGER" -> DigitOr(c, "INTEGER", AfterInteger(c))
    [] from = "DECIMAL_POINT" -> DigitOr(c, "FRACTION", "INVALID")
    [] from = "FRACTION" ->
         DigitOr(c, "FRACTION", IF is_exponent(c) THEN "EXPONENT_MARK" ELSE "INVALID")
    [] from = "EXPONENT_MARK" ->
         DigitOr(c, "EXPONENT", IF c \in {43, MINUS} THEN "EXPONENT_SIGN" ELSE "INVALID")
    [] from \in {"EXPONENT_SIGN", "EXPONENT"} -> DigitOr(c, "EXPONENT", "INVALID")
    [] OTHER -> "INVALID"
\* Mutant: a point without a digit after it completes a number.
CompleteWithPoint(s) == s \in {"ZERO", "INTEGER", "DECIMAL_POINT", "FRACTION", "EXPONENT"}
kason_number_complete(s) == s \in {"ZERO", "INTEGER", "FRACTION", "EXPONENT"}

-----------------------------------------------------------------------------
(***************************************************************************)
(* The accumulator.                                                        *)
(***************************************************************************)
Empty ==
  [negative |-> FALSE, integer_form |-> TRUE, integer_overflow |-> FALSE, magnitude |-> 0,
   significand |-> 0, significant_digits |-> 0, fraction_digits |-> 0,
   dropped_digits |-> 0, explicit_exponent |-> 0, exponent_negative |-> FALSE,
   nonzero |-> FALSE, round_up |-> FALSE]

\* Mutant: the last value that fits is refused.
OverflowsEarly(magnitude, digit) == magnitude >= (UINT64_MAX - digit) \div 10
Overflows(magnitude, digit) == magnitude > (UINT64_MAX - digit) \div 10
IntegerDigit(acc, digit) ==
  IF Overflows(acc.magnitude, digit) THEN [acc EXCEPT !.integer_overflow = TRUE]
  ELSE [acc EXCEPT !.magnitude = @ * 10 + digit]

\* Mutant: a significand takes every digit.
DoubleDigitAll(acc, digit) ==
  IF ~acc.nonzero /\ digit = 0 THEN acc
  ELSE [acc EXCEPT !.nonzero = TRUE, !.significand = @ * 10 + digit]
Capped(n) == IF n < CAP THEN n + 1 ELSE n
\* Mutant: the last digit dropped decides how the significand is rounded.
DropDigitLast(acc, digit) ==
  [acc EXCEPT !.round_up = digit >= 5, !.dropped_digits = Capped(@)]
DropDigit(acc, digit) ==
  [acc EXCEPT !.round_up = @ \/ (acc.dropped_digits = 0 /\ digit >= 5),
              !.dropped_digits = Capped(@)]
DoubleDigit(acc, digit) ==
  CASE ~acc.nonzero /\ digit = 0 -> acc
    [] (acc.nonzero \/ digit # 0) /\ acc.significant_digits < SIGNIFICANT ->
         [acc EXCEPT !.nonzero = TRUE, !.significand = @ * 10 + digit,
                     !.significant_digits = @ + 1]
    [] OTHER -> DropDigit([acc EXCEPT !.nonzero = TRUE], digit)
FractionDigit(acc, digit) ==
  DoubleDigit([acc EXCEPT !.fraction_digits = Capped(@)], digit)
ExponentUpTo(n) == IF n > CAP THEN CAP ELSE n
ExponentDigit(acc, digit) ==
  IF acc.explicit_exponent < CAP
  THEN [acc EXCEPT !.explicit_exponent = ExponentUpTo(@ * 10 + digit)] ELSE acc

\* Mutant: only a point makes a number another than an integer.
NotIntegerPoint(s) == s \in {"DECIMAL_POINT", "FRACTION"}
NotInteger(s) ==
  s \in {"DECIMAL_POINT", "FRACTION", "EXPONENT_MARK", "EXPONENT_SIGN", "EXPONENT"}
Formed(acc, s) == IF NotInteger(s) THEN [acc EXCEPT !.integer_form = FALSE] ELSE acc
FeedDigit(acc, digit, s) ==
  CASE s \in {"ZERO", "INTEGER"} ->
         IF kind = "DOUBLE" THEN DoubleDigit(acc, digit) ELSE IntegerDigit(acc, digit)
    [] s = "FRACTION" /\ kind = "DOUBLE" -> FractionDigit(acc, digit)
    [] s = "EXPONENT" /\ kind = "DOUBLE" -> ExponentDigit(acc, digit)
    [] OTHER -> acc
kason_number_accumulator_feed(acc, c, s) ==
  CASE s = "SIGN" -> [acc EXCEPT !.negative = TRUE]
    [] s = "EXPONENT_SIGN" -> [Formed(acc, s) EXCEPT !.exponent_negative = c = MINUS]
    [] s \notin {"SIGN", "EXPONENT_SIGN"} /\ is_digit(c) ->
         FeedDigit(Formed(acc, s), c - ZERO, s)
    [] OTHER -> Formed(acc, s)

-----------------------------------------------------------------------------
(***************************************************************************)
(* Results.                                                                *)
(***************************************************************************)
Failure(result) == [result |-> result, negative |-> FALSE, value |-> 0, exponent |-> 0]
NoResult == Failure("NONE")
Converted(value) == [Failure("SUCCESS") EXCEPT !.value = value]

Limit(negative) == IF negative THEN INT64_MAX + 1 ELSE INT64_MAX
SignedResult(negative, magnitude) ==
  CASE magnitude > Limit(negative) -> Failure("RANGE")
    [] magnitude <= Limit(negative) /\ negative -> Converted(-magnitude)
    [] OTHER -> Converted(magnitude)
UnsignedResult(negative, magnitude) ==
  IF negative THEN Failure("RANGE") ELSE Converted(magnitude)

\* strtod: what the decimal stands for, unless it is out of a double's range.
DigitsIn(n) == CHOOSE k \in 0..(SIGNIFICANT + 1) : n < 10^k /\ (k > 0 => n >= 10^(k - 1))
strtod(negative, significand, exponent) ==
  IF exponent + DigitsIn(significand) \in (-DBL_EXP)..DBL_EXP
  THEN [result |-> "SUCCESS", negative |-> negative, value |-> significand,
        exponent |-> exponent]
  ELSE Failure("RANGE")
Zero(negative) == [Failure("SUCCESS") EXCEPT !.negative = negative]
Significand(acc) == IF acc.round_up THEN acc.significand + 1 ELSE acc.significand
Exponent(acc) ==
  (IF acc.exponent_negative THEN -acc.explicit_exponent ELSE acc.explicit_exponent)
    - acc.fraction_digits + acc.dropped_digits
DoubleResult(acc) ==
  IF ~acc.nonzero THEN Zero(acc.negative) ELSE strtod(acc.negative, Significand(acc), Exponent(acc))

IntegerResult(acc) ==
  CASE acc.integer_overflow -> Failure("RANGE")
    [] ~acc.integer_overflow /\ ~acc.integer_form -> Failure("ERROR")
    [] OTHER -> IF kind = "SIGNED" THEN SignedResult(acc.negative, acc.magnitude)
                                   ELSE UnsignedResult(acc.negative, acc.magnitude)
kason_number_accumulator_finish(acc) ==
  IF kind = "DOUBLE" THEN DoubleResult(acc) ELSE IntegerResult(acc)

-----------------------------------------------------------------------------
Init ==
  /\ text \in Texts /\ kind \in Kinds /\ ptr = 1 /\ state = "NONE"
  /\ accumulator = Empty /\ cached = NoResult /\ exact = 0

NextState(c) == IF ptr = 1 THEN kason_number_begin(c) ELSE kason_number_next(state, c)
ExactAfter(c, s) == IF is_digit(c) /\ s \in {"ZERO", "INTEGER"} THEN exact * 10 + (c - ZERO) ELSE exact
Feed(c, s) ==
  /\ cached = NoResult /\ s # "INVALID"
  /\ state' = s /\ ptr' = ptr + 1
  /\ accumulator' = kason_number_accumulator_feed(accumulator, c, s)
  /\ exact' = ExactAfter(c, s)
  /\ UNCHANGED <<text, kind, cached>>
Fail ==
  /\ cached' = Failure("ERROR") /\ state' = "INVALID"
  /\ UNCHANGED <<text, kind, ptr, accumulator, exact>>
Read ==
  /\ cached = NoResult /\ ptr <= Len(text)
  /\ \E c \in {text[ptr]} : \E s \in {NextState(c)} : Feed(c, s) \/ (s = "INVALID" /\ Fail)
Finish ==
  /\ cached = NoResult /\ ptr > Len(text)
  /\ \/ kason_number_complete(state) /\ cached' = kason_number_accumulator_finish(accumulator)
     \/ ~kason_number_complete(state) /\ cached' = Failure("ERROR")
  /\ UNCHANGED <<text, kind, ptr, state, accumulator, exact>>

Next == Read \/ Finish
Spec == Init /\ [][Next]_numberVars

-----------------------------------------------------------------------------
(***************************************************************************)
(* The conversions of a slice.                                             *)
(***************************************************************************)
Magnitude(result, value) == [result |-> result, value |-> value]
\* One more digit, unless the loop has returned.
ConvertDigit(magnitude, c) ==
  IF magnitude.result # "SUCCESS" THEN magnitude
  ELSE IF ~is_digit(c) THEN Magnitude("ERROR", 0)
  ELSE IF Overflows(magnitude.value, c - ZERO) THEN Magnitude("RANGE", 0)
  ELSE Magnitude("SUCCESS", magnitude.value * 10 + (c - ZERO))
\* The digits from p to the end.
DigitsFrom(s, p) ==
  LET upto[q \in (p - 1)..Len(s)] ==
        IF q < p THEN Magnitude("SUCCESS", 0) ELSE ConvertDigit(upto[q - 1], s[q])
  IN  upto[Len(s)]
MagnitudeFrom(s, p) ==
  CASE At(s, p) = ZERO ->
         IF p = Len(s) THEN Magnitude("SUCCESS", 0) ELSE Magnitude("ERROR", 0)
    [] is_positive_digit(At(s, p)) -> DigitsFrom(s, p)
    [] OTHER -> Magnitude("ERROR", 0)
IsNegative(s) == At(s, 1) = MINUS
kason_integer_magnitude(s) == MagnitudeFrom(s, IF IsNegative(s) THEN 2 ELSE 1)

OrFailure(magnitude, converted) ==
  IF magnitude.result = "SUCCESS" THEN converted ELSE Failure(magnitude.result)
OfMagnitude(to, s, magnitude) ==
  OrFailure(magnitude,
    IF to = "SIGNED" THEN SignedResult(IsNegative(s), magnitude.value)
                     ELSE UnsignedResult(IsNegative(s), magnitude.value))
\* kason_value_to_int64 and kason_value_to_uint64.
kason_value_to(to, s) == OfMagnitude(to, s, kason_integer_magnitude(s))
\* Mutant: the range of an int is taken to be symmetric.
InIntSymmetric(value) == value \in (-INT_MAX)..INT_MAX
InInt(value) == value \in (-INT_MAX - 1)..INT_MAX
Narrowed(wide) ==
  IF wide.result = "SUCCESS" /\ ~InInt(wide.value) THEN Failure("RANGE") ELSE wide
kason_value_to_int(s) == Narrowed(kason_value_to("SIGNED", s))

\* kason_value_to_double: an accumulator is fed the slice up to its end.
Begun == [state |-> "NONE", accumulator |-> Empty]
ReadByte(read, c, s) ==
  [state |-> s,
   accumulator |-> IF s = "INVALID" THEN read.accumulator
                   ELSE kason_number_accumulator_feed(read.accumulator, c, s)]
ReadUpTo(s) ==
  LET upto[p \in 0..Len(s)] ==
        IF p = 0 THEN Begun
        ELSE ReadByte(upto[p - 1], s[p],
                      IF p = 1 THEN kason_number_begin(s[p])
                      ELSE kason_number_next(upto[p - 1].state, s[p]))
  IN  upto
OfDouble(read) ==
  IF kason_number_complete(read.state) THEN DoubleResult(read.accumulator) ELSE Failure("ERROR")
kason_value_to_double(s) == OfDouble(ReadUpTo(s)[Len(s)])
=============================================================================
