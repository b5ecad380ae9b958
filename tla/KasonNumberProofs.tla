-------------------------- MODULE KasonNumberProofs --------------------------
(***************************************************************************)
(* Theorems about numbers, for every width and every text.                 *)
(*                                                                         *)
(* First, what the recursive definitions compute for every text: where     *)
(* the parts of a number end, and the value of its digits up to each       *)
(* position (by the induction of KasonTextProofs).  Then the invariant of  *)
(* a parse, in three parts.  IInv is about the accumulator alone: it holds *)
(* the digits that were fed to it, or knows that it cannot.  ReadInv is    *)
(* about the text: Reading says which beginning of a number was read when  *)
(* the state is what it is (Shape), Counting that the digits fed are those *)
(* of the integer part.  StatesSpellNumbers is not inductive without       *)
(* Shape, and ConvertedAlike not without both of these and, for doubles,   *)
(* Retold: kason_value_to_double reads a slice as it is parsed.  DoubleInv *)
(* is about doubles: where the parts of the number are (Located), and that *)
(* the counts are those of the digits read, the significand the first of   *)
(* them and the rest of them rounded (Amounted).                           *)
(***************************************************************************)
EXTENDS KasonNumberRef, KasonTextProofs, FiniteSetTheorems

-----------------------------------------------------------------------------
(* Runs of digits.                                                         *)

LEMMA AtIs ==
  ASSUME NEW s \in Seq(Byte)
  PROVE  /\ Len(s) \in Nat /\ At(s, Len(s) + 1) = -1
         /\ \A p \in 1..Len(s) : At(s, p) = s[p] /\ s[p] \in Byte
         /\ ~is_digit(-1) /\ ~is_exponent(-1) /\ -1 # POINT /\ -1 # MINUS /\ -1 # ZERO
<1>1. Len(s) \in Nat
  OBVIOUS
<1> QED BY <1>1 DEF At, is_digit, is_exponent, POINT, MINUS, ZERO

\* The digits from p on end before e.
RunEnds(s, p, e) ==
  /\ e \in p..(Len(s) + 1) /\ \A q \in p..(e - 1) : is_digit(At(s, q))
  /\ ~is_digit(At(s, e))

LEMMA RunEndsOnce ==
  ASSUME NEW s, NEW p \in Nat, NEW d, NEW e, RunEnds(s, p, d), RunEnds(s, p, e), Len(s) \in Nat
  PROVE  d = e
<1>1. d \in Nat /\ e \in Nat /\ d >= p /\ e >= p
  BY DEF RunEnds
<1>2. ~(d < e)
  <2> SUFFICES ASSUME d < e PROVE FALSE
    OBVIOUS
  <2>1. d \in p..(e - 1)
    BY <1>1
  <2> QED BY <2>1 DEF RunEnds
<1>3. ~(e < d)
  <2> SUFFICES ASSUME e < d PROVE FALSE
    OBVIOUS
  <2>1. e \in p..(d - 1)
    BY <1>1
  <2> QED BY <2>1 DEF RunEnds
<1> QED BY <1>1, <1>2, <1>3

LEMMA DigitsEndRuns ==
  ASSUME NEW s \in Seq(Byte), NEW p \in 1..(Len(s) + 1)
  PROVE  RunEnds(s, p, DigitsEnd(s, p))
<1> DEFINE n == Len(s)
           S == 1..(n + 1)
           T == Nat
           body(f, q) == IF is_digit(At(s, q)) THEN f[q + 1] ELSE q
           F == [f \in [S -> T] |-> [q \in S |-> body(f, q)]]
           skip == CHOOSE f : f = [q \in 1..(Len(s) + 1) |-> body(f, q)]
<1>1. n \in Nat
  OBVIOUS
<1>2. \A q \in S : q \in Nat /\ (is_digit(At(s, q)) => q + 1 \in S)
  <2> SUFFICES ASSUME NEW q \in S, is_digit(At(s, q)) PROVE q + 1 \in S
    BY <1>1
  <2>1. q # n + 1
    BY AtIs
  <2> QED BY <1>1, <2>1
<1>3. DigitsEnd(s, p) = skip[p]
  BY DEF DigitsEnd
<1>4. Forward(n, T, F)
  <2>1. F \in [[S -> T] -> [S -> T]]
    <3>1. \A f \in [S -> T] : \A q \in S : body(f, q) \in T
      BY <1>2
    <3> HIDE DEF body, S, T
    <3> QED BY <3>1
  <2>2. T # {}
    OBVIOUS
  <2>3. ASSUME NEW g \in [S -> T], NEW h \in [S -> T], NEW q \in S,
               \A r \in S : r > q => g[r] = h[r]
        PROVE  F[g][q] = F[h][q]
    <3>1. body(g, q) = body(h, q)
      BY <1>2, <2>3
    <3> HIDE DEF body
    <3> QED BY <3>1
  <2> HIDE DEF F, T, n
  <2> QED BY <2>1, <2>2, <2>3 DEF Forward
<1>5. PICK f : Solution(S, T, F, f)
  <2> HIDE DEF F, n, T
  <2> QED BY <1>1, <1>4, ForwardRecursion
<1>6. f = [q \in 1..(Len(s) + 1) |-> body(f, q)]
  BY <1>5 DEF Solution
<1>7. skip = [q \in 1..(Len(s) + 1) |-> body(skip, q)]
  BY <1>6
<1> HIDE DEF skip, T, F
<1> DEFINE P == {q \in S : RunEnds(s, q, skip[q])}
<1>8. ASSUME NEW q \in S, \A r \in S : r > q => r \in P PROVE RunEnds(s, q, skip[q])
  <2>1. skip[q] = body(skip, q)
    BY <1>7
  <2>2. CASE ~is_digit(At(s, q))
    <3>1. skip[q] = q /\ q \in q..(Len(s) + 1) /\ q..(q - 1) = {}
      BY <1>1, <2>1, <2>2
    <3> QED BY <2>2, <3>1 DEF RunEnds
  <2>3. CASE is_digit(At(s, q))
    <3>1. skip[q] = skip[q + 1] /\ q + 1 \in S /\ q + 1 > q
      BY <1>2, <2>1, <2>3
    <3>2. RunEnds(s, q + 1, skip[q + 1])
      BY <1>8, <3>1
    <3> DEFINE e == skip[q + 1]
    <3>3. e \in (q + 1)..(n + 1)
      BY <3>2 DEF RunEnds
    <3>4. e \in q..(n + 1) /\ \A r \in q..(e - 1) : r = q \/ r \in (q + 1)..(e - 1)
      BY <1>1, <3>3
    <3> HIDE DEF n
    <3> QED BY <2>3, <3>1, <3>2, <3>4 DEF RunEnds, n
  <2> QED BY <2>2, <2>3
<1>9. Backward(n, P)
  BY <1>8 DEF Backward
<1> HIDE DEF P, n
<1>10. P = 1..(n + 1)
  BY <1>1, <1>9, BackwardInduction
<1> QED BY <1>3, <1>10 DEF P, n

\* The digits from p on, of which e is known to be the end.
LEMMA DigitsEndIs ==
  ASSUME NEW s \in Seq(Byte), NEW p \in 1..(Len(s) + 1), NEW e, RunEnds(s, p, e)
  PROVE  DigitsEnd(s, p) = e
<1>1. RunEnds(s, p, DigitsEnd(s, p)) /\ p \in Nat /\ Len(s) \in Nat
  BY DigitsEndRuns
<1> QED BY <1>1, RunEndsOnce
-----------------------------------------------------------------------------
(* The states of a number and its grammar.                                 *)

LEMMA Classes ==
  ASSUME NEW c
  PROVE  /\ is_digit(c) => c # POINT /\ ~is_exponent(c) /\ c # MINUS /\ c # 43
         /\ c = POINT => ~is_exponent(c) /\ ~is_digit(c)
         /\ is_exponent(c) => ~is_digit(c) /\ c # POINT
         /\ c \in {43, MINUS} => ~is_digit(c) /\ c # ZERO
         /\ is_positive_digit(c) => is_digit(c) /\ c # ZERO /\ c # MINUS
         /\ is_digit(c) => c = ZERO \/ is_positive_digit(c)
         /\ is_digit(ZERO) /\ ZERO # MINUS
BY DEF is_digit, is_exponent, is_positive_digit, POINT, MINUS, ZERO

LEMMA Begins ==
  ASSUME NEW c
  PROVE  /\ c = MINUS => kason_number_begin(c) = "SIGN"
         /\ c = ZERO => kason_number_begin(c) = "ZERO"
         /\ is_positive_digit(c) => kason_number_begin(c) = "INTEGER"
         /\ c # MINUS /\ ~is_digit(c) => kason_number_begin(c) = "INVALID"
<1>1. c = MINUS => c # ZERO /\ ~is_positive_digit(c)
  BY Classes
<1>2. c = ZERO => c # MINUS /\ ~is_positive_digit(c)
  BY Classes
<1>3. is_positive_digit(c) => c # MINUS /\ c # ZERO
  BY Classes
<1>4. ~is_digit(c) => c # ZERO /\ ~is_positive_digit(c)
  BY Classes
<1> QED BY <1>1, <1>2, <1>3, <1>4 DEF kason_number_begin

LEMMA Continues ==
  ASSUME NEW c
  PROVE  /\ kason_number_next("SIGN", c) = IF c = MINUS THEN "INVALID" ELSE kason_number_begin(c)
         /\ kason_number_next("ZERO", c) = AfterInteger(c)
         /\ kason_number_next("INTEGER", c) = DigitOr(c, "INTEGER", AfterInteger(c))
         /\ kason_number_next("DECIMAL_POINT", c) = DigitOr(c, "FRACTION", "INVALID")
         /\ kason_number_next("FRACTION", c) =
              DigitOr(c, "FRACTION", IF is_exponent(c) THEN "EXPONENT_MARK" ELSE "INVALID")
         /\ kason_number_next("EXPONENT_MARK", c) =
              DigitOr(c, "EXPONENT", IF c \in {43, MINUS} THEN "EXPONENT_SIGN" ELSE "INVALID")
         /\ kason_number_next("EXPONENT_SIGN", c) = DigitOr(c, "EXPONENT", "INVALID")
         /\ kason_number_next("EXPONENT", c) = DigitOr(c, "EXPONENT", "INVALID")
<1>1. kason_number_next("SIGN", c) = IF c = MINUS THEN "INVALID" ELSE kason_number_begin(c)
  BY DEF kason_number_next
<1>2. kason_number_next("ZERO", c) = AfterInteger(c)
  BY DEF kason_number_next
<1>3. kason_number_next("INTEGER", c) = DigitOr(c, "INTEGER", AfterInteger(c))
  BY DEF kason_number_next
<1>4. kason_number_next("DECIMAL_POINT", c) = DigitOr(c, "FRACTION", "INVALID")
  BY DEF kason_number_next
<1>5. kason_number_next("FRACTION", c) =
        DigitOr(c, "FRACTION", IF is_exponent(c) THEN "EXPONENT_MARK" ELSE "INVALID")
  BY DEF kason_number_next
<1>6. kason_number_next("EXPONENT_MARK", c) =
        DigitOr(c, "EXPONENT", IF c \in {43, MINUS} THEN "EXPONENT_SIGN" ELSE "INVALID")
  BY DEF kason_number_next
<1>7. kason_number_next("EXPONENT_SIGN", c) = DigitOr(c, "EXPONENT", "INVALID")
  BY DEF kason_number_next
<1>8. kason_number_next("EXPONENT", c) = DigitOr(c, "EXPONENT", "INVALID")
  BY DEF kason_number_next
<1> QED BY <1>1, <1>2, <1>3, <1>4, <1>5, <1>6, <1>7, <1>8

LEMMA AfterIntegers ==
  ASSUME NEW c
  PROVE  /\ c = POINT => AfterInteger(c) = "DECIMAL_POINT"
         /\ is_exponent(c) => AfterInteger(c) = "EXPONENT_MARK"
         /\ c # POINT /\ ~is_exponent(c) => AfterInteger(c) = "INVALID"
BY Classes DEF AfterInteger

\* Where the integer part begins.
First(s) == IF At(s, 1) = MINUS THEN 2 ELSE 1
\* What was read before p when the state is st.
AllDigits(s, p, e) == \A q \in p..e : is_digit(At(s, q))
Shape(s, p, st) ==
  \/ st = "NONE" /\ p = 1
  \/ st = "SIGN" /\ p = 2 /\ At(s, 1) = MINUS
  \/ st = "ZERO" /\ p = First(s) + 1 /\ At(s, First(s)) = ZERO
  \/ st = "INTEGER" /\ p > First(s) /\ is_positive_digit(At(s, First(s)))
     /\ AllDigits(s, First(s) + 1, p - 1)
  \/ st = "DECIMAL_POINT" /\ p > 1 /\ IntegerEnd(s) = p - 1 /\ At(s, p - 1) = POINT
  \/ st = "FRACTION" /\ \E i \in 1..(p - 2) :
       IntegerEnd(s) = i /\ At(s, i) = POINT /\ AllDigits(s, i + 1, p - 1)
  \/ st = "EXPONENT_MARK" /\ IntegerEnd(s) > 0 /\ p > 1
     /\ FractionEnd(s, IntegerEnd(s)) = p - 1 /\ is_exponent(At(s, p - 1))
  \/ st = "EXPONENT_SIGN" /\ IntegerEnd(s) > 0 /\ p > 2
     /\ FractionEnd(s, IntegerEnd(s)) = p - 2 /\ is_exponent(At(s, p - 2))
     /\ At(s, p - 1) \in {43, MINUS}
  \/ st = "EXPONENT" /\ IntegerEnd(s) > 0
     /\ \E f \in 1..(p - 2) :
          /\ FractionEnd(s, IntegerEnd(s)) = f /\ is_exponent(At(s, f))
          /\ SignEnd(s, f + 1) \in 1..(p - 1) /\ AllDigits(s, SignEnd(s, f + 1), p - 1)

\* How the parts end, given what was read and what comes next.
LEMMA RunOf ==
  ASSUME NEW s \in Seq(Byte), NEW p \in 1..(Len(s) + 1), NEW e \in p..(Len(s) + 1),
         AllDigits(s, p, e - 1), ~is_digit(At(s, e))
  PROVE  DigitsEnd(s, p) = e
<1>1. RunEnds(s, p, e)
  BY DEF RunEnds, AllDigits
<1> QED BY <1>1, DigitsEndIs

LEMMA IntegerEndIs ==
  ASSUME NEW s \in Seq(Byte), NEW p \in 1..(Len(s) + 1), NEW st, Shape(s, p, st),
         st \in {"ZERO", "INTEGER"}, st = "INTEGER" => ~is_digit(At(s, p))
  PROVE  IntegerEnd(s) = p
<1> DEFINE b == First(s)
<1>1. Len(s) \in Nat /\ p \in Nat /\ b \in 1..2
  BY AtIs DEF First
<1>2. CASE st = "ZERO"
  <2>1. p = b + 1 /\ At(s, b) = ZERO
    BY <1>2 DEF Shape
  <2>2. At(s, b) \notin 49..57
    BY <2>1 DEF ZERO
  <2> QED BY <2>1, <2>2 DEF IntegerEnd, First
<1>3. CASE st = "INTEGER"
  <2>1. p > b /\ is_positive_digit(At(s, b)) /\ AllDigits(s, b + 1, p - 1)
    BY <1>3 DEF Shape
  <2>2. b + 1 \in 1..(Len(s) + 1) /\ p \in (b + 1)..(Len(s) + 1)
    BY <1>1, <2>1
  <2>3. DigitsEnd(s, b + 1) = p
    BY <1>3, <2>1, <2>2, RunOf
  <2>4. At(s, b) # ZERO /\ At(s, b) \in 49..57
    BY <2>1, Classes DEF is_positive_digit
  <2> QED BY <2>3, <2>4 DEF IntegerEnd, First
<1> QED BY <1>2, <1>3

LEMMA NoInteger ==
  ASSUME NEW s \in Seq(Byte), ~is_digit(At(s, First(s)))
  PROVE  IntegerEnd(s) = 0
<1>1. At(s, First(s)) # ZERO /\ At(s, First(s)) \notin 49..57
  BY Classes DEF is_digit
<1> QED BY <1>1 DEF IntegerEnd, First

LEMMA FractionEndIs ==
  ASSUME NEW s \in Seq(Byte), NEW i \in 1..(Len(s) + 1)
  PROVE  /\ At(s, i) # POINT => FractionEnd(s, i) = i
         /\ At(s, i) = POINT /\ ~is_digit(At(s, i + 1)) => FractionEnd(s, i) = 0
         /\ \A e \in (i + 2)..(Len(s) + 1) :
              At(s, i) = POINT /\ AllDigits(s, i + 1, e - 1) /\ ~is_digit(At(s, e)) =>
                FractionEnd(s, i) = e
<1>1. At(s, i) # POINT => FractionEnd(s, i) = i
  BY DEF FractionEnd
<1>2. At(s, i) = POINT /\ ~is_digit(At(s, i + 1)) => FractionEnd(s, i) = 0
  BY DEF FractionEnd
<1>3. ASSUME NEW e \in (i + 2)..(Len(s) + 1), At(s, i) = POINT, AllDigits(s, i + 1, e - 1),
             ~is_digit(At(s, e))
      PROVE  FractionEnd(s, i) = e
  <2>1. i + 2 \in 1..(Len(s) + 1) /\ i + 1 \in (i + 1)..(e - 1)
    BY AtIs
  <2>2. is_digit(At(s, i + 1))
    BY <1>3, <2>1 DEF AllDigits
  <2>3. AllDigits(s, i + 2, e - 1)
    BY <1>3, <2>1 DEF AllDigits
  <2>4. DigitsEnd(s, i + 2) = e
    BY <1>3, <2>1, <2>3, RunOf
  <2> QED BY <1>3, <2>2, <2>4 DEF FractionEnd
<1> QED BY <1>1, <1>2, <1>3

LEMMA ExponentEndIs ==
  ASSUME NEW s \in Seq(Byte), NEW f \in 1..(Len(s) + 1)
  PROVE  /\ ~is_exponent(At(s, f)) => ExponentEnd(s, f) = f
         /\ is_exponent(At(s, f)) /\ ~is_digit(At(s, SignEnd(s, f + 1))) => ExponentEnd(s, f) = 0
         /\ \A e \in 1..(Len(s) + 1) :
              /\ is_exponent(At(s, f)) /\ SignEnd(s, f + 1) \in 1..(e - 1)
              /\ AllDigits(s, SignEnd(s, f + 1), e - 1) /\ ~is_digit(At(s, e))
              => ExponentEnd(s, f) = e
<1>1. ~is_exponent(At(s, f)) => ExponentEnd(s, f) = f
  BY DEF ExponentEnd
<1>2. is_exponent(At(s, f)) /\ ~is_digit(At(s, SignEnd(s, f + 1))) => ExponentEnd(s, f) = 0
  BY DEF ExponentEnd
<1>3. ASSUME NEW e \in 1..(Len(s) + 1), is_exponent(At(s, f)), SignEnd(s, f + 1) \in 1..(e - 1),
             AllDigits(s, SignEnd(s, f + 1), e - 1), ~is_digit(At(s, e))
      PROVE  ExponentEnd(s, f) = e
  <2> DEFINE d == SignEnd(s, f + 1)
  <2>1. d \in 1..(Len(s) + 1) /\ e \in d..(Len(s) + 1) /\ d \in d..(e - 1)
    BY <1>3, AtIs
  <2>2. is_digit(At(s, d))
    BY <1>3, <2>1 DEF AllDigits
  <2>3. DigitsEnd(s, d) = e
    BY <1>3, <2>1, RunOf
  <2> QED BY <1>3, <2>2, <2>3 DEF ExponentEnd
<1> QED BY <1>1, <1>2, <1>3
\* One byte keeps the shape.
NextOf(p, from, c) == IF p = 1 THEN kason_number_begin(c) ELSE kason_number_next(from, c)

LEMMA ExtendDigits ==
  ASSUME NEW s, NEW p \in Nat, NEW q \in Nat, p <= q, AllDigits(s, p, q - 1), is_digit(At(s, q))
  PROVE  AllDigits(s, p, q)
<1>1. \A r \in p..q : r = q \/ r \in p..(q - 1)
  OBVIOUS
<1> QED BY <1>1 DEF AllDigits

LEMMA ShapeBegins ==
  ASSUME NEW s \in Seq(Byte), NEW p \in 1..Len(s), NEW st, st \in {"NONE", "SIGN"},
         Shape(s, p, st), p = 1 <=> st = "NONE"
  PROVE  /\ NextOf(p, st, At(s, p)) # "INVALID" => Shape(s, p + 1, NextOf(p, st, At(s, p)))
         /\ NextOf(p, st, At(s, p)) = "INVALID" => IntegerEnd(s) = 0
<1> DEFINE c == At(s, p)
           to == NextOf(p, st, c)
<1>1. CASE st = "NONE" /\ c = MINUS
  <2>1. p = 1 /\ to = "SIGN" /\ p + 1 = 2
    BY <1>1, Begins DEF Shape, NextOf
  <2> QED BY <1>1, <2>1 DEF Shape
<1>2. CASE ~(st = "NONE" /\ c = MINUS)
  <2>1. First(s) = p /\ p \in Nat
    BY <1>2 DEF Shape, First
  <2>2. to = IF c = MINUS THEN "INVALID" ELSE kason_number_begin(c)
    BY <1>2, Continues DEF NextOf, Shape
  <2>3. CASE c = ZERO
    <3>1. to = "ZERO" /\ c # MINUS
      BY <2>2, <2>3, Begins, Classes
    <3> QED BY <2>1, <2>3, <3>1 DEF Shape
  <2>4. CASE is_positive_digit(c)
    <3>1. to = "INTEGER"
      BY <2>2, <2>4, Begins, Classes
    <3>2. p + 1 > First(s) /\ AllDigits(s, First(s) + 1, (p + 1) - 1)
      BY <2>1 DEF AllDigits
    <3>3. Shape(s, p + 1, "INTEGER")
      BY <2>1, <2>4, <3>2 DEF Shape
    <3> QED BY <3>1, <3>3
  <2>5. CASE ~is_digit(c)
    <3>1. to = "INVALID"
      BY <2>2, <2>5, Begins
    <3>2. IntegerEnd(s) = 0
      BY <2>1, <2>5, NoInteger
    <3> QED BY <3>1, <3>2
  <2> QED BY <2>3, <2>4, <2>5, Classes
<1> QED BY <1>1, <1>2

\* Not a number.
LEMMA Unfinished ==
  ASSUME NEW s \in Seq(Byte),
         \/ IntegerEnd(s) = 0
         \/ FractionEnd(s, IntegerEnd(s)) = 0
         \/ ExponentEnd(s, FractionEnd(s, IntegerEnd(s))) # Len(s) + 1
  PROVE  ~is_valid_number(s)
BY DEF is_valid_number

LEMMA ShapeInteger ==
  ASSUME NEW s \in Seq(Byte), NEW p \in 1..Len(s), NEW st, st \in {"ZERO", "INTEGER"},
         Shape(s, p, st), p # 1
  PROVE  /\ NextOf(p, st, At(s, p)) # "INVALID" => Shape(s, p + 1, NextOf(p, st, At(s, p)))
         /\ NextOf(p, st, At(s, p)) = "INVALID" => ~is_valid_number(s)
<1> DEFINE c == At(s, p)
           to == NextOf(p, st, c)
<1>0. Len(s) \in Nat /\ p \in Nat /\ p > 1 /\ p <= Len(s) /\ p \in 1..(Len(s) + 1)
      /\ (p + 1) - 1 = p
  BY AtIs
<1>1. CASE st = "INTEGER" /\ is_digit(c)
  <2>1. to = "INTEGER"
    BY <1>0, <1>1, Continues DEF NextOf, DigitOr
  <2>2. p > First(s) /\ is_positive_digit(At(s, First(s))) /\ AllDigits(s, First(s) + 1, p - 1)
    BY <1>1 DEF Shape
  <2>3. First(s) + 1 \in Nat /\ First(s) + 1 <= p /\ p + 1 > First(s)
    BY <1>0, <2>2 DEF First
  <2>4. AllDigits(s, First(s) + 1, (p + 1) - 1)
    BY <1>0, <1>1, <2>2, <2>3, ExtendDigits
  <2>5. Shape(s, p + 1, "INTEGER")
    BY <2>2, <2>3, <2>4 DEF Shape
  <2> QED BY <2>1, <2>5
<1>2. CASE st = "ZERO" \/ ~is_digit(c)
  <2>1. IntegerEnd(s) = p
    BY <1>0, <1>2, IntegerEndIs
  <2>2. to = AfterInteger(c)
    BY <1>0, <1>2, Continues DEF NextOf, DigitOr
  <2>3. CASE c = POINT
    <3>1. to = "DECIMAL_POINT"
      BY <2>2, <2>3, AfterIntegers
    <3>2. Shape(s, p + 1, "DECIMAL_POINT")
      BY <1>0, <2>1, <2>3 DEF Shape
    <3> QED BY <3>1, <3>2
  <2>4. CASE c # POINT
    <3>1. FractionEnd(s, p) = p
      BY <1>0, <2>4, FractionEndIs
    <3>2. CASE is_exponent(c)
      <4>1. to = "EXPONENT_MARK"
        BY <2>2, <3>2, AfterIntegers
      <4>2. Shape(s, p + 1, "EXPONENT_MARK")
        BY <1>0, <2>1, <3>1, <3>2 DEF Shape
      <4> QED BY <4>1, <4>2
    <3>3. CASE ~is_exponent(c)
      <4>1. to = "INVALID"
        BY <2>2, <2>4, <3>3, AfterIntegers
      <4>2. ExponentEnd(s, p) = p
        BY <1>0, <3>3, ExponentEndIs
      <4>3. ExponentEnd(s, FractionEnd(s, IntegerEnd(s))) # Len(s) + 1
        BY <1>0, <2>1, <3>1, <4>2
      <4> QED BY <4>1, <4>3, Unfinished
    <3> QED BY <3>2, <3>3
  <2> QED BY <2>3, <2>4
<1> QED BY <1>1, <1>2

LEMMA ShapeFraction ==
  ASSUME NEW s \in Seq(Byte), NEW p \in 1..Len(s), NEW st, st \in {"DECIMAL_POINT", "FRACTION"},
         Shape(s, p, st), p # 1
  PROVE  /\ NextOf(p, st, At(s, p)) # "INVALID" => Shape(s, p + 1, NextOf(p, st, At(s, p)))
         /\ NextOf(p, st, At(s, p)) = "INVALID" => ~is_valid_number(s)
<1> DEFINE c == At(s, p)
           to == NextOf(p, st, c)
<1>0. Len(s) \in Nat /\ p \in Nat /\ p > 1 /\ p <= Len(s) /\ p \in 1..(Len(s) + 1)
      /\ (p + 1) - 1 = p /\ (p + 1) - 2 = p - 1
  BY AtIs
<1>1. PICK i \in 1..(p - 1) : /\ IntegerEnd(s) = i /\ At(s, i) = POINT
                              /\ AllDigits(s, i + 1, p - 1) /\ (st = "FRACTION" => i \in 1..(p - 2))
                              /\ (st = "DECIMAL_POINT" => i = p - 1)
  <2>1. CASE st = "DECIMAL_POINT"
    <3>1. p - 1 \in 1..(p - 1) /\ AllDigits(s, (p - 1) + 1, p - 1)
      BY <1>0 DEF AllDigits
    <3> QED BY <2>1, <3>1 DEF Shape
  <2>2. CASE st = "FRACTION"
    <3>1. PICK i \in 1..(p - 2) :
            IntegerEnd(s) = i /\ At(s, i) = POINT /\ AllDigits(s, i + 1, p - 1)
      BY <2>2 DEF Shape
    <3>2. i \in 1..(p - 1)
      BY <1>0
    <3> QED BY <2>2, <3>1, <3>2
  <2> QED BY <2>1, <2>2
<1>2. i \in Nat /\ i + 1 \in Nat /\ i + 1 <= p /\ i \in 1..(Len(s) + 1) /\ i \in 1..((p + 1) - 2)
  BY <1>0
<1>3. CASE is_digit(c)
  <2>1. to = "FRACTION"
    BY <1>0, <1>3, Continues DEF NextOf, DigitOr
  <2>2. AllDigits(s, i + 1, (p + 1) - 1)
    BY <1>0, <1>1, <1>2, <1>3, ExtendDigits
  <2>3. Shape(s, p + 1, "FRACTION")
    BY <1>1, <1>2, <2>2 DEF Shape
  <2> QED BY <2>1, <2>3
<1>4. CASE ~is_digit(c) /\ st = "DECIMAL_POINT"
  <2>1. FractionEnd(s, IntegerEnd(s)) = 0
    <3>1. i + 1 = p
      BY <1>0, <1>1, <1>4
    <3> QED BY <1>1, <1>2, <1>4, <3>1, FractionEndIs
  <2>2. to = "INVALID"
    BY <1>0, <1>4, Continues DEF NextOf, DigitOr
  <2> QED BY <2>1, <2>2, Unfinished
<1>5. CASE ~is_digit(c) /\ st = "FRACTION"
  <2>1. FractionEnd(s, IntegerEnd(s)) = p
    <3>1. p \in (i + 2)..(Len(s) + 1)
      BY <1>0, <1>1, <1>5
    <3> QED BY <1>1, <1>2, <1>5, <3>1, FractionEndIs
  <2>2. to = IF is_exponent(c) THEN "EXPONENT_MARK" ELSE "INVALID"
    BY <1>0, <1>5, Continues DEF NextOf, DigitOr
  <2>3. CASE is_exponent(c)
    <3>1. Shape(s, p + 1, "EXPONENT_MARK")
      BY <1>0, <1>1, <1>2, <2>1, <2>3 DEF Shape
    <3> QED BY <2>2, <2>3, <3>1
  <2>4. CASE ~is_exponent(c)
    <3>1. ExponentEnd(s, p) = p
      BY <1>0, <2>4, ExponentEndIs
    <3>2. ExponentEnd(s, FractionEnd(s, IntegerEnd(s))) # Len(s) + 1
      BY <1>0, <2>1, <3>1
    <3> QED BY <2>2, <2>4, <3>2, Unfinished
  <2> QED BY <2>3, <2>4
<1> QED BY <1>3, <1>4, <1>5

LEMMA ShapeExponent ==
  ASSUME NEW s \in Seq(Byte), NEW p \in 1..Len(s),
         NEW st, st \in {"EXPONENT_MARK", "EXPONENT_SIGN", "EXPONENT"},
         Shape(s, p, st), p # 1
  PROVE  /\ NextOf(p, st, At(s, p)) # "INVALID" => Shape(s, p + 1, NextOf(p, st, At(s, p)))
         /\ NextOf(p, st, At(s, p)) = "INVALID" => ~is_valid_number(s)
<1> DEFINE c == At(s, p)
           to == NextOf(p, st, c)
           f == FractionEnd(s, IntegerEnd(s))
           d == SignEnd(s, f + 1)
<1>0. Len(s) \in Nat /\ p \in Nat /\ p > 1 /\ p <= Len(s) /\ p \in 1..(Len(s) + 1)
      /\ (p + 1) - 1 = p /\ (p + 1) - 2 = p - 1
  BY AtIs
<1>1. IntegerEnd(s) > 0 /\ f \in 1..(p - 1) /\ is_exponent(At(s, f))
  <2>1. CASE st = "EXPONENT_MARK"
    BY <1>0, <2>1 DEF Shape
  <2>2. CASE st = "EXPONENT_SIGN"
    <3>1. p - 2 \in 1..(p - 1) \/ ~(p > 2)
      BY <1>0
    <3> QED BY <2>2, <3>1 DEF Shape
  <2>3. CASE st = "EXPONENT"
    <3>1. \A g \in 1..(p - 2) : g \in 1..(p - 1)
      BY <1>0
    <3> QED BY <2>3, <3>1 DEF Shape
  <2> QED BY <2>1, <2>2, <2>3
<1>2. f \in Nat /\ f \in 1..(Len(s) + 1) /\ f \in 1..((p + 1) - 2)
  BY <1>0, <1>1
<1>3. CASE st = "EXPONENT_MARK" /\ c \in {43, MINUS}
  <2>1. ~is_digit(c)
    BY <1>3, Classes
  <2>2. to = "EXPONENT_SIGN"
    BY <1>0, <1>3, <2>1, Continues DEF NextOf, DigitOr
  <2>3. f = p - 1
    BY <1>3 DEF Shape
  <2>4. Shape(s, p + 1, "EXPONENT_SIGN")
    BY <1>0, <1>1, <1>3, <2>3 DEF Shape
  <2> QED BY <2>2, <2>4
<1>4. CASE ~(st = "EXPONENT_MARK" /\ c \in {43, MINUS})
  <2>1. d \in 1..p /\ AllDigits(s, d, p - 1) /\ (st = "EXPONENT" \/ d = p)
    <3>1. CASE st = "EXPONENT_MARK"
      <4>1. f + 1 = p
        BY <1>0, <3>1 DEF Shape
      <4>2. d = p
        BY <1>4, <3>1, <4>1 DEF SignEnd
      <4> QED BY <1>0, <4>2 DEF AllDigits
    <3>2. CASE st = "EXPONENT_SIGN"
      <4>1. f + 1 = p - 1 /\ At(s, p - 1) \in {43, MINUS}
        BY <1>0, <3>2 DEF Shape
      <4>2. d = p
        BY <1>0, <4>1 DEF SignEnd
      <4> QED BY <1>0, <4>2 DEF AllDigits
    <3>3. CASE st = "EXPONENT"
      <4>1. d \in 1..(p - 1) /\ AllDigits(s, d, p - 1)
        BY <3>3 DEF Shape
      <4> QED BY <1>0, <3>3, <4>1
    <3> QED BY <3>1, <3>2, <3>3
  <2>2. to = DigitOr(c, "EXPONENT", "INVALID")
    BY <1>0, <1>4, Continues DEF NextOf, DigitOr
  <2>3. CASE is_digit(c)
    <3>1. to = "EXPONENT"
      BY <2>2, <2>3 DEF DigitOr
    <3>2. d \in 1..((p + 1) - 1) /\ d \in Nat /\ d <= p
      BY <1>0, <2>1
    <3>3. AllDigits(s, d, (p + 1) - 1)
      BY <1>0, <2>1, <2>3, <3>2, ExtendDigits
    <3>4. Shape(s, p + 1, "EXPONENT")
      BY <1>1, <1>2, <3>2, <3>3 DEF Shape
    <3> QED BY <3>1, <3>4
  <2>4. CASE ~is_digit(c)
    <3>1. to = "INVALID"
      BY <2>2, <2>4 DEF DigitOr
    <3>2. ExponentEnd(s, f) # Len(s) + 1
      <4>1. CASE d = p
        <5>1. ExponentEnd(s, f) = 0
          BY <1>1, <1>2, <2>4, <4>1, ExponentEndIs
        <5> QED BY <1>0, <5>1
      <4>2. CASE d # p
        <5>1. d \in 1..(p - 1)
          BY <1>0, <2>1, <4>2
        <5>2. ExponentEnd(s, f) = p
          BY <1>0, <1>1, <1>2, <2>1, <2>4, <5>1, ExponentEndIs
        <5> QED BY <1>0, <5>2
      <4> QED BY <4>1, <4>2
    <3> QED BY <3>1, <3>2, Unfinished
  <2> QED BY <2>3, <2>4
<1> QED BY <1>3, <1>4

NumberStates == {"NONE", "SIGN", "ZERO", "INTEGER", "DECIMAL_POINT", "FRACTION",
                 "EXPONENT_MARK", "EXPONENT_SIGN", "EXPONENT"}
LEMMA ShapeStates ==
  ASSUME NEW s, NEW p, NEW st, Shape(s, p, st)
  PROVE  st \in NumberStates
BY DEF Shape, NumberStates

LEMMA ShapeStep ==
  ASSUME NEW s \in Seq(Byte), NEW p \in 1..Len(s), NEW st, Shape(s, p, st), p = 1 <=> st = "NONE"
  PROVE  /\ NextOf(p, st, At(s, p)) # "INVALID" => Shape(s, p + 1, NextOf(p, st, At(s, p)))
         /\ NextOf(p, st, At(s, p)) = "INVALID" => ~is_valid_number(s)
<1>1. CASE st \in {"NONE", "SIGN"}
  BY <1>1, ShapeBegins, Unfinished
<1>2. CASE st \notin {"NONE", "SIGN"}
  BY <1>2, ShapeStates, ShapeInteger, ShapeFraction, ShapeExponent DEF NumberStates
<1> QED BY <1>1, <1>2

\* At the end.
LEMMA ShapeEnds ==
  ASSUME NEW s \in Seq(Byte), NEW st, Shape(s, Len(s) + 1, st)
  PROVE  is_valid_number(s) <=> kason_number_complete(st)
<1> DEFINE p == Len(s) + 1
           f == FractionEnd(s, IntegerEnd(s))
<1>0. /\ p \in Nat /\ p \in 1..(Len(s) + 1) /\ At(s, p) = -1 /\ ~is_digit(At(s, p))
      /\ At(s, p) # POINT /\ ~is_exponent(At(s, p)) /\ At(s, p) \notin {43, MINUS}
  BY AtIs DEF MINUS
<1>1. FractionEnd(s, p) = p /\ ExponentEnd(s, p) = p
  BY <1>0, FractionEndIs, ExponentEndIs
<1>2. CASE st \in {"NONE", "SIGN"}
  <2>1. First(s) = p
    BY <1>0, <1>2 DEF Shape, First
  <2>2. IntegerEnd(s) = 0
    BY <1>0, <2>1, NoInteger
  <2> QED BY <1>2, <2>2, Unfinished DEF kason_number_complete
<1>3. CASE st \in {"ZERO", "INTEGER"}
  <2>1. IntegerEnd(s) = p
    BY <1>0, <1>3, IntegerEndIs
  <2> QED BY <1>0, <1>1, <1>3, <2>1 DEF is_valid_number, kason_number_complete
<1>4. CASE st = "DECIMAL_POINT"
  <2>1. IntegerEnd(s) = p - 1 /\ At(s, p - 1) = POINT /\ p - 1 \in 1..(Len(s) + 1)
        /\ (p - 1) + 1 = p
    BY <1>0, <1>4 DEF Shape
  <2>2. f = 0
    BY <1>0, <2>1, FractionEndIs
  <2> QED BY <1>4, <2>2, Unfinished DEF kason_number_complete
<1>5. CASE st = "FRACTION"
  <2>1. PICK i \in 1..(p - 2) :
          IntegerEnd(s) = i /\ At(s, i) = POINT /\ AllDigits(s, i + 1, p - 1)
    BY <1>5 DEF Shape
  <2>2. i \in 1..(Len(s) + 1) /\ p \in (i + 2)..(Len(s) + 1)
    BY <1>0
  <2>3. f = p
    BY <1>0, <2>1, <2>2, FractionEndIs
  <2> QED BY <1>0, <1>1, <1>5, <2>1, <2>2, <2>3 DEF is_valid_number, kason_number_complete
<1>6. CASE st \in {"EXPONENT_MARK", "EXPONENT_SIGN"}
  <2>1. f \in 1..(Len(s) + 1) /\ is_exponent(At(s, f)) /\ SignEnd(s, f + 1) = p
    <3>1. CASE st = "EXPONENT_MARK"
      <4>1. f = p - 1 /\ is_exponent(At(s, p - 1)) /\ p > 1
        BY <3>1 DEF Shape
      <4>2. f + 1 = p /\ f \in 1..(Len(s) + 1)
        BY <1>0, <4>1
      <4> QED BY <1>0, <4>1, <4>2 DEF SignEnd
    <3>2. CASE st = "EXPONENT_SIGN"
      <4>1. f = p - 2 /\ is_exponent(At(s, p - 2)) /\ p > 2 /\ At(s, p - 1) \in {43, MINUS}
        BY <3>2 DEF Shape
      <4>2. f + 1 = p - 1 /\ f \in 1..(Len(s) + 1) /\ (p - 1) + 1 = p
        BY <1>0, <4>1
      <4> QED BY <1>0, <4>1, <4>2 DEF SignEnd
    <3> QED BY <1>6, <3>1, <3>2
  <2>2. ExponentEnd(s, f) = 0
    BY <1>0, <2>1, ExponentEndIs
  <2>3. ExponentEnd(s, f) # Len(s) + 1
    BY <1>0, <2>2
  <2> QED BY <1>6, <2>3, Unfinished DEF kason_number_complete
<1>7. CASE st = "EXPONENT"
  <2>1. /\ IntegerEnd(s) > 0 /\ f \in 1..(p - 2) /\ is_exponent(At(s, f))
        /\ SignEnd(s, f + 1) \in 1..(p - 1) /\ AllDigits(s, SignEnd(s, f + 1), p - 1)
    BY <1>7 DEF Shape
  <2>2. f \in 1..(Len(s) + 1) /\ f > 0
    BY <1>0, <2>1
  <2>3. ExponentEnd(s, f) = p
    BY <1>0, <2>1, <2>2, ExponentEndIs
  <2> QED BY <1>7, <2>1, <2>2, <2>3 DEF is_valid_number, kason_number_complete
<1> QED BY <1>2, <1>3, <1>4, <1>5, <1>6, <1>7, ShapeStates DEF NumberStates
-----------------------------------------------------------------------------
(* The value of digits.                                                    *)

Digit == 0..9
LEMMA DigitIs == ASSUME NEW c, is_digit(c) PROVE c - ZERO \in Digit
BY DEF is_digit, ZERO, Digit

\* v[p] is the number that the digits at positions up to p make.
Values(s, positions, v) ==
  /\ v \in [0..Len(s) -> Nat] /\ v[0] = 0
  /\ \A p \in 1..Len(s) :
       v[p] = IF p \in positions THEN v[p - 1] * 10 + (s[p] - ZERO) ELSE v[p - 1]

LEMMA NumberFrom ==
  ASSUME NEW s \in Seq(Byte), NEW positions, positions \subseteq Digits(s)
  PROVE  \E v : Values(s, positions, v) /\ NumberOf(s, positions) = v[Len(s)]
<1> DEFINE S == 0..Len(s)
           T == Nat
           m == [p \in S |-> p]
           body(f, p) == CASE p = 0 -> 0
                           [] p \in positions -> (f[p - 1] * 10) + (s[p] - ZERO)
                           [] OTHER -> f[p - 1]
           F == [f \in [S -> T] |-> [p \in S |-> body(f, p)]]
           value == CHOOSE f : f = [p \in 0..Len(s) |-> body(f, p)]
<1>1. Len(s) \in Nat /\ m \in [S -> Nat] /\ DOMAIN s = 1..Len(s)
  OBVIOUS
<1>2. \A p \in S : p # 0 => p - 1 \in S /\ p \in 1..Len(s) /\ m[p - 1] < m[p]
  BY <1>1
<1>3. \A p \in positions : p \in 1..Len(s) /\ s[p] - ZERO \in Digit /\ p # 0
  BY <1>1, DigitIs DEF Digits
<1>4. \A f, p : /\ p = 0 => body(f, p) = 0
                /\ p \in positions => body(f, p) = f[p - 1] * 10 + (s[p] - ZERO)
                /\ p # 0 /\ p \notin positions => body(f, p) = f[p - 1]
  <2> TAKE f, p
  <2>1. p = 0 => body(f, p) = 0
    BY <1>3
  <2>2. p \in positions => body(f, p) = f[p - 1] * 10 + (s[p] - ZERO)
    BY <1>3
  <2>3. p # 0 /\ p \notin positions => body(f, p) = f[p - 1]
    OBVIOUS
  <2> QED BY <2>1, <2>2, <2>3
<1>5. ASSUME NEW f, NEW p \in S, p # 0 => f[p - 1] \in Nat PROVE body(f, p) \in Nat
  <2>1. CASE p = 0
    BY <1>4, <2>1
  <2>2. CASE p \in positions
    <3>1. f[p - 1] \in Nat /\ s[p] - ZERO \in Digit
      BY <1>3, <1>5, <2>2
    <3>2. f[p - 1] * 10 + (s[p] - ZERO) \in Nat
      <4>1. \A x \in Nat, d \in Digit : x * 10 + d \in Nat
        BY DEF Digit
      <4> QED BY <3>1, <4>1
    <3> HIDE DEF body
    <3> QED BY <1>4, <2>2, <3>2
  <2>3. CASE p # 0 /\ p \notin positions
    BY <1>4, <1>5, <2>3
  <2> QED BY <2>1, <2>2, <2>3
<1> HIDE DEF body
<1>6. F \in [[S -> T] -> [S -> T]]
  <2>1. \A f \in [S -> T] : \A p \in S : body(f, p) \in T
    BY <1>2, <1>5
  <2> QED BY <2>1
<1>7. ASSUME NEW g \in [S -> T], NEW h \in [S -> T], NEW p \in S,
             \A r \in S : m[r] < m[p] => g[r] = h[r]
      PROVE  F[g][p] = F[h][p]
  <2>1. body(g, p) = body(h, p)
    <3>1. p # 0 => g[p - 1] = h[p - 1]
      BY <1>2, <1>7
    <3> QED BY <1>3, <1>4, <3>1
  <2> QED BY <2>1
<1>8. NumberOf(s, positions) = value[Len(s)]
  BY DEF NumberOf, body
<1>9. PICK g : Solution(S, T, F, g)
  <2>1. T # {}
    OBVIOUS
  <2> HIDE DEF S, T, m, F
  <2>2. Descends(S, T, m, F)
    BY <1>7 DEF Descends
  <2>3. Recursive(S, T, m, F)
    BY <1>1, <1>6, <2>1, <2>2 DEF Recursive
  <2> QED BY <2>3, Recursion
<1>10. g \in [S -> T] /\ \A p \in S : g[p] = body(g, p)
  BY <1>9 DEF Solution
<1>11. g = [p \in 0..Len(s) |-> body(g, p)]
  BY <1>10
<1>12. value = [p \in 0..Len(s) |-> body(value, p)]
  BY <1>11
<1> HIDE DEF value
<1>13. \A p \in S : value[p] = body(value, p)
  BY <1>12
<1>14. value[0] = 0
  BY <1>1, <1>4, <1>13
<1>15. \A p \in 1..Len(s) :
         value[p] = IF p \in positions THEN value[p - 1] * 10 + (s[p] - ZERO) ELSE value[p - 1]
  <2> SUFFICES ASSUME NEW p \in 1..Len(s)
               PROVE  value[p] = IF p \in positions THEN value[p - 1] * 10 + (s[p] - ZERO)
                                 ELSE value[p - 1]
    OBVIOUS
  <2>1. p \in S /\ p # 0
    BY <1>1
  <2> QED BY <1>4, <1>13, <2>1
<1> DEFINE P == {p \in S : value[p] \in T}
<1>16. \A p \in S : (\A r \in S : m[r] < m[p] => r \in P) => p \in P
  <2> SUFFICES ASSUME NEW p \in S, \A r \in S : m[r] < m[p] => r \in P PROVE p \in P
    OBVIOUS
  <2>1. p # 0 => value[p - 1] \in Nat
    BY <1>2
  <2>2. body(value, p) \in Nat
    BY <1>5, <2>1
  <2> QED BY <1>13, <2>2
<1>17. P = S
  <2> HIDE DEF m
  <2>1. P \in SUBSET S
    OBVIOUS
  <2> HIDE DEF P, S
  <2>2. Progressive(S, m, P)
    BY <1>1, <1>16, <2>1 DEF Progressive
  <2> QED BY <2>2, MeasureInduction
<1>18. value \in [0..Len(s) -> Nat]
  BY <1>12, <1>17
<1> QED BY <1>8, <1>14, <1>15, <1>18 DEF Values
\* v[p] does not fall.
LEMMA ValuesGrow ==
  ASSUME NEW s \in Seq(Byte), NEW positions, positions \subseteq Digits(s), NEW v,
         Values(s, positions, v), NEW p \in 1..Len(s)
  PROVE  /\ v[p - 1] \in Nat /\ v[p] \in Nat /\ v[p - 1] <= v[p]
         /\ p \in positions => s[p] - ZERO \in Digit /\ v[p] = v[p - 1] * 10 + (s[p] - ZERO)
         /\ p \notin positions => v[p] = v[p - 1]
<1>1. Len(s) \in Nat /\ p - 1 \in 0..Len(s) /\ p \in 0..Len(s) /\ DOMAIN s = 1..Len(s)
  OBVIOUS
<1>2. v[p - 1] \in Nat /\ v[p] \in Nat
  BY <1>1 DEF Values
<1>3. CASE p \in positions
  <2>1. s[p] - ZERO \in Digit
    BY <1>1, <1>3, DigitIs DEF Digits
  <2>2. v[p] = v[p - 1] * 10 + (s[p] - ZERO)
    BY <1>3 DEF Values
  <2>3. \A x \in Nat, d \in Digit : x <= x * 10 + d
    BY DEF Digit
  <2> QED BY <1>2, <1>3, <2>1, <2>2, <2>3
<1>4. CASE p \notin positions
  <2>1. v[p] = v[p - 1]
    BY <1>4 DEF Values
  <2> QED BY <1>2, <1>4, <2>1
<1> QED BY <1>3, <1>4

LEMMA OverflowIs ==
  ASSUME NEW x \in Nat, NEW d \in Digit
  PROVE  Overflows(x, d) <=> x * 10 + d > UINT64_MAX
BY WidthAssumption DEF Overflows, Digit

\* A conversion reads the digits up to e, and then succeeds or fails.
Kept(n) == IF n > UINT64_MAX THEN Magnitude("RANGE", 0) ELSE Magnitude("SUCCESS", n)
Stopped(n) == IF n > UINT64_MAX THEN Magnitude("RANGE", 0) ELSE Magnitude("ERROR", 0)

LEMMA DigitsFromIs ==
  ASSUME NEW s \in Seq(Byte), NEW v, Values(s, Digits(s), v), NEW b \in 1..Len(s), NEW e,
         RunEnds(s, b, e), v[b - 1] = 0
  PROVE  /\ e = Len(s) + 1 => DigitsFrom(s, b) = Kept(v[Len(s)])
         /\ e <= Len(s) => DigitsFrom(s, b) = Stopped(v[e - 1])
<1> DEFINE body(f, q) == IF q < b THEN Magnitude("SUCCESS", 0) ELSE ConvertDigit(f[q - 1], s[q])
           upto == CHOOSE f : f = [q \in (b - 1)..Len(s) |-> body(f, q)]
           Expected(q) == IF q < e THEN Kept(v[q]) ELSE Stopped(v[e - 1])
           g == [q \in (b - 1)..Len(s) |-> Expected(q)]
<1>1. DigitsFrom(s, b) = upto[Len(s)]
  BY DEF DigitsFrom
<1>2. /\ Len(s) \in Nat /\ b \in Nat /\ b >= 1 /\ b <= Len(s) /\ e \in Nat /\ e >= b
      /\ e <= Len(s) + 1 /\ DOMAIN s = 1..Len(s) /\ UINT64_MAX \in Nat
  BY WidthAssumption DEF RunEnds
<1>3. Expected(b - 1) = Magnitude("SUCCESS", 0)
  BY <1>2 DEF Kept
<1>4. \A x : Magnitude("SUCCESS", x).result = "SUCCESS" /\ Magnitude("SUCCESS", x).value = x
             /\ Magnitude("RANGE", x).result # "SUCCESS"
             /\ Magnitude("ERROR", x).result # "SUCCESS"
  BY DEF Magnitude
<1>5. ASSUME NEW q \in b..Len(s) PROVE Expected(q) = ConvertDigit(Expected(q - 1), s[q])
  <2>1. q \in 1..Len(s) /\ q \in Nat /\ q - 1 \in Nat /\ At(s, q) = s[q]
    BY <1>2, AtIs
  <2>2. CASE q < e
    <3>1. q \in b..(e - 1) /\ q - 1 < e
      BY <1>2, <2>2
    <3>2. is_digit(s[q]) /\ q \in Digits(s)
      BY <1>2, <2>1, <3>1 DEF RunEnds, Digits
    <3>3. /\ v[q - 1] \in Nat /\ v[q] \in Nat /\ v[q - 1] <= v[q]
          /\ s[q] - ZERO \in Digit /\ v[q] = v[q - 1] * 10 + (s[q] - ZERO)
      BY <2>1, <3>2, ValuesGrow
    <3>4. Overflows(v[q - 1], s[q] - ZERO) <=> v[q] > UINT64_MAX
      BY <3>3, OverflowIs
    <3>5. CASE v[q - 1] > UINT64_MAX
      <4>1. Kept(v[q - 1]) = Magnitude("RANGE", 0) /\ v[q] > UINT64_MAX
        BY <1>2, <3>3, <3>5 DEF Kept
      <4> QED BY <1>4, <2>2, <3>1, <4>1 DEF Kept, ConvertDigit
    <3>6. CASE ~(v[q - 1] > UINT64_MAX)
      <4>1. Kept(v[q - 1]) = Magnitude("SUCCESS", v[q - 1])
        BY <3>6 DEF Kept
      <4>2. ConvertDigit(Magnitude("SUCCESS", v[q - 1]), s[q]) = Kept(v[q])
        BY <1>4, <3>2, <3>3, <3>4 DEF Kept, ConvertDigit
      <4> QED BY <2>2, <3>1, <4>1, <4>2
    <3> QED BY <3>5, <3>6
  <2>3. CASE q = e
    <3>1. ~is_digit(s[q]) /\ q - 1 < e /\ ~(q < e)
      BY <1>2, <2>1, <2>3 DEF RunEnds
    <3>2. ConvertDigit(Kept(v[e - 1]), s[q]) = Stopped(v[e - 1])
      BY <1>4, <3>1 DEF ConvertDigit, Kept, Stopped
    <3> QED BY <2>3, <3>1, <3>2
  <2>4. CASE q > e
    <3>1. ~(q < e) /\ ~(q - 1 < e)
      BY <1>2, <2>4
    <3>2. ConvertDigit(Stopped(v[e - 1]), s[q]) = Stopped(v[e - 1])
      BY <1>4 DEF ConvertDigit, Stopped
    <3> QED BY <3>1, <3>2
  <2> QED BY <1>2, <2>2, <2>3, <2>4
<1> HIDE DEF Expected
<1>6. \A q \in (b - 1)..Len(s) : g[q] = body(g, q)
  <2> SUFFICES ASSUME NEW q \in (b - 1)..Len(s) PROVE g[q] = body(g, q)
    OBVIOUS
  <2>1. CASE q = b - 1
    BY <1>2, <1>3, <2>1
  <2>2. CASE q # b - 1
    <3>1. q \in b..Len(s) /\ ~(q < b) /\ q - 1 \in (b - 1)..Len(s)
      BY <1>2, <2>2
    <3> QED BY <1>5, <3>1
  <2> QED BY <2>1, <2>2
<1>7. g = [q \in (b - 1)..Len(s) |-> body(g, q)]
  <2>1. g = [q \in (b - 1)..Len(s) |-> g[q]]
    OBVIOUS
  <2> HIDE DEF g, body
  <2> QED BY <1>6, <2>1
<1>8. upto = [q \in (b - 1)..Len(s) |-> body(upto, q)]
  <2> HIDE DEF g
  <2> QED BY <1>7
<1> HIDE DEF upto, g
<1>9. \A q \in (b - 1)..Len(s) : upto[q] = body(upto, q)
  BY <1>8
<1> DEFINE P == {k \in Nat : b - 1 + k <= Len(s) => upto[b - 1 + k] = Expected(b - 1 + k)}
<1>10. 0 \in P
  <2>1. b - 1 \in (b - 1)..Len(s) /\ b - 1 < b /\ b - 1 + 0 = b - 1
    BY <1>2
  <2> QED BY <1>3, <1>9, <2>1
<1>11. ASSUME NEW k \in P PROVE k + 1 \in P
  <2> SUFFICES ASSUME b - 1 + (k + 1) <= Len(s)
               PROVE  upto[b - 1 + (k + 1)] = Expected(b - 1 + (k + 1))
    OBVIOUS
  <2> DEFINE q == b - 1 + (k + 1)
  <2>1. /\ k \in Nat /\ q \in b..Len(s) /\ q \in (b - 1)..Len(s) /\ ~(q < b)
        /\ q - 1 = b - 1 + k /\ b - 1 + k <= Len(s)
    BY <1>2
  <2>2. upto[q - 1] = Expected(q - 1)
    BY <2>1
  <2>3. upto[q] = ConvertDigit(upto[q - 1], s[q])
    BY <1>9, <2>1
  <2> HIDE DEF q
  <2> QED BY <1>5, <2>1, <2>2, <2>3 DEF q
<1>12. P = Nat
  <2>1. P \in SUBSET Nat
    OBVIOUS
  <2> HIDE DEF P
  <2> QED BY <1>10, <1>11, <2>1, SetInduction
<1>13. upto[Len(s)] = Expected(Len(s))
  <2> DEFINE k == Len(s) - (b - 1)
  <2>1. k \in Nat /\ b - 1 + k = Len(s) /\ Len(s) <= Len(s)
    BY <1>2
  <2>2. k \in P
    BY <1>12, <2>1
  <2>3. b - 1 + k <= Len(s) => upto[b - 1 + k] = Expected(b - 1 + k)
    BY <2>2
  <2> HIDE DEF k
  <2> QED BY <2>1, <2>3
<1>14. e = Len(s) + 1 => Len(s) < e
  BY <1>2
<1>15. e <= Len(s) => ~(Len(s) < e)
  BY <1>2
<1> QED BY <1>1, <1>13, <1>14, <1>15 DEF Expected

-----------------------------------------------------------------------------
(* The number that the digits make, and the conversion of a slice.         *)
\* Number of the digits up to a position.
Value(s) == CHOOSE v : Values(s, Digits(s), v) /\ NumberOf(s, Digits(s)) = v[Len(s)]

LEMMA ValueIs ==
  ASSUME NEW s \in Seq(Byte)
  PROVE  /\ Values(s, Digits(s), Value(s)) /\ NumberOf(s, Digits(s)) = Value(s)[Len(s)]
         /\ Value(s)[0] = 0 /\ \A p \in 0..Len(s) : Value(s)[p] \in Nat
<1>1. \E v : Values(s, Digits(s), v) /\ NumberOf(s, Digits(s)) = v[Len(s)]
  BY NumberFrom
<1>2. Values(s, Digits(s), Value(s)) /\ NumberOf(s, Digits(s)) = Value(s)[Len(s)]
  BY <1>1 DEF Value
<1> QED BY <1>2 DEF Values

LEMMA ValueStep ==
  ASSUME NEW s \in Seq(Byte), NEW p \in 1..Len(s)
  PROVE  /\ is_digit(s[p]) => s[p] - ZERO \in Digit
                              /\ Value(s)[p] = Value(s)[p - 1] * 10 + (s[p] - ZERO)
         /\ ~is_digit(s[p]) => Value(s)[p] = Value(s)[p - 1]
<1>1. Values(s, Digits(s), Value(s)) /\ Digits(s) \subseteq Digits(s)
  BY ValueIs
<1>2. Len(s) \in Nat /\ DOMAIN s = 1..Len(s)
  OBVIOUS
<1>3. p \in Digits(s) <=> is_digit(s[p])
  BY <1>2 DEF Digits
<1> QED BY <1>1, <1>3, ValuesGrow

\* The integer part of a number: a zero, or a run of digits that does not begin with one.
LEMMA IntegerPart ==
  ASSUME NEW s \in Seq(Byte), IntegerEnd(s) # 0
  PROVE  /\ First(s) \in 1..Len(s) /\ First(s) \in 1..2
         /\ IntegerEnd(s) \in (First(s) + 1)..(Len(s) + 1)
         /\ \A q \in First(s)..(IntegerEnd(s) - 1) : is_digit(At(s, q))
         /\ At(s, First(s)) = ZERO => IntegerEnd(s) = First(s) + 1
         /\ At(s, First(s)) # ZERO =>
              is_positive_digit(At(s, First(s))) /\ RunEnds(s, First(s), IntegerEnd(s))
         /\ First(s) = 2 => ~is_digit(s[1])
<1> DEFINE b == First(s)
           c == At(s, b)
           i == IntegerEnd(s)
<1>1. b \in 1..2 /\ (b = 2 <=> At(s, 1) = MINUS) /\ Len(s) \in Nat
  BY AtIs DEF First
<1>2. i = IF c = ZERO THEN b + 1 ELSE IF is_positive_digit(c) THEN DigitsEnd(s, b + 1) ELSE 0
  <2>1. ~(ZERO \in 49..57)
    BY DEF ZERO
  <2>2. CASE c = ZERO
    BY <2>1, <2>2 DEF IntegerEnd, First
  <2>3. CASE c # ZERO /\ is_positive_digit(c)
    BY <2>3 DEF IntegerEnd, First, is_positive_digit
  <2>4. CASE c # ZERO /\ ~is_positive_digit(c)
    <3>1. c \notin 49..57
      BY <2>4 DEF is_positive_digit
    <3> DEFINE P == c = ZERO
               Q == c \in 49..57
               D == DigitsEnd(s, b + 1)
    <3>2. i = CASE P -> b + 1 [] Q -> D [] OTHER -> 0
      BY DEF IntegerEnd, First
    <3>3. ~P /\ ~Q
      BY <2>4, <3>1
    <3> HIDE DEF P, Q, D, i
    <3>4. i = 0
      BY <3>2, <3>3, Zenon
    <3> QED BY <2>4, <3>4
  <2> QED BY <2>2, <2>3, <2>4
<1>3. is_digit(c) /\ (c = ZERO \/ is_positive_digit(c))
  BY <1>2, Classes
<1>4. b \in 1..Len(s)
  <2>1. c # -1
    BY <1>3, AtIs
  <2> QED BY <1>1, <2>1 DEF At
<1>5. b = 2 => ~is_digit(s[1])
  <2> SUFFICES ASSUME b = 2 PROVE ~is_digit(s[1])
    OBVIOUS
  <2>1. s[1] = MINUS
    BY <1>1, <1>4, AtIs
  <2> QED BY <2>1, Classes
<1>6. CASE c = ZERO
  <2>1. i = b + 1
    BY <1>2, <1>6
  <2>2. \A q \in b..(i - 1) : q = b
    BY <1>1, <2>1
  <2> QED BY <1>1, <1>3, <1>4, <1>5, <1>6, <2>1, <2>2
<1>7. CASE c # ZERO
  <2>1. i = DigitsEnd(s, b + 1) /\ is_positive_digit(c) /\ b + 1 \in 1..(Len(s) + 1)
    BY <1>1, <1>2, <1>3, <1>4, <1>7
  <2>2. RunEnds(s, b + 1, i)
    BY <2>1, DigitsEndRuns
  <2>3. i \in (b + 1)..(Len(s) + 1) /\ ~is_digit(At(s, i))
    BY <2>2 DEF RunEnds
  <2>4. \A q \in b..(i - 1) : is_digit(At(s, q))
    <3> SUFFICES ASSUME NEW q \in b..(i - 1) PROVE is_digit(At(s, q))
      OBVIOUS
    <3>1. q = b \/ q \in (b + 1)..(i - 1)
      BY <1>1, <2>3
    <3> QED BY <1>3, <2>2, <3>1 DEF RunEnds
  <2>5. RunEnds(s, b, i)
    <3>1. i \in b..(Len(s) + 1)
      BY <1>1, <2>3
    <3> QED BY <2>3, <2>4, <3>1 DEF RunEnds
  <2> QED BY <1>1, <1>4, <1>5, <1>7, <2>1, <2>3, <2>4, <2>5
<1> QED BY <1>6, <1>7

\* What the conversion of a slice reads.
LEMMA MagnitudeIs ==
  ASSUME NEW s \in Seq(Byte), IntegerEnd(s) # 0
  PROVE  kason_integer_magnitude(s) =
           IF IntegerEnd(s) = Len(s) + 1 THEN Kept(Value(s)[Len(s)])
                                         ELSE Stopped(Value(s)[IntegerEnd(s) - 1])
<1> DEFINE b == First(s)
           i == IntegerEnd(s)
           c == At(s, b)
<1>1. /\ Len(s) \in Nat /\ b \in 1..Len(s) /\ b \in 1..2 /\ i \in (b + 1)..(Len(s) + 1)
      /\ UINT64_MAX \in Nat
  BY AtIs, IntegerPart, WidthAssumption
<1>2. kason_integer_magnitude(s) = MagnitudeFrom(s, b)
  BY DEF kason_integer_magnitude, IsNegative, First
<1>3. Value(s)[b - 1] = 0
  <2>1. CASE b = 1
    BY <2>1, ValueIs
  <2>2. CASE b = 2
    <3>1. 1 \in 1..Len(s) /\ ~is_digit(s[1]) /\ 1 - 1 = 0 /\ 2 - 1 = 1
      BY <1>1, <2>2, IntegerPart
    <3>2. Value(s)[1] = Value(s)[1 - 1]
      BY <3>1, ValueStep
    <3> QED BY <2>2, <3>1, <3>2, ValueIs
  <2> QED BY <1>1, <2>1, <2>2
<1>4. CASE c = ZERO
  <2>1. i = b + 1 /\ c = s[b] /\ is_digit(s[b])
    BY <1>1, <1>4, IntegerPart, AtIs, Classes
  <2>2. Value(s)[b] = 0
    <3>1. Value(s)[b] = Value(s)[b - 1] * 10 + (s[b] - ZERO)
      BY <1>1, <2>1, ValueStep
    <3> QED BY <1>3, <1>4, <2>1, <3>1 DEF ZERO
  <2>3. Kept(0) = Magnitude("SUCCESS", 0) /\ Stopped(0) = Magnitude("ERROR", 0)
    BY <1>1 DEF Kept, Stopped
  <2>4. MagnitudeFrom(s, b) = IF b = Len(s) THEN Magnitude("SUCCESS", 0) ELSE Magnitude("ERROR", 0)
    <3>1. ~is_positive_digit(c)
      BY <1>4 DEF is_positive_digit, ZERO
    <3> QED BY <1>4, <3>1 DEF MagnitudeFrom
  <2> QED BY <1>1, <1>2, <2>1, <2>2, <2>3, <2>4
<1>5. CASE c # ZERO
  <2>1. is_positive_digit(c) /\ RunEnds(s, b, i)
    BY <1>5, IntegerPart
  <2>2. MagnitudeFrom(s, b) = DigitsFrom(s, b)
    BY <1>5, <2>1 DEF MagnitudeFrom
  <2>3. /\ i = Len(s) + 1 => DigitsFrom(s, b) = Kept(Value(s)[Len(s)])
        /\ i <= Len(s) => DigitsFrom(s, b) = Stopped(Value(s)[i - 1])
    BY <1>1, <1>3, <2>1, ValueIs, DigitsFromIs
  <2> QED BY <1>1, <1>2, <2>2, <2>3
<1> QED BY <1>4, <1>5

\* A number is an integer when its integer part is all of it.
LEMMA ExponentAtIs ==
  ASSUME NEW s \in Seq(Byte)
  PROVE  /\ ExponentAt(s) \in 1..(Len(s) + 1)
         /\ ExponentAt(s) = Len(s) + 1 \/ is_exponent(At(s, ExponentAt(s)))
         /\ \A q \in 1..(ExponentAt(s) - 1) : ~is_exponent(s[q])
<1> DEFINE N == {p \in 1..(Len(s) + 1) : p = Len(s) + 1 \/ is_exponent(At(s, p))}
<1>1. Len(s) \in Nat
  OBVIOUS
<1>2. N \in SUBSET Nat /\ Len(s) + 1 \in N
  BY <1>1
<1>3. N # {}
  BY <1>2
<1> HIDE DEF N
<1>4. PICK p \in N : \A r \in N : p <= r
  BY <1>2, <1>3, LeastNat
<1>5. p \in 1..(Len(s) + 1) /\ (p = Len(s) + 1 \/ is_exponent(At(s, p)))
  BY <1>4 DEF N
<1>6. \A q \in 1..(p - 1) : ~is_exponent(s[q])
  <2> SUFFICES ASSUME NEW q \in 1..(p - 1), is_exponent(s[q]) PROVE FALSE
    OBVIOUS
  <2>1. q \in 1..Len(s) /\ q \in 1..(Len(s) + 1) /\ q < p
    BY <1>1, <1>5
  <2>2. At(s, q) = s[q]
    BY <2>1, AtIs
  <2>3. q \in N
    BY <2>1, <2>2 DEF N
  <2> QED BY <1>1, <1>4, <1>5, <2>1, <2>3
<1> QED BY <1>5, <1>6 DEF ExponentAt

LEMMA PointAtIs ==
  ASSUME NEW s \in Seq(Byte)
  PROVE  /\ PointAt(s) \in 1..ExponentAt(s)
         /\ PointAt(s) = ExponentAt(s) \/ s[PointAt(s)] = POINT
         /\ \A q \in 1..(PointAt(s) - 1) : s[q] # POINT
<1> DEFINE E == ExponentAt(s)
           N == {p \in 1..E : p = E \/ s[p] = POINT}
<1>1. Len(s) \in Nat /\ E \in Nat /\ E >= 1
  BY ExponentAtIs
<1>2. N \in SUBSET Nat /\ E \in N
  BY <1>1
<1>3. N # {}
  BY <1>2
<1> HIDE DEF N, E
<1>4. PICK p \in N : \A r \in N : p <= r
  BY <1>2, <1>3, LeastNat
<1>5. p \in 1..E /\ (p = E \/ s[p] = POINT)
  BY <1>4 DEF N
<1>6. \A q \in 1..(p - 1) : s[q] # POINT
  <2> SUFFICES ASSUME NEW q \in 1..(p - 1), s[q] = POINT PROVE FALSE
    OBVIOUS
  <2>1. q \in 1..E /\ q < p
    BY <1>1, <1>5
  <2>2. q \in N
    BY <2>1 DEF N
  <2> QED BY <1>1, <1>4, <1>5, <2>1, <2>2
<1> QED BY <1>5, <1>6 DEF PointAt, E

LEMMA IsIntegerIs ==
  ASSUME NEW s \in Seq(Byte), is_valid_number(s)
  PROVE  /\ IntegerEnd(s) # 0
         /\ IsInteger(s) <=> IntegerEnd(s) = Len(s) + 1
<1> DEFINE i == IntegerEnd(s)
           n == Len(s) + 1
<1>1. i # 0
  BY Unfinished
<1>2. /\ Len(s) \in Nat /\ i \in 1..n /\ First(s) \in 1..2
      /\ \A q \in First(s)..(i - 1) : is_digit(At(s, q))
      /\ \A q \in 1..Len(s) : At(s, q) = s[q]
  BY <1>1, IntegerPart, AtIs
<1>3. ASSUME IsInteger(s) PROVE i = n
  <2>1. PointAt(s) = n
    BY <1>3 DEF IsInteger
  <2>2. ExponentAt(s) = n
    BY <1>2, <2>1, PointAtIs, ExponentAtIs
  <2> SUFFICES ASSUME i # n PROVE FALSE
    OBVIOUS
  <2>3. i \in 1..Len(s) /\ i \in 1..(n - 1)
    BY <1>2
  <2>4. At(s, i) # POINT /\ ~is_exponent(At(s, i))
    BY <1>2, <2>1, <2>2, <2>3, PointAtIs, ExponentAtIs
  <2>5. FractionEnd(s, i) = i /\ ExponentEnd(s, i) = i
    BY <1>2, <2>4, FractionEndIs, ExponentEndIs
  <2> QED BY <2>5, Unfinished
<1>4. ASSUME i = n PROVE IsInteger(s)
  <2>1. \A q \in 1..Len(s) : s[q] # POINT /\ ~is_exponent(s[q])
    <3> SUFFICES ASSUME NEW q \in 1..Len(s) PROVE s[q] # POINT /\ ~is_exponent(s[q])
      OBVIOUS
    <3>1. CASE q >= First(s)
      <4>1. q \in First(s)..(i - 1)
        BY <1>2, <1>4, <3>1
      <4>2. is_digit(s[q])
        BY <1>2, <4>1
      <4> QED BY <4>2, Classes
    <3>2. CASE q < First(s)
      <4>1. q = 1 /\ First(s) = 2
        BY <1>2, <3>2
      <4>2. At(s, 1) = MINUS
        BY <4>1 DEF First
      <4>3. s[q] = MINUS
        BY <1>2, <4>1, <4>2
      <4> QED BY <4>3 DEF MINUS, POINT, is_exponent
    <3> QED BY <1>2, <3>1, <3>2
  <2>2. ExponentAt(s) = n
    <3> SUFFICES ASSUME ExponentAt(s) # n PROVE FALSE
      OBVIOUS
    <3>1. ExponentAt(s) \in 1..Len(s)
      BY <1>2, ExponentAtIs
    <3> QED BY <1>2, <2>1, <3>1, ExponentAtIs
  <2>3. PointAt(s) = n
    <3> SUFFICES ASSUME PointAt(s) # n PROVE FALSE
      OBVIOUS
    <3>1. PointAt(s) \in 1..Len(s)
      BY <1>2, <2>2, PointAtIs
    <3> QED BY <1>2, <2>1, <2>2, <3>1, PointAtIs
  <2> QED BY <2>3 DEF IsInteger
<1> QED BY <1>1, <1>3, <1>4

\* A magnitude that was kept, with its sign.
LEMMA SignedIs ==
  ASSUME NEW n \in Nat, NEW negative \in BOOLEAN
  PROVE  LET m == IF negative THEN -n ELSE n
         IN  /\ m \in Representable("SIGNED") => SignedResult(negative, n) = Converted(m)
             /\ m \notin Representable("SIGNED") => SignedResult(negative, n) = Failure("RANGE")
<1> DEFINE m == IF negative THEN -n ELSE n
<1>1. INT64_MAX \in Nat /\ Limit(negative) \in Nat
  BY WidthAssumption DEF Limit
<1>2. m \in Representable("SIGNED") <=> n <= Limit(negative)
  BY <1>1 DEF Representable, Limit
<1>3. CASE n <= Limit(negative)
  <2>1. ~(n > Limit(negative))
    BY <1>1, <1>3
  <2>2. CASE negative
    BY <1>2, <1>3, <2>1, <2>2 DEF SignedResult
  <2>3. CASE ~negative
    BY <1>2, <1>3, <2>1, <2>3 DEF SignedResult
  <2> QED BY <2>2, <2>3
<1>4. CASE ~(n <= Limit(negative))
  <2>1. n > Limit(negative)
    BY <1>1, <1>4
  <2> QED BY <1>2, <1>4, <2>1 DEF SignedResult
<1> QED BY <1>3, <1>4

LEMMA ValueIsExact ==
  ASSUME NEW s \in Seq(Byte), is_valid_number(s), NEW to \in {"SIGNED", "UNSIGNED"}
  PROVE  IsExact(to, s, kason_value_to(to, s))
<1> DEFINE m == kason_integer_magnitude(s)
           n == NumberOf(s, Digits(s))
           r == kason_value_to(to, s)
           k == Value(s)[IntegerEnd(s) - 1]
<1>1. /\ IntegerEnd(s) # 0 /\ (IsInteger(s) <=> IntegerEnd(s) = Len(s) + 1)
      /\ Len(s) \in Nat /\ n \in Nat /\ n = Value(s)[Len(s)]
      /\ UINT64_MAX \in Nat /\ INT64_MAX \in Nat /\ INT64_MAX < UINT64_MAX
  BY IsIntegerIs, AtIs, ValueIs, WidthAssumption
<1>2. m = IF IntegerEnd(s) = Len(s) + 1 THEN Kept(n) ELSE Stopped(k)
  BY <1>1, MagnitudeIs
<1>3. r = OfMagnitude(to, s, m)
  BY DEF kason_value_to
<1>4. \A f : Failure(f).result = f
  BY DEF Failure
<1>5. (IsNegative(s) <=> s[1] = MINUS) /\ IsNegative(s) \in BOOLEAN
  <2>1. 1 \in 1..Len(s)
    BY <1>1, IntegerPart
  <2>2. At(s, 1) = s[1]
    BY <2>1, AtIs
  <2> QED BY <2>2 DEF IsNegative
<1>6. IntegerOf(s) = IF IsNegative(s) THEN -n ELSE n
  BY <1>5 DEF IntegerOf, Signed
<1> HIDE DEF m, n, r, k
<1>7. CASE ~IsInteger(s)
  <2>1. m = Magnitude("RANGE", 0) \/ m = Magnitude("ERROR", 0)
    BY <1>1, <1>2, <1>7 DEF Stopped
  <2>2. m.result \in {"RANGE", "ERROR"}
    BY <2>1 DEF Magnitude
  <2>3. r = Failure(m.result)
    BY <1>3, <2>2 DEF OfMagnitude, OrFailure
  <2> QED BY <1>4, <1>7, <2>2, <2>3 DEF IsExact, r
<1>8. CASE IsInteger(s) /\ n > UINT64_MAX
  <2>1. m = Magnitude("RANGE", 0)
    BY <1>1, <1>2, <1>8 DEF Kept
  <2>2. m.result = "RANGE"
    BY <2>1 DEF Magnitude
  <2>3. r = Failure("RANGE")
    BY <1>3, <2>2 DEF OfMagnitude, OrFailure
  <2>4. ~Fits(to, s)
    BY <1>1, <1>5, <1>6, <1>8 DEF Fits, Representable
  <2> QED BY <1>4, <1>8, <2>3, <2>4 DEF IsExact, r
<1>9. CASE IsInteger(s) /\ ~(n > UINT64_MAX)
  <2>1. m = Magnitude("SUCCESS", n)
    BY <1>1, <1>2, <1>9 DEF Kept
  <2>2. m.result = "SUCCESS" /\ m.value = n
    BY <2>1 DEF Magnitude
  <2>3. CASE to = "SIGNED"
    <3>1. r = SignedResult(IsNegative(s), n)
      BY <1>3, <2>2, <2>3 DEF OfMagnitude, OrFailure
    <3>2. Fits(to, s) <=> IntegerOf(s) \in Representable("SIGNED")
      BY <2>3 DEF Fits
    <3>3. /\ IntegerOf(s) \in Representable("SIGNED") => r = Converted(IntegerOf(s))
          /\ IntegerOf(s) \notin Representable("SIGNED") => r = Failure("RANGE")
      BY <1>1, <1>5, <1>6, <3>1, SignedIs
    <3> QED BY <1>4, <1>9, <3>2, <3>3 DEF IsExact, r
  <2>4. CASE to = "UNSIGNED"
    <3>1. r = UnsignedResult(IsNegative(s), n)
      BY <1>3, <2>2, <2>4 DEF OfMagnitude, OrFailure
    <3>2. CASE IsNegative(s)
      <4>1. r = Failure("RANGE") /\ ~Fits(to, s)
        BY <1>5, <2>4, <3>1, <3>2 DEF UnsignedResult, Fits
      <4> QED BY <1>4, <1>9, <4>1 DEF IsExact, r
    <3>3. CASE ~IsNegative(s)
      <4>1. r = Converted(IntegerOf(s))
        BY <1>6, <3>1, <3>3 DEF UnsignedResult
      <4>2. Fits(to, s)
        BY <1>1, <1>5, <1>6, <1>9, <2>4, <3>3 DEF Fits, Representable
      <4> QED BY <1>9, <4>1, <4>2 DEF IsExact, r
    <3> QED BY <3>2, <3>3
  <2> QED BY <2>3, <2>4
<1> QED BY <1>7, <1>8, <1>9

LEMMA IntIsExact ==
  ASSUME NEW s \in Seq(Byte), is_valid_number(s), IsInteger(s)
  PROVE  IF IntegerOf(s) \in (-INT_MAX - 1)..INT_MAX
         THEN kason_value_to_int(s) = Converted(IntegerOf(s))
         ELSE kason_value_to_int(s).result = "RANGE"
<1> DEFINE r == kason_value_to("SIGNED", s)
           n == IntegerOf(s)
<1>1. IsExact("SIGNED", s, r)
  BY ValueIsExact
<1>2. n \in Int
  BY ValueIs, AtIs DEF IntegerOf, Signed
<1>3. INT_MAX \in Nat /\ INT64_MAX \in Nat /\ INT_MAX <= INT64_MAX
  BY WidthAssumption
<1>4. kason_value_to_int(s) = Narrowed(r)
  BY DEF kason_value_to_int
<1>5. n \in (-INT_MAX - 1)..INT_MAX => n \in Representable("SIGNED")
  BY <1>2, <1>3 DEF Representable
<1>6. Fits("SIGNED", s) <=> n \in Representable("SIGNED")
  BY DEF Fits
<1>7. Converted(n).result = "SUCCESS" /\ Converted(n).value = n /\ Failure("RANGE").result = "RANGE"
  BY DEF Converted, Failure
<1> HIDE DEF r, n
<1>8. CASE Fits("SIGNED", s)
  <2>1. r = Converted(n)
    BY <1>1, <1>8 DEF IsExact, n
  <2> QED BY <1>4, <1>5, <1>6, <1>7, <2>1 DEF Narrowed, InInt, n
<1>9. CASE ~Fits("SIGNED", s)
  <2>1. r.result = "RANGE"
    BY <1>1, <1>9 DEF IsExact
  <2> QED BY <1>4, <1>5, <1>6, <1>9, <2>1 DEF Narrowed, n
<1> QED BY <1>8, <1>9

-----------------------------------------------------------------------------
(* The accumulator.                                                        *)
Accumulators ==
  [negative : BOOLEAN, integer_form : BOOLEAN, integer_overflow : BOOLEAN,
   magnitude : Nat, significand : Nat, significant_digits : Nat,
   fraction_digits : Nat, dropped_digits : Nat, explicit_exponent : Nat,
   exponent_negative : BOOLEAN, nonzero : BOOLEAN, round_up : BOOLEAN]
Fitting(acc) ==
  /\ acc.magnitude <= UINT64_MAX /\ acc.significant_digits <= SIGNIFICANT
  /\ acc.significand < 10^acc.significant_digits
\* The accumulator holds the digits read, or knows that it cannot.
Holds(acc, n) ==
  /\ acc.integer_overflow <=> n > UINT64_MAX
  /\ ~acc.integer_overflow => acc.magnitude = n

AccInv == accumulator \in Accumulators /\ Fitting(accumulator)
ExactInv == exact \in Nat /\ (kind # "DOUBLE" => Holds(accumulator, exact))
IInv == kind \in Kinds /\ AccInv /\ ExactInv /\ ReadExactly

LEMMA Powers ==
  /\ 10^0 = 1 /\ 10^SIGNIFICANT <= UINT64_MAX
  /\ \A n \in 0..SIGNIFICANT : 10^n \in Nat /\ 10^n <= 10^SIGNIFICANT
  /\ \A n \in 0..(SIGNIFICANT - 1) : 10^(n + 1) = 10 * 10^n
BY SignificandAssumption, PowersAssumption

LEMMA IntegerDigitKeeps ==
  ASSUME NEW acc \in Accumulators, Fitting(acc), NEW digit \in Digit,
         NEW n \in Nat, Holds(acc, n)
  PROVE  /\ IntegerDigit(acc, digit) \in Accumulators /\ Fitting(IntegerDigit(acc, digit))
         /\ Holds(IntegerDigit(acc, digit), n * 10 + digit)
<1>1. Overflows(acc.magnitude, digit) <=> acc.magnitude * 10 + digit > UINT64_MAX
  BY WidthAssumption DEF Overflows, Accumulators, Digit
<1>2. CASE Overflows(acc.magnitude, digit)
  <2> DEFINE t == [acc EXCEPT !.integer_overflow = TRUE]
  <2>1. IntegerDigit(acc, digit) = t
    BY <1>2 DEF IntegerDigit
  <2>2. t \in Accumulators /\ t.integer_overflow = TRUE /\ t.magnitude = acc.magnitude
        /\ t.significand = acc.significand /\ t.significant_digits = acc.significant_digits
    BY DEF Accumulators
  <2>3. n * 10 + digit > UINT64_MAX
    BY <1>1, <1>2, WidthAssumption DEF Holds, Accumulators, Digit
  <2> HIDE DEF t
  <2> QED BY <2>1, <2>2, <2>3 DEF Fitting, Holds
<1>3. CASE ~Overflows(acc.magnitude, digit)
  <2> DEFINE t == [acc EXCEPT !.magnitude = @ * 10 + digit]
  <2>1. IntegerDigit(acc, digit) = t
    BY <1>3 DEF IntegerDigit
  <2>2. t \in Accumulators /\ t.integer_overflow = acc.integer_overflow
        /\ t.magnitude = acc.magnitude * 10 + digit
        /\ t.significand = acc.significand /\ t.significant_digits = acc.significant_digits
    BY DEF Accumulators, Digit
  <2> HIDE DEF t
  <2>3. Fitting(t)
    <3>1. acc.magnitude * 10 + digit \in Nat /\ UINT64_MAX \in Nat
      BY WidthAssumption DEF Accumulators, Digit
    <3>2. acc.magnitude * 10 + digit <= UINT64_MAX
      BY <1>1, <1>3, <3>1
    <3> QED BY <2>2, <3>2 DEF Fitting
  <2>4. Holds(t, n * 10 + digit)
    BY <1>1, <1>3, <2>2, WidthAssumption DEF Holds, Accumulators, Digit
  <2> QED BY <2>1, <2>2, <2>3, <2>4
<1> QED BY <1>2, <1>3

\* A change of the other fields.
Others(acc, t) ==
  /\ t \in Accumulators /\ t.integer_overflow = acc.integer_overflow
  /\ t.magnitude = acc.magnitude
LEMMA CappedIsNat == \A n \in Nat : Capped(n) \in Nat /\ ExponentUpTo(n) \in Nat
BY DoubleAssumption DEF Capped, ExponentUpTo

LEMMA DropDigitKeeps ==
  ASSUME NEW acc \in Accumulators, NEW digit \in Digit
  PROVE  /\ Others(acc, DropDigit(acc, digit))
         /\ DropDigit(acc, digit).significand = acc.significand
         /\ DropDigit(acc, digit).significant_digits = acc.significant_digits
<1>1. Capped(acc.dropped_digits) \in Nat
  BY CappedIsNat DEF Accumulators
<1>2. (acc.round_up \/ (acc.dropped_digits = 0 /\ digit >= 5)) \in BOOLEAN
  OBVIOUS
<1> QED BY <1>1, <1>2 DEF DropDigit, Others, Accumulators

LEMMA DoubleDigitKeeps ==
  ASSUME NEW acc \in Accumulators, Fitting(acc), NEW digit \in Digit
  PROVE  Others(acc, DoubleDigit(acc, digit)) /\ Fitting(DoubleDigit(acc, digit))
<1>1. CASE ~acc.nonzero /\ digit = 0
  BY <1>1 DEF DoubleDigit, Others
<1>2. CASE (acc.nonzero \/ digit # 0) /\ acc.significant_digits < SIGNIFICANT
  <2> DEFINE t == [acc EXCEPT !.nonzero = TRUE, !.significand = @ * 10 + digit,
                              !.significant_digits = @ + 1]
  <2>1. DoubleDigit(acc, digit) = t
    BY <1>2 DEF DoubleDigit
  <2>2. Others(acc, t) /\ t.significand = acc.significand * 10 + digit
        /\ t.significant_digits = acc.significant_digits + 1
    <3>1. acc.significand * 10 + digit \in Nat /\ acc.significant_digits + 1 \in Nat
      BY DEF Accumulators, Digit
    <3> DEFINE v == acc.significand * 10 + digit
               w == acc.significant_digits + 1
    <3>2. t = [acc EXCEPT !.nonzero = TRUE, !.significand = v, !.significant_digits = w]
      BY DEF Accumulators
    <3> HIDE DEF t, v, w
    <3>3. v \in Nat /\ w \in Nat
      BY <3>1 DEF v, w
    <3>4. t \in Accumulators /\ t.integer_overflow = acc.integer_overflow
          /\ t.magnitude = acc.magnitude /\ t.significand = v /\ t.significant_digits = w
      BY <3>2, <3>3 DEF Accumulators
    <3> QED BY <3>4 DEF Others, v, w
  <2> HIDE DEF t
  <2>3. acc.significant_digits \in 0..(SIGNIFICANT - 1) /\ acc.significand \in Nat
    BY <1>2, DoubleAssumption DEF Accumulators
  <2>4. 10^(acc.significant_digits + 1) = 10 * 10^acc.significant_digits
        /\ 10^acc.significant_digits \in Nat
    BY <2>3, Powers, DoubleAssumption
  <2>5. t.significand < 10^t.significant_digits
    BY <2>2, <2>3, <2>4 DEF Fitting, Digit
  <2>6. t.significant_digits <= SIGNIFICANT /\ t.magnitude <= UINT64_MAX
    BY <2>2, <2>3, DoubleAssumption DEF Fitting, Others
  <2> QED BY <2>1, <2>2, <2>5, <2>6 DEF Fitting
<1>3. CASE (acc.nonzero \/ digit # 0) /\ ~(acc.significant_digits < SIGNIFICANT)
  <2> DEFINE t == [acc EXCEPT !.nonzero = TRUE]
  <2>1. DoubleDigit(acc, digit) = DropDigit(t, digit)
    BY <1>3 DEF DoubleDigit
  <2>2. Others(acc, t) /\ t.significand = acc.significand
        /\ t.significant_digits = acc.significant_digits
    BY DEF Others, Accumulators
  <2> HIDE DEF t
  <2>3. /\ Others(t, DropDigit(t, digit)) /\ DropDigit(t, digit).significand = t.significand
        /\ DropDigit(t, digit).significant_digits = t.significant_digits
    BY <2>2, DropDigitKeeps DEF Others
  <2> QED BY <2>1, <2>2, <2>3 DEF Others, Fitting
<1> QED BY <1>1, <1>2, <1>3

LEMMA FormedKeeps ==
  ASSUME NEW acc \in Accumulators, Fitting(acc), NEW s
  PROVE  Others(acc, Formed(acc, s)) /\ Fitting(Formed(acc, s))
BY DEF Formed, Others, Fitting, Accumulators

LEMMA FractionDigitKeeps ==
  ASSUME NEW acc \in Accumulators, Fitting(acc), NEW digit \in Digit
  PROVE  Others(acc, FractionDigit(acc, digit)) /\ Fitting(FractionDigit(acc, digit))
<1> DEFINE t == [acc EXCEPT !.fraction_digits = Capped(@)]
<1>1. Capped(acc.fraction_digits) \in Nat
  BY CappedIsNat DEF Accumulators
<1>2. Others(acc, t) /\ Fitting(t)
  BY <1>1 DEF Others, Fitting, Accumulators
<1>3. FractionDigit(acc, digit) = DoubleDigit(t, digit)
  BY DEF FractionDigit
<1> HIDE DEF t
<1> QED BY <1>2, <1>3, DoubleDigitKeeps DEF Others

LEMMA ExponentDigitKeeps ==
  ASSUME NEW acc \in Accumulators, Fitting(acc), NEW digit \in Digit
  PROVE  Others(acc, ExponentDigit(acc, digit)) /\ Fitting(ExponentDigit(acc, digit))
<1>1. ExponentUpTo(acc.explicit_exponent * 10 + digit) \in Nat
  BY CappedIsNat DEF Accumulators, Digit
<1> QED BY <1>1 DEF ExponentDigit, Others, Fitting, Accumulators

-----------------------------------------------------------------------------
\* One byte, in an accumulator that is sound for the digits before it.
Sound(acc, n) == acc \in Accumulators /\ Fitting(acc) /\ (kind # "DOUBLE" => Holds(acc, n))

LEMMA OthersSound ==
  ASSUME NEW acc, NEW n, Sound(acc, n), NEW t, Others(acc, t), Fitting(t)
  PROVE  Sound(t, n)
BY DEF Sound, Others, Holds

LEMMA FeedDigitKeeps ==
  ASSUME NEW acc, NEW n \in Nat, Sound(acc, n), NEW digit \in Digit, NEW s
  PROVE  Sound(FeedDigit(acc, digit, s),
               IF s \in {"ZERO", "INTEGER"} THEN n * 10 + digit ELSE n)
<1>1. CASE s \in {"ZERO", "INTEGER"} /\ kind = "DOUBLE"
  <2>1. FeedDigit(acc, digit, s) = DoubleDigit(acc, digit)
    BY <1>1 DEF FeedDigit
  <2> QED BY <1>1, <2>1, DoubleDigitKeeps DEF Sound, Others
<1>2. CASE s \in {"ZERO", "INTEGER"} /\ kind # "DOUBLE"
  <2>1. FeedDigit(acc, digit, s) = IntegerDigit(acc, digit)
    BY <1>2 DEF FeedDigit
  <2> QED BY <1>2, <2>1, IntegerDigitKeeps DEF Sound
<1>3. CASE s = "FRACTION" /\ kind = "DOUBLE"
  <2>1. FeedDigit(acc, digit, s) = FractionDigit(acc, digit)
    BY <1>3 DEF FeedDigit
  <2> QED BY <1>3, <2>1, FractionDigitKeeps DEF Sound, Others
<1>4. CASE s = "EXPONENT" /\ kind = "DOUBLE"
  <2>1. FeedDigit(acc, digit, s) = ExponentDigit(acc, digit)
    BY <1>4 DEF FeedDigit
  <2> QED BY <1>4, <2>1, ExponentDigitKeeps DEF Sound, Others
<1>5. CASE /\ s \notin {"ZERO", "INTEGER"}
           /\ ~(s = "FRACTION" /\ kind = "DOUBLE") /\ ~(s = "EXPONENT" /\ kind = "DOUBLE")
  <2>1. FeedDigit(acc, digit, s) = acc
    BY <1>5 DEF FeedDigit
  <2> QED BY <1>5, <2>1
<1> QED BY <1>1, <1>2, <1>3, <1>4, <1>5

LEMMA FeedKeeps ==
  ASSUME NEW acc, exact \in Nat, Sound(acc, exact), NEW c, NEW s
  PROVE  Sound(kason_number_accumulator_feed(acc, c, s), ExactAfter(c, s))
         /\ ExactAfter(c, s) \in Nat
<1> DEFINE next == kason_number_accumulator_feed(acc, c, s)
           f == Formed(acc, s)
<1>1. Others(acc, f) /\ Fitting(f)
  BY FormedKeeps DEF Sound
<1>2. Sound(f, exact)
  BY <1>1, OthersSound
<1>3. ExactAfter(c, s) \in Nat
  BY DigitIs DEF ExactAfter, Digit
<1>4. CASE s = "SIGN"
  <2>1. Others(acc, next) /\ Fitting(next)
    BY <1>4 DEF kason_number_accumulator_feed, Others, Fitting, Sound, Accumulators
  <2> QED BY <1>3, <1>4, <2>1, OthersSound DEF ExactAfter
<1>5. CASE s = "EXPONENT_SIGN"
  <2> DEFINE b == c = MINUS
             t == [f EXCEPT !.exponent_negative = b]
  <2>1. next = t
    BY <1>5 DEF kason_number_accumulator_feed
  <2>2. b \in BOOLEAN
    OBVIOUS
  <2> HIDE DEF f, b
  <2>3. Others(f, t) /\ Fitting(t)
    BY <1>1, <2>2 DEF Others, Fitting, Accumulators
  <2> HIDE DEF t
  <2> QED BY <1>2, <1>3, <1>5, <2>1, <2>3, OthersSound DEF ExactAfter
<1>6. CASE s \notin {"SIGN", "EXPONENT_SIGN"} /\ is_digit(c)
  <2>1. next = FeedDigit(f, c - ZERO, s)
    BY <1>6 DEF kason_number_accumulator_feed
  <2>2. c - ZERO \in Digit
    BY <1>6, DigitIs
  <2>3. ExactAfter(c, s) = IF s \in {"ZERO", "INTEGER"} THEN exact * 10 + (c - ZERO) ELSE exact
    BY <1>6 DEF ExactAfter
  <2> HIDE DEF f
  <2> QED BY <1>2, <1>3, <2>1, <2>2, <2>3, FeedDigitKeeps
<1>7. CASE s \notin {"SIGN", "EXPONENT_SIGN"} /\ ~is_digit(c)
  <2>1. next = f /\ ExactAfter(c, s) = exact
    BY <1>7 DEF kason_number_accumulator_feed, ExactAfter
  <2> QED BY <1>2, <1>3, <2>1
<1> QED BY <1>4, <1>5, <1>6, <1>7

(* What is given at the end.                                               *)
LEMMA FinishIsExact ==
  ASSUME IInv, kind # "DOUBLE", cached' = kason_number_accumulator_finish(accumulator),
         UNCHANGED <<kind, exact, accumulator>>
  PROVE  ReadExactly'
<1> DEFINE m == accumulator.magnitude
           g == accumulator.negative
<1>1. /\ m \in Nat /\ g \in BOOLEAN /\ exact \in Nat /\ kind \in {"SIGNED", "UNSIGNED"}
      /\ accumulator.integer_overflow <=> exact > UINT64_MAX
      /\ ~accumulator.integer_overflow => m = exact
  BY DEF IInv, AccInv, ExactInv, Accumulators, Holds, Kinds
<1>2. /\ INT64_MAX \in Nat /\ UINT64_MAX \in Nat /\ INT64_MAX < UINT64_MAX
  BY WidthAssumption
<1>3. Representable("SIGNED") = (-INT64_MAX - 1)..INT64_MAX /\ Representable("UNSIGNED") = 0..UINT64_MAX
  BY DEF Representable
<1>4. Fed' = Fed /\ Fed = IF g THEN -exact ELSE exact
  BY DEF Fed
<1>5. cached' = IntegerResult(accumulator)
  BY DEF kason_number_accumulator_finish
<1>6. CASE accumulator.integer_overflow
  <2>1. cached'.result = "RANGE"
    BY <1>5, <1>6 DEF IntegerResult, Failure
  <2>2. Fed \notin Representable(kind) \/ (kind = "UNSIGNED" /\ g)
    BY <1>1, <1>2, <1>3, <1>4, <1>6
  <2> QED BY <1>4, <2>1, <2>2 DEF ReadExactly, Representable
<1>7. CASE ~accumulator.integer_overflow /\ ~accumulator.integer_form
  <2>1. cached'.result = "ERROR"
    BY <1>5, <1>7 DEF IntegerResult, Failure
  <2> QED BY <2>1 DEF ReadExactly
<1>8. CASE ~accumulator.integer_overflow /\ accumulator.integer_form /\ kind = "SIGNED"
  <2>1. cached' = SignedResult(g, exact)
    BY <1>1, <1>5, <1>8 DEF IntegerResult
  <2>2. CASE exact > Limit(g)
    <3>1. cached'.result = "RANGE"
      <4>1. ~(exact <= Limit(g))
        BY <1>1, <1>2, <2>2 DEF Limit
      <4> QED BY <2>1, <2>2, <4>1 DEF SignedResult, Failure
    <3>2. Fed \notin Representable(kind)
      BY <1>1, <1>2, <1>3, <1>4, <1>8, <2>2 DEF Limit
    <3> QED BY <1>4, <3>1, <3>2 DEF ReadExactly, Representable
  <2>3. CASE exact <= Limit(g)
    <3>1. cached'.result = "SUCCESS" /\ cached'.value = Fed
      BY <1>1, <1>2, <1>4, <2>1, <2>3 DEF SignedResult, Converted, Failure, Limit
    <3>2. Fed \in Representable(kind)
      BY <1>1, <1>2, <1>3, <1>4, <1>8, <2>3 DEF Limit
    <3> QED BY <1>4, <3>1, <3>2 DEF ReadExactly, Representable
  <2> QED BY <1>1, <1>2, <2>2, <2>3 DEF Limit
<1>9. CASE ~accumulator.integer_overflow /\ accumulator.integer_form /\ kind = "UNSIGNED"
  <2>1. cached' = UnsignedResult(g, exact)
    BY <1>1, <1>5, <1>9 DEF IntegerResult
  <2>2. CASE g
    <3>1. cached'.result = "RANGE"
      BY <2>1, <2>2 DEF UnsignedResult, Failure
    <3> QED BY <1>9, <2>2, <3>1 DEF ReadExactly
  <2>3. CASE ~g
    <3>1. cached'.result = "SUCCESS" /\ cached'.value = Fed
      BY <1>4, <2>1, <2>3 DEF UnsignedResult, Converted, Failure
    <3>2. Fed \in Representable(kind)
      BY <1>1, <1>2, <1>3, <1>4, <1>9, <2>3
    <3> QED BY <1>4, <3>1, <3>2 DEF ReadExactly, Representable
  <2> QED BY <2>2, <2>3
<1> QED BY <1>1, <1>6, <1>7, <1>8, <1>9

(* What is read, and how it compares with the slice.                       *)
IntegerStates == {"NONE", "SIGN", "ZERO", "INTEGER"}
Reading ==
  /\ Shape(text, ptr, state) /\ (ptr = 1 <=> state = "NONE")
  /\ accumulator.negative <=> ptr > 1 /\ At(text, 1) = MINUS
\* The digits of the integer part are counted, and no others.
Counting ==
  /\ state \in IntegerStates => accumulator.integer_form /\ exact = Value(text)[ptr - 1]
  /\ state \notin IntegerStates =>
       /\ ~accumulator.integer_form /\ IntegerEnd(text) \in 1..(ptr - 1)
       /\ exact = Value(text)[IntegerEnd(text) - 1]
Refused == cached = Failure("ERROR") /\ ~is_valid_number(text)
Finished ==
  /\ is_valid_number(text) <=> kason_number_complete(state)
  /\ is_valid_number(text) /\ kind # "DOUBLE" => cached = kason_value_to(kind, text)
TextInv == text \in Seq(Byte) /\ ptr \in 1..(Len(text) + 1)
ReadInv ==
  /\ TextInv
  /\ state = "INVALID" => Refused
  /\ state # "INVALID" => Reading /\ Counting /\ (Done => Finished)

\* The marks of an accumulator that a digit leaves alone.
Marked(acc, t) == t.negative = acc.negative /\ t.integer_form = acc.integer_form
LEMMA DigitMarks ==
  ASSUME NEW acc \in Accumulators, NEW digit, NEW s
  PROVE  Marked(acc, FeedDigit(acc, digit, s))
<1>1. ASSUME NEW a \in Accumulators PROVE Marked(a, IntegerDigit(a, digit))
  BY DEF IntegerDigit, Marked, Accumulators
<1>2. ASSUME NEW a, DOMAIN a = DOMAIN acc PROVE Marked(a, DropDigit(a, digit))
  BY <1>2 DEF DropDigit, Marked, Accumulators
<1>3. ASSUME NEW a, DOMAIN a = DOMAIN acc PROVE Marked(a, DoubleDigit(a, digit))
  <2>1. CASE ~a.nonzero /\ digit = 0
    BY <2>1 DEF DoubleDigit, Marked
  <2>2. CASE (a.nonzero \/ digit # 0) /\ a.significant_digits < SIGNIFICANT
    <3> DEFINE t == [a EXCEPT !.nonzero = TRUE, !.significand = @ * 10 + digit,
                              !.significant_digits = @ + 1]
    <3>1. DoubleDigit(a, digit) = t
      BY <2>2 DEF DoubleDigit
    <3>2. Marked(a, t)
      BY <1>3 DEF Marked, Accumulators
    <3> QED BY <3>1, <3>2
  <2>3. CASE (a.nonzero \/ digit # 0) /\ ~(a.significant_digits < SIGNIFICANT)
    <3> DEFINE t == [a EXCEPT !.nonzero = TRUE]
    <3>1. DoubleDigit(a, digit) = DropDigit(t, digit)
      BY <2>3 DEF DoubleDigit
    <3>2. Marked(a, t) /\ DOMAIN t = DOMAIN acc
      BY <1>3 DEF Marked, Accumulators
    <3> HIDE DEF t
    <3>3. Marked(t, DropDigit(t, digit))
      BY <1>2, <3>2
    <3> QED BY <3>1, <3>2, <3>3 DEF Marked
  <2> QED BY <2>1, <2>2, <2>3
<1>4. Marked(acc, FractionDigit(acc, digit))
  <2> DEFINE t == [acc EXCEPT !.fraction_digits = Capped(@)]
  <2>1. Marked(acc, t) /\ DOMAIN t = DOMAIN acc
    BY DEF Marked, Accumulators
  <2>2. FractionDigit(acc, digit) = DoubleDigit(t, digit)
    BY DEF FractionDigit
  <2> HIDE DEF t
  <2>3. Marked(t, DoubleDigit(t, digit))
    BY <1>3, <2>1
  <2> QED BY <2>1, <2>2, <2>3 DEF Marked
<1>5. Marked(acc, ExponentDigit(acc, digit))
  BY DEF ExponentDigit, Marked, Accumulators
<1>6. Marked(acc, DoubleDigit(acc, digit)) /\ Marked(acc, IntegerDigit(acc, digit))
      /\ Marked(acc, acc)
  BY <1>1, <1>3 DEF Marked
<1>7. CASE s \in {"ZERO", "INTEGER"}
  BY <1>6, <1>7 DEF FeedDigit
<1>8. CASE s = "FRACTION" /\ kind = "DOUBLE"
  BY <1>4, <1>8 DEF FeedDigit
<1>9. CASE s = "EXPONENT" /\ kind = "DOUBLE"
  BY <1>5, <1>9 DEF FeedDigit
<1>10. CASE /\ s \notin {"ZERO", "INTEGER"}
            /\ ~(s = "FRACTION" /\ kind = "DOUBLE") /\ ~(s = "EXPONENT" /\ kind = "DOUBLE")
  <2>1. FeedDigit(acc, digit, s) = acc
    BY <1>10 DEF FeedDigit
  <2> QED BY <1>6, <2>1
<1> QED BY <1>7, <1>8, <1>9, <1>10

LEMMA FeedMarks ==
  ASSUME NEW acc \in Accumulators, NEW c, NEW s
  PROVE  LET next == kason_number_accumulator_feed(acc, c, s)
         IN  /\ next.negative <=> acc.negative \/ s = "SIGN"
             /\ next.integer_form <=> acc.integer_form /\ ~NotInteger(s)
<1> DEFINE next == kason_number_accumulator_feed(acc, c, s)
           f == Formed(acc, s)
<1>1. f \in Accumulators /\ f.negative = acc.negative
      /\ (f.integer_form <=> acc.integer_form /\ ~NotInteger(s))
  <2>1. acc.integer_form \in BOOLEAN
    BY DEF Accumulators
  <2>2. CASE NotInteger(s)
    BY <2>1, <2>2 DEF Formed, Accumulators
  <2>3. CASE ~NotInteger(s)
    BY <2>1, <2>3 DEF Formed
  <2> QED BY <2>2, <2>3
<1>2. CASE s = "SIGN"
  <2>1. next = [acc EXCEPT !.negative = TRUE]
    BY <1>2 DEF kason_number_accumulator_feed
  <2>2. next.negative = TRUE /\ next.integer_form = acc.integer_form
    BY <2>1 DEF Accumulators
  <2>3. ~NotInteger(s)
    BY <1>2 DEF NotInteger
  <2> QED BY <1>2, <2>2, <2>3, Zenon
<1>3. CASE s = "EXPONENT_SIGN"
  <2>1. next = [f EXCEPT !.exponent_negative = (c = MINUS)]
    BY <1>3 DEF kason_number_accumulator_feed
  <2> HIDE DEF f
  <2>2. next.negative = f.negative /\ next.integer_form = f.integer_form
    BY <1>1, <2>1 DEF Accumulators
  <2>3. s # "SIGN"
    BY <1>3
  <2> QED BY <1>1, <2>2, <2>3, Zenon
<1>4. CASE s \notin {"SIGN", "EXPONENT_SIGN"} /\ is_digit(c)
  <2>1. next = FeedDigit(f, c - ZERO, s)
    BY <1>4 DEF kason_number_accumulator_feed
  <2> HIDE DEF f
  <2>2. Marked(f, next)
    BY <1>1, <2>1, DigitMarks
  <2> QED BY <1>1, <1>4, <2>2, Zenon DEF Marked
<1>5. CASE s \notin {"SIGN", "EXPONENT_SIGN"} /\ ~is_digit(c)
  <2>1. next = f
    BY <1>5 DEF kason_number_accumulator_feed
  <2> QED BY <1>1, <1>5, <2>1
<1> QED BY <1>2, <1>3, <1>4, <1>5

\* Which states follow which.
LEMMA StateFollows ==
  ASSUME NEW p, NEW from \in NumberStates, NEW c, p = 1 <=> from = "NONE",
         NextOf(p, from, c) \in NumberStates \ {"NONE"}
  PROVE  LET next == NextOf(p, from, c)
         IN  /\ next = "SIGN" <=> p = 1 /\ c = MINUS
             /\ next \in IntegerStates =>
                  from \in IntegerStates /\ (next # "SIGN" => is_digit(c) /\ next \in {"ZERO", "INTEGER"})
             /\ next \notin IntegerStates /\ from \in IntegerStates =>
                  from \in {"ZERO", "INTEGER"} /\ ~is_digit(c)
             /\ NotInteger(next) <=> next \notin IntegerStates
<1> DEFINE next == NextOf(p, from, c)
<1>1. NotInteger(next) <=> next \notin IntegerStates
  BY DEF NumberStates, IntegerStates, NotInteger
<1>2. next = IF p = 1 THEN kason_number_begin(c) ELSE kason_number_next(from, c)
  BY DEF NextOf
<1>3. next \in NumberStates \ {"NONE"}
  OBVIOUS
<1> HIDE DEF next
<1>4. ASSUME next = kason_number_begin(c), from \in {"NONE", "SIGN"}, p = 1 \/ c # MINUS
      PROVE  /\ next = "SIGN" <=> p = 1 /\ c = MINUS
             /\ next \in IntegerStates =>
                  from \in IntegerStates /\ (next # "SIGN" => is_digit(c) /\ next \in {"ZERO", "INTEGER"})
             /\ next \notin IntegerStates /\ from \in IntegerStates =>
                  from \in {"ZERO", "INTEGER"} /\ ~is_digit(c)
  <2>1. CASE c = MINUS
    BY <1>4, <2>1, Begins, Classes DEF IntegerStates
  <2>2. CASE is_digit(c)
    BY <1>4, <2>2, Begins, Classes DEF IntegerStates
  <2>3. CASE c # MINUS /\ ~is_digit(c)
    BY <1>3, <1>4, <2>3, Begins DEF NumberStates
  <2> QED BY <2>1, <2>2, <2>3
<1>5. CASE p = 1
  BY <1>1, <1>2, <1>4, <1>5 DEF next
<1>6. CASE p # 1 /\ from = "SIGN"
  <2>1. c # MINUS
    BY <1>2, <1>3, <1>6, Continues DEF NumberStates
  <2> QED BY <1>1, <1>2, <1>4, <1>6, <2>1, Continues DEF next
<1>7. CASE p # 1 /\ from = "ZERO"
  <2>1. next = AfterInteger(c)
    BY <1>2, <1>7, Continues
  <2>2. (c = POINT \/ is_exponent(c)) /\ next \in {"DECIMAL_POINT", "EXPONENT_MARK"}
    BY <1>3, <2>1, AfterIntegers DEF NumberStates
  <2> QED BY <1>1, <1>7, <2>2, Classes DEF IntegerStates, next
<1>8. CASE p # 1 /\ from = "INTEGER"
  <2>1. next = DigitOr(c, "INTEGER", AfterInteger(c))
    BY <1>2, <1>8, Continues
  <2>2. CASE is_digit(c)
    BY <1>1, <1>8, <2>1, <2>2 DEF IntegerStates, DigitOr, next
  <2>3. CASE ~is_digit(c)
    <3>1. next \in {"DECIMAL_POINT", "EXPONENT_MARK"}
      BY <1>3, <2>1, <2>3, AfterIntegers DEF NumberStates, DigitOr
    <3> QED BY <1>1, <1>8, <2>3, <3>1 DEF IntegerStates, next
  <2> QED BY <2>2, <2>3
<1>9. CASE p # 1 /\ from \notin {"SIGN", "ZERO", "INTEGER"}
  <2>1. from \in {"DECIMAL_POINT", "FRACTION", "EXPONENT_MARK", "EXPONENT_SIGN", "EXPONENT"}
    BY <1>9 DEF NumberStates
  <2>2. next \in {"FRACTION", "EXPONENT_MARK", "EXPONENT_SIGN", "EXPONENT"}
    <3>1. next # "INVALID"
      BY <1>3 DEF NumberStates
    <3> QED BY <1>2, <1>9, <2>1, <3>1, Continues DEF DigitOr
  <2> QED BY <1>1, <1>9, <2>1, <2>2 DEF IntegerStates, next
<1> QED BY <1>5, <1>6, <1>7, <1>8, <1>9

LEMMA FeedReads ==
  ASSUME TextInv, state # "INVALID", Reading, Counting, accumulator \in Accumulators,
         cached = NoResult, ptr <= Len(text), NEW s, s = NextState(text[ptr]), Feed(text[ptr], s)
  PROVE  ReadInv'
<1> DEFINE c == text[ptr]
<1>1. /\ text \in Seq(Byte) /\ ptr \in 1..Len(text) /\ ptr \in Nat /\ Len(text) \in Nat
      /\ At(text, ptr) = c /\ text[ptr] = c
  BY AtIs DEF TextInv
<1>2. /\ s # "INVALID" /\ state' = s /\ ptr' = ptr + 1 /\ text' = text /\ cached' = NoResult
      /\ accumulator' = kason_number_accumulator_feed(accumulator, c, s)
      /\ exact' = ExactAfter(c, s)
  BY DEF Feed
<1>3. s = NextOf(ptr, state, c)
  BY DEF NextState, NextOf
<1>4. Shape(text, ptr, state) /\ (ptr = 1 <=> state = "NONE")
  BY DEF Reading
<1>5. Shape(text, ptr + 1, s)
  BY <1>1, <1>2, <1>3, <1>4, ShapeStep
<1>6. state \in NumberStates /\ s \in NumberStates
  BY <1>4, <1>5, ShapeStates
<1>7. s # "NONE"
  BY <1>1, <1>5 DEF Shape
<1>8. /\ s = "SIGN" <=> ptr = 1 /\ c = MINUS
      /\ s \in IntegerStates =>
           state \in IntegerStates /\ (s # "SIGN" => is_digit(c) /\ s \in {"ZERO", "INTEGER"})
      /\ s \notin IntegerStates /\ state \in IntegerStates =>
           state \in {"ZERO", "INTEGER"} /\ ~is_digit(c)
      /\ NotInteger(s) <=> s \notin IntegerStates
  BY <1>3, <1>4, <1>6, <1>7, StateFollows
<1>9. /\ accumulator'.negative <=> accumulator.negative \/ s = "SIGN"
      /\ accumulator'.integer_form <=> accumulator.integer_form /\ ~NotInteger(s)
  BY <1>2, FeedMarks
<1>10. Reading'
  <2>1. accumulator'.negative <=> At(text, 1) = MINUS
    BY <1>1, <1>8, <1>9 DEF Reading
  <2>2. Shape(text', ptr', state') /\ (ptr' = 1 <=> state' = "NONE")
    BY <1>1, <1>2, <1>5, <1>7
  <2>3. ptr' > 1
    BY <1>1, <1>2
  <2> QED BY <1>2, <2>1, <2>2, <2>3 DEF Reading
<1>11. Counting'
  <2>1. CASE s \in IntegerStates
    <3>1. state \in IntegerStates /\ accumulator.integer_form /\ exact = Value(text)[ptr - 1]
      BY <1>8, <2>1 DEF Counting
    <3>2. exact' = Value(text)[ptr]
      <4>1. CASE s = "SIGN"
        <5>1. ~is_digit(c)
          BY <1>8, <4>1, Classes
        <5> QED BY <1>1, <1>2, <3>1, <5>1, ValueStep DEF ExactAfter
      <4>2. CASE s # "SIGN"
        <5>1. is_digit(c) /\ s \in {"ZERO", "INTEGER"}
          BY <1>8, <2>1, <4>2
        <5> QED BY <1>1, <1>2, <3>1, <5>1, ValueStep DEF ExactAfter
      <4> QED BY <4>1, <4>2
    <3>3. ptr' - 1 = ptr /\ accumulator'.integer_form
      BY <1>1, <1>2, <1>8, <1>9, <2>1, <3>1
    <3> QED BY <1>2, <2>1, <3>2, <3>3 DEF Counting
  <2>2. CASE s \notin IntegerStates
    <3>1. exact' = exact
      BY <1>2, <2>2 DEF ExactAfter, IntegerStates
    <3>2. ~accumulator'.integer_form
      BY <1>8, <1>9, <2>2
    <3>3. IntegerEnd(text) \in 1..ptr /\ exact = Value(text)[IntegerEnd(text) - 1]
      <4>1. CASE state \in IntegerStates
        <5>1. state \in {"ZERO", "INTEGER"} /\ ~is_digit(At(text, ptr))
          BY <1>1, <1>8, <2>2, <4>1
        <5>2. IntegerEnd(text) = ptr
          BY <1>1, <1>4, <5>1, IntegerEndIs
        <5> QED BY <1>1, <4>1, <5>2 DEF Counting
      <4>2. CASE state \notin IntegerStates
        BY <1>1, <4>2 DEF Counting
      <4> QED BY <4>1, <4>2
    <3>4. ptr' - 1 = ptr
      BY <1>1, <1>2
    <3> QED BY <1>2, <2>2, <3>1, <3>2, <3>3, <3>4 DEF Counting
  <2> QED BY <2>1, <2>2
<1>12. TextInv'
  BY <1>1, <1>2 DEF TextInv
<1>13. ~Done'
  BY <1>2 DEF Done
<1> QED BY <1>2, <1>10, <1>11, <1>12, <1>13 DEF ReadInv

\* The end of an integer.
LEMMA FinishAgrees ==
  ASSUME text \in Seq(Byte), ptr = Len(text) + 1, kason_number_complete(state),
         Reading, Counting, accumulator \in Accumulators, exact \in Nat,
         kind \in Kinds \ {"DOUBLE"}, Holds(accumulator, exact), is_valid_number(text)
  PROVE  IntegerResult(accumulator) = kason_value_to(kind, text)
<1> DEFINE m == kason_integer_magnitude(text)
           g == accumulator.negative
           i == IntegerEnd(text)
           r == kason_value_to(kind, text)
<1>1. /\ Len(text) \in Nat /\ i # 0 /\ UINT64_MAX \in Nat /\ kind \in {"SIGNED", "UNSIGNED"}
      /\ g \in BOOLEAN
  BY AtIs, IsIntegerIs, WidthAssumption DEF Kinds, Accumulators
<1>2. g <=> IsNegative(text)
  <2>1. ptr > 1
    BY <1>1, IntegerPart
  <2> QED BY <2>1 DEF Reading, IsNegative
<1>3. (accumulator.integer_form <=> i = Len(text) + 1) /\ exact = Value(text)[i - 1]
  <2>1. CASE state \in IntegerStates
    <3>1. state \in {"ZERO", "INTEGER"}
      BY <2>1 DEF IntegerStates, kason_number_complete
    <3>2. i = ptr
      BY <1>1, <3>1, AtIs, IntegerEndIs DEF Reading
    <3> QED BY <2>1, <3>2 DEF Counting
  <2>2. CASE state \notin IntegerStates
    BY <1>1, <2>2 DEF Counting
  <2> QED BY <2>1, <2>2
<1>4. m = IF i = Len(text) + 1 THEN Kept(exact) ELSE Stopped(exact)
  <2>1. i = Len(text) + 1 => Value(text)[Len(text)] = exact
    BY <1>1, <1>3
  <2> QED BY <1>1, <1>3, <2>1, MagnitudeIs
<1>5. r = OfMagnitude(kind, text, m)
  BY DEF kason_value_to
<1>6. \A f, v : Magnitude(f, v).result = f /\ Magnitude(f, v).value = v
  BY DEF Magnitude
<1> HIDE DEF m, r, i
<1>7. CASE accumulator.integer_overflow
  <2>1. m = Magnitude("RANGE", 0)
    BY <1>4, <1>7 DEF Holds, Kept, Stopped
  <2>2. r = Failure("RANGE")
    BY <1>5, <1>6, <2>1 DEF OfMagnitude, OrFailure
  <2> QED BY <1>7, <2>2 DEF IntegerResult, r
<1>8. CASE ~accumulator.integer_overflow /\ ~accumulator.integer_form
  <2>1. m = Magnitude("ERROR", 0)
    BY <1>3, <1>4, <1>8 DEF Holds, Stopped
  <2>2. r = Failure("ERROR")
    BY <1>5, <1>6, <2>1 DEF OfMagnitude, OrFailure
  <2> QED BY <1>8, <2>2 DEF IntegerResult, r
<1>9. CASE ~accumulator.integer_overflow /\ accumulator.integer_form
  <2>1. m = Magnitude("SUCCESS", exact) /\ accumulator.magnitude = exact
    BY <1>3, <1>4, <1>9 DEF Holds, Kept
  <2>2. g = IsNegative(text)
    BY <1>1, <1>2 DEF IsNegative
  <2>3. IntegerResult(accumulator) =
          IF kind = "SIGNED" THEN SignedResult(g, exact) ELSE UnsignedResult(g, exact)
    BY <1>9, <2>1 DEF IntegerResult
  <2>4. r = IF kind = "SIGNED" THEN SignedResult(IsNegative(text), exact)
                               ELSE UnsignedResult(IsNegative(text), exact)
    BY <1>5, <1>6, <2>1 DEF OfMagnitude, OrFailure
  <2> QED BY <2>2, <2>3, <2>4 DEF r
<1> QED BY <1>7, <1>8, <1>9

LEMMA FinishReads ==
  ASSUME IInv, ReadInv, Finish
  PROVE  ReadInv'
<1>1. /\ cached = NoResult /\ ptr > Len(text)
      /\ UNCHANGED <<text, kind, ptr, state, accumulator, exact>>
  BY DEF Finish
<1>2. text \in Seq(Byte) /\ Len(text) \in Nat /\ ptr = Len(text) + 1
  BY <1>1, AtIs DEF ReadInv, TextInv
<1>3. NoResult # Failure("ERROR")
  <2>1. NoResult.result = "NONE" /\ Failure("ERROR").result = "ERROR"
    BY DEF NoResult, Failure
  <2> QED BY <2>1
<1>4. state # "INVALID" /\ Reading /\ Counting
  BY <1>1, <1>3 DEF ReadInv, Refused
<1>5. is_valid_number(text) <=> kason_number_complete(state)
  BY <1>2, <1>4, ShapeEnds DEF Reading
<1>6. ASSUME kind # "DOUBLE", is_valid_number(text) PROVE cached' = kason_value_to(kind, text)
  <2>1. cached' = kason_number_accumulator_finish(accumulator)
    BY <1>5, <1>6 DEF Finish
  <2>2. cached' = IntegerResult(accumulator)
    BY <1>6, <2>1 DEF kason_number_accumulator_finish
  <2>3. /\ accumulator \in Accumulators /\ exact \in Nat /\ kind \in Kinds \ {"DOUBLE"}
        /\ Holds(accumulator, exact)
    BY <1>6 DEF IInv, AccInv, ExactInv
  <2> QED BY <1>2, <1>4, <1>5, <1>6, <2>2, <2>3, FinishAgrees
<1>7. Finished'
  BY <1>1, <1>5, <1>6 DEF Finished
<1>8. TextInv' /\ Reading' /\ Counting'
  <2>1. TextInv
    BY DEF ReadInv
  <2> QED BY <1>1, <1>4, <2>1 DEF TextInv, Reading, Counting
<1> QED BY <1>1, <1>4, <1>7, <1>8 DEF ReadInv

LEMMA InitIsInv == Init => IInv
<1> SUFFICES ASSUME Init PROVE IInv
  OBVIOUS
<1>1. accumulator = Empty /\ exact = 0 /\ cached.result = "NONE" /\ kind \in Kinds
  BY DEF Init, NoResult, Failure
<1>2. Empty \in Accumulators /\ Fitting(Empty) /\ Holds(Empty, 0)
  BY Powers, WidthAssumption, DoubleAssumption DEF Empty, Accumulators, Fitting, Holds
<1> QED BY <1>1, <1>2 DEF IInv, AccInv, ExactInv, ReadExactly

LEMMA NextKeeps == IInv /\ [Next]_numberVars => IInv'
<1> SUFFICES ASSUME IInv, [Next]_numberVars PROVE IInv'
  OBVIOUS
<1>1. ASSUME NEW c, NEW s, Feed(c, s) PROVE IInv'
  <2>1. /\ accumulator' = kason_number_accumulator_feed(accumulator, c, s)
        /\ exact' = ExactAfter(c, s) /\ UNCHANGED kind /\ cached' = NoResult
    BY <1>1 DEF Feed
  <2>2. exact \in Nat /\ Sound(accumulator, exact)
    BY DEF IInv, AccInv, ExactInv, Sound
  <2>3. Sound(accumulator', exact') /\ exact' \in Nat
    BY <2>1, <2>2, FeedKeeps
  <2>4. cached'.result = "NONE"
    BY <2>1 DEF NoResult, Failure
  <2> QED BY <2>1, <2>3, <2>4 DEF IInv, AccInv, ExactInv, Sound, ReadExactly, Holds, Fitting
<1>2. CASE Fail
  <2>1. UNCHANGED <<kind, accumulator, exact>> /\ cached'.result = "ERROR"
    BY <1>2 DEF Fail, Failure
  <2> QED BY <2>1 DEF IInv, AccInv, ExactInv, ReadExactly, Holds, Fitting
<1>3. CASE Finish
  <2>1. /\ UNCHANGED <<kind, accumulator, exact>>
        /\ \/ cached' = kason_number_accumulator_finish(accumulator)
           \/ cached'.result = "ERROR"
    BY <1>3 DEF Finish, Failure
  <2>2. ReadExactly'
    <3>1. CASE kind = "DOUBLE" \/ cached'.result = "ERROR"
      BY <2>1, <3>1 DEF ReadExactly
    <3>2. CASE kind # "DOUBLE" /\ cached'.result # "ERROR"
      BY <2>1, <3>2, FinishIsExact
    <3> QED BY <3>1, <3>2
  <2> QED BY <2>1, <2>2 DEF IInv, AccInv, ExactInv, Holds, Fitting
<1>4. CASE UNCHANGED numberVars
  BY <1>4 DEF numberVars, IInv, AccInv, ExactInv, ReadExactly, Fed, Holds, Fitting
<1> QED BY <1>1, <1>2, <1>3, <1>4 DEF Next, Read

LEMMA InitReads == Init => ReadInv
<1> SUFFICES ASSUME Init PROVE ReadInv
  OBVIOUS
<1>1. /\ text \in Seq(Byte) /\ ptr = 1 /\ state = "NONE" /\ accumulator = Empty
      /\ cached = NoResult /\ exact = 0
  BY TextsAssumption DEF Init
<1>2. TextInv
  BY <1>1, AtIs DEF TextInv
<1>3. Shape(text, ptr, state)
  BY <1>1 DEF Shape
<1>4. ~Empty.negative
  BY DEF Empty
<1>5. Reading
  BY <1>1, <1>3, <1>4 DEF Reading
<1>6. Empty.integer_form
  BY DEF Empty
<1>7. Counting
  BY <1>1, <1>6, ValueIs DEF Counting, IntegerStates
<1> QED BY <1>1, <1>2, <1>5, <1>7 DEF ReadInv, Done

LEMMA NextReads == IInv /\ ReadInv /\ [Next]_numberVars => ReadInv'
<1> SUFFICES ASSUME IInv, ReadInv, [Next]_numberVars PROVE ReadInv'
  OBVIOUS
<1>1. ASSUME cached = NoResult PROVE state # "INVALID" /\ Reading /\ Counting
  <2>1. NoResult.result = "NONE" /\ Failure("ERROR").result = "ERROR"
    BY DEF NoResult, Failure
  <2> QED BY <1>1, <2>1 DEF ReadInv, Refused
<1>2. TextInv /\ accumulator \in Accumulators
  BY DEF ReadInv, IInv, AccInv
<1>3. CASE Read
  <2> DEFINE c == text[ptr]
             s == NextState(c)
  <2>1. /\ cached = NoResult /\ ptr <= Len(text)
        /\ Feed(c, s) \/ (s = "INVALID" /\ Fail)
    BY <1>3 DEF Read
  <2>2. CASE Feed(c, s)
    BY <1>1, <1>2, <2>1, <2>2, FeedReads
  <2>3. CASE s = "INVALID" /\ Fail
    <3>1. /\ text \in Seq(Byte) /\ ptr \in 1..Len(text) /\ At(text, ptr) = c
      BY <1>2, <2>1, AtIs DEF TextInv
    <3>2. NextOf(ptr, state, c) = "INVALID"
      BY <2>3 DEF NextState, NextOf
    <3>3. ~is_valid_number(text)
      BY <1>1, <2>1, <3>1, <3>2, ShapeStep DEF Reading
    <3>4. Refused' /\ TextInv' /\ state' = "INVALID"
      BY <1>2, <2>3, <3>3 DEF Fail, Refused, TextInv
    <3> QED BY <3>4 DEF ReadInv
  <2> QED BY <2>1, <2>2, <2>3
<1>4. CASE Finish
  BY <1>4, FinishReads
<1>5. CASE UNCHANGED numberVars
  BY <1>5 DEF numberVars, ReadInv, TextInv, Reading, Counting, Refused, Finished, Done
<1> QED BY <1>3, <1>4, <1>5 DEF Next

-----------------------------------------------------------------------------
(* A double that is converted from its slice is read like one that is      *)
(* parsed.                                                                 *)

LEMMA NextStates ==
  ASSUME NEW p, NEW from, NEW c
  PROVE  NextOf(p, from, c) \in NumberStates \cup {"INVALID"}
<1>1. \A d : kason_number_begin(d) \in {"SIGN", "ZERO", "INTEGER", "INVALID"}
  BY DEF kason_number_begin
<1>2. AfterInteger(c) \in {"DECIMAL_POINT", "EXPONENT_MARK", "INVALID"}
  BY DEF AfterInteger
<1>3. CASE from \in NumberStates \ {"NONE"}
  BY <1>1, <1>2, <1>3, Continues DEF NextOf, NumberStates, DigitOr
<1>4. CASE from \notin NumberStates \ {"NONE"}
  <2>1. kason_number_next(from, c) = "INVALID"
    BY <1>4 DEF kason_number_next, NumberStates
  <2> QED BY <1>1, <2>1 DEF NextOf, NumberStates
<1> QED BY <1>3, <1>4

\* What was read before each position, from what was read before the last.
LEMMA ReadUpToIs ==
  ASSUME kind = "DOUBLE", exact \in Nat, NEW s \in Seq(Byte)
  PROVE  /\ ReadUpTo(s)[0] = Begun
         /\ \A p \in 1..Len(s) :
              ReadUpTo(s)[p] =
                ReadByte(ReadUpTo(s)[p - 1], s[p], NextOf(p, ReadUpTo(s)[p - 1].state, s[p]))
<1> DEFINE S == 0..Len(s)
           A == {a \in Accumulators : Fitting(a)}
           T == [state : NumberStates \cup {"INVALID"}, accumulator : A]
           m == [p \in S |-> p]
           after(read, p) == ReadByte(read, s[p], NextOf(p, read.state, s[p]))
           body(f, p) == IF p = 0 THEN Begun ELSE after(f[p - 1], p)
           F == [f \in [S -> T] |-> [p \in S |-> body(f, p)]]
           upto == CHOOSE f : f = [p \in 0..Len(s) |-> body(f, p)]
<1>1. /\ Len(s) \in Nat /\ m \in [S -> Nat] /\ \A p \in S : m[p] = p
      /\ \A p \in S : p # 0 => p - 1 \in S /\ p - 1 < p
  OBVIOUS
<1>2. Begun \in T
  <2>1. Empty \in A
    <3>1. Empty \in Accumulators
      BY DEF Empty, Accumulators
    <3>2. Empty.magnitude = 0 /\ Empty.significand = 0 /\ Empty.significant_digits = 0
      BY DEF Empty
    <3>3. Fitting(Empty)
      BY <3>2, Powers, WidthAssumption, DoubleAssumption DEF Fitting
    <3> QED BY <3>1, <3>3
  <2> HIDE DEF A
  <2> QED BY <2>1 DEF Begun, NumberStates
<1>3. ASSUME NEW read \in T, NEW p PROVE after(read, p) \in T
  <2> DEFINE st   == NextOf(p, read.state, s[p])
             next == kason_number_accumulator_feed(read.accumulator, s[p], st)
  <2>1. st \in NumberStates \cup {"INVALID"}
    BY NextStates
  <2>2. Sound(read.accumulator, exact)
    BY DEF Sound
  <2>3. next \in A
    BY <2>2, FeedKeeps DEF Sound
  <2> HIDE DEF A, st, next
  <2>4. read.accumulator \in A
    OBVIOUS
  <2>5. after(read, p) = [state |-> st, accumulator |-> IF st = "INVALID" THEN read.accumulator ELSE next]
    BY DEF ReadByte, st, next
  <2> QED BY <2>1, <2>3, <2>4, <2>5
<1> HIDE DEF after, T
<1>4. F \in [[S -> T] -> [S -> T]]
  <2>1. \A f \in [S -> T] : \A p \in S : body(f, p) \in T
    BY <1>1, <1>2, <1>3
  <2> HIDE DEF body
  <2> QED BY <2>1
<1>5. ASSUME NEW g \in [S -> T], NEW h \in [S -> T], NEW p \in S,
             \A r \in S : m[r] < m[p] => g[r] = h[r]
      PROVE  F[g][p] = F[h][p]
  <2>1. body(g, p) = body(h, p)
    <3>1. p # 0 => g[p - 1] = h[p - 1]
      BY <1>1, <1>5
    <3> QED BY <3>1
  <2> HIDE DEF body
  <2> QED BY <2>1
<1>6. ReadUpTo(s) = upto
  BY DEF ReadUpTo, after, NextOf
<1>7. PICK g : Solution(S, T, F, g)
  <2>1. T # {}
    BY <1>2
  <2> HIDE DEF S, m, F
  <2>2. Descends(S, T, m, F)
    BY <1>5 DEF Descends
  <2>3. Recursive(S, T, m, F)
    BY <1>1, <1>4, <2>1, <2>2 DEF Recursive
  <2> QED BY <2>3, Recursion
<1>8. g = [p \in 0..Len(s) |-> body(g, p)]
  <2> HIDE DEF body
  <2> QED BY <1>7 DEF Solution
<1>9. upto = [p \in 0..Len(s) |-> body(upto, p)]
  <2> HIDE DEF body
  <2> QED BY <1>8
<1> HIDE DEF upto
<1>10. \A p \in 0..Len(s) : upto[p] = body(upto, p)
  <2> HIDE DEF body
  <2> QED BY <1>9
<1>11. /\ upto[0] = Begun
       /\ \A p \in 1..Len(s) : upto[p] = after(upto[p - 1], p)
  BY <1>1, <1>10
<1> QED BY <1>6, <1>11 DEF after

\* Until it is converted, a text was read as far as its slice up to there.
Retold ==
  kind = "DOUBLE" =>
    IF cached = NoResult
    THEN ReadUpTo(text)[ptr - 1] = [state |-> state, accumulator |-> accumulator]
    ELSE is_valid_number(text) => cached = kason_value_to_double(text)

LEMMA InitRetold == Init => Retold
<1> SUFFICES ASSUME Init, kind = "DOUBLE"
             PROVE  ReadUpTo(text)[ptr - 1] = [state |-> state, accumulator |-> accumulator]
  BY DEF Init, Retold
<1>1. text \in Seq(Byte) /\ ptr - 1 = 0 /\ exact \in Nat
  BY TextsAssumption DEF Init
<1>2. ReadUpTo(text)[0] = Begun
  BY <1>1, ReadUpToIs
<1> QED BY <1>1, <1>2 DEF Init, Begun

LEMMA FeedRetold ==
  ASSUME TextInv, exact \in Nat, Retold, cached = NoResult, ptr <= Len(text),
         NEW s, s = NextState(text[ptr]), Feed(text[ptr], s)
  PROVE  Retold'
<1>1. /\ s # "INVALID" /\ state' = s /\ ptr' = ptr + 1 /\ text' = text /\ kind' = kind
      /\ cached' = NoResult
      /\ accumulator' = kason_number_accumulator_feed(accumulator, text[ptr], s)
  BY DEF Feed
<1> SUFFICES ASSUME kind = "DOUBLE"
             PROVE  ReadUpTo(text)[ptr] = [state |-> s, accumulator |-> accumulator']
  <2>1. ptr' - 1 = ptr
    BY <1>1 DEF TextInv
  <2>2. ReadUpTo(text)' = ReadUpTo(text)
    BY <1>1 DEF ReadUpTo, ReadByte, kason_number_accumulator_feed, FeedDigit
  <2> QED BY <1>1, <2>1, <2>2 DEF Retold
<1> DEFINE read == ReadUpTo(text)[ptr - 1]
<1>2. text \in Seq(Byte) /\ ptr \in 1..Len(text)
  BY DEF TextInv
<1>3. read = [state |-> state, accumulator |-> accumulator]
  BY DEF Retold
<1>4. s = NextOf(ptr, state, text[ptr])
  BY DEF NextState, NextOf
<1>5. ReadUpTo(text)[ptr] = ReadByte(read, text[ptr], NextOf(ptr, read.state, text[ptr]))
  BY <1>2, ReadUpToIs
<1> HIDE DEF read
<1>6. read.state = state /\ read.accumulator = accumulator
  BY <1>3
<1>7. ReadUpTo(text)[ptr] = ReadByte(read, text[ptr], s)
  BY <1>4, <1>5, <1>6
<1> QED BY <1>1, <1>6, <1>7 DEF ReadByte

LEMMA FinishRetold ==
  ASSUME TextInv, Retold, Finish, is_valid_number(text) <=> kason_number_complete(state)
  PROVE  Retold'
<1>1. /\ cached = NoResult /\ ptr > Len(text)
      /\ UNCHANGED <<text, kind, ptr, state, accumulator, exact>>
      /\ kason_number_complete(state) => cached' = kason_number_accumulator_finish(accumulator)
  BY DEF Finish
<1>2. text' = text /\ kind' = kind
  BY <1>1
<1>3. ReadUpTo(text)' = ReadUpTo(text)
  BY <1>1 DEF ReadUpTo, ReadByte, kason_number_accumulator_feed, FeedDigit
<1>4. kason_value_to_double(text)' = kason_value_to_double(text)
  BY <1>2, <1>3 DEF kason_value_to_double
<1>5. ASSUME kind = "DOUBLE"
      PROVE  ReadUpTo(text)[Len(text)] = [state |-> state, accumulator |-> accumulator]
  <2>1. Len(text) \in Nat /\ ptr - 1 = Len(text)
    BY <1>1 DEF TextInv
  <2> QED BY <1>1, <1>5, <2>1 DEF Retold
<1>6. ASSUME kind = "DOUBLE", is_valid_number(text) PROVE cached' = kason_value_to_double(text)
  <2>1. cached' = DoubleResult(accumulator)
    BY <1>1, <1>6 DEF kason_number_accumulator_finish
  <2>2. kason_value_to_double(text) = DoubleResult(accumulator)
    BY <1>5, <1>6 DEF kason_value_to_double, OfDouble
  <2> QED BY <2>1, <2>2
<1>7. state' = state /\ accumulator' = accumulator /\ ptr' = ptr
  BY <1>1
<1> QED BY <1>1, <1>2, <1>3, <1>4, <1>6, <1>7 DEF Retold

LEMMA NextRetold == IInv /\ ReadInv /\ Retold /\ [Next]_numberVars => Retold'
<1> SUFFICES ASSUME IInv, ReadInv, Retold, [Next]_numberVars PROVE Retold'
  OBVIOUS
<1>1. TextInv /\ exact \in Nat
  BY DEF ReadInv, IInv, ExactInv
<1>2. NoResult # Failure("ERROR")
  <2>1. NoResult.result = "NONE" /\ Failure("ERROR").result = "ERROR"
    BY DEF NoResult, Failure
  <2> QED BY <2>1
<1>3. CASE Read
  <2> DEFINE c == text[ptr]
             s == NextState(c)
  <2>1. /\ cached = NoResult /\ ptr <= Len(text)
        /\ Feed(c, s) \/ (s = "INVALID" /\ Fail)
    BY <1>3 DEF Read
  <2>2. CASE Feed(c, s)
    BY <1>1, <2>1, <2>2, FeedRetold
  <2>3. CASE s = "INVALID" /\ Fail
    <3>1. state' = "INVALID" /\ cached' = Failure("ERROR")
      BY <2>3 DEF Fail
    <3>2. ReadInv'
      BY NextReads
    <3>3. ~is_valid_number(text')
      BY <3>1, <3>2 DEF ReadInv, Refused
    <3> QED BY <1>2, <3>1, <3>3 DEF Retold
  <2> QED BY <2>1, <2>2, <2>3
<1>4. CASE Finish
  <2>1. state # "INVALID"
    BY <1>2, <1>4 DEF Finish, ReadInv, Refused
  <2>2. is_valid_number(text) <=> kason_number_complete(state)
    <3>1. ptr = Len(text) + 1
      BY <1>1, <1>4 DEF Finish, TextInv
    <3> QED BY <1>1, <2>1, <3>1, ShapeEnds DEF ReadInv, Reading, TextInv
  <2> QED BY <1>1, <1>4, <2>2, FinishRetold
<1>5. CASE UNCHANGED numberVars
  <2>1. UNCHANGED <<text, kind, ptr, state, accumulator, cached, exact>>
    BY <1>5 DEF numberVars
  <2>2. ReadUpTo(text)' = ReadUpTo(text)
    BY <2>1 DEF ReadUpTo, ReadByte, kason_number_accumulator_feed, FeedDigit
  <2>3. kason_value_to_double(text)' = kason_value_to_double(text)
    BY <2>1, <2>2 DEF kason_value_to_double
  <2> QED BY <2>1, <2>2, <2>3 DEF Retold
<1> QED BY <1>3, <1>4, <1>5 DEF Next

LEMMA SpecKeeps == Spec => [](IInv /\ ReadInv /\ Retold)
<1> QED BY InitIsInv, NextKeeps, InitReads, NextReads, InitRetold, NextRetold, PTL DEF Spec

-----------------------------------------------------------------------------
(* Powers of ten, the length of a number and its rounding.                 *)
LEMMA PowerIs ==
  /\ Power[0] = 1
  /\ \A k \in Nat : Power[k] \in Nat /\ Power[k] >= 1 /\ Power[k + 1] = 10 * Power[k]
<1> DEFINE m == [k \in Nat |-> k]
           body(f, k) == IF k = 0 THEN 1 ELSE 10 * f[k - 1]
           F == [f \in [Nat -> Nat] |-> [k \in Nat |-> body(f, k)]]
           power == CHOOSE f : f = [k \in Nat |-> body(f, k)]
<1>1. Power = power
  BY DEF Power
<1>2. F \in [[Nat -> Nat] -> [Nat -> Nat]]
  <2>1. \A f \in [Nat -> Nat] : \A k \in Nat : body(f, k) \in Nat
    <3> SUFFICES ASSUME NEW f \in [Nat -> Nat], NEW k \in Nat PROVE body(f, k) \in Nat
      OBVIOUS
    <3>1. CASE k = 0
      BY <3>1
    <3>2. CASE k # 0
      <4>1. k - 1 \in Nat
        BY <3>2
      <4>2. f[k - 1] \in Nat
        BY <4>1
      <4> QED BY <3>2, <4>2
    <3> QED BY <3>1, <3>2
  <2> HIDE DEF body
  <2> QED BY <2>1
<1>3. ASSUME NEW g \in [Nat -> Nat], NEW h \in [Nat -> Nat], NEW k \in Nat,
             \A r \in Nat : m[r] < m[k] => g[r] = h[r]
      PROVE  F[g][k] = F[h][k]
  <2>1. body(g, k) = body(h, k)
    <3>1. k # 0 => k - 1 \in Nat /\ m[k - 1] < m[k]
      OBVIOUS
    <3> QED BY <1>3, <3>1
  <2> HIDE DEF body
  <2> QED BY <2>1
<1>4. m \in [Nat -> Nat]
  OBVIOUS
<1>5. PICK g : Solution(Nat, Nat, F, g)
  <2> HIDE DEF m, F
  <2>1. Descends(Nat, Nat, m, F)
    BY <1>3 DEF Descends
  <2>2. Recursive(Nat, Nat, m, F)
    BY <1>2, <1>4, <2>1 DEF Recursive
  <2> QED BY <2>2, Recursion
<1>6. g = [k \in Nat |-> body(g, k)]
  BY <1>5 DEF Solution
<1>7. power = [k \in Nat |-> body(power, k)]
  BY <1>6
<1> HIDE DEF power
<1>8. \A k \in Nat : power[k] = IF k = 0 THEN 1 ELSE 10 * power[k - 1]
  BY <1>7
<1>9. power[0] = 1
  BY <1>8
<1>10. \A k \in Nat : power[k + 1] = 10 * power[k]
  <2> SUFFICES ASSUME NEW k \in Nat PROVE power[k + 1] = 10 * power[k]
    OBVIOUS
  <2>1. k + 1 \in Nat /\ k + 1 # 0 /\ (k + 1) - 1 = k
    OBVIOUS
  <2> QED BY <1>8, <2>1
<1> DEFINE P == {k \in Nat : power[k] \in Nat /\ power[k] >= 1}
<1>11. P = Nat
  <2>1. 0 \in P
    BY <1>9
  <2>2. \A k \in P : k + 1 \in P
    <3> SUFFICES ASSUME NEW k \in P PROVE k + 1 \in P
      OBVIOUS
    <3>1. k \in Nat /\ k + 1 \in Nat /\ power[k] \in Nat /\ power[k] >= 1
          /\ power[k + 1] = 10 * power[k]
      BY <1>10
    <3>2. power[k + 1] \in Nat /\ power[k + 1] >= 1
      BY <3>1
    <3> QED BY <3>1, <3>2
  <2> QED BY <2>1, <2>2, SetInduction
<1> QED BY <1>1, <1>9, <1>10, <1>11

LEMMA PowersRise ==
  ASSUME NEW j \in Nat, NEW k \in Nat, j <= k
  PROVE  Power[j] <= Power[k] /\ k < Power[k]
<1> DEFINE P == {i \in Nat : Power[j] <= Power[j + i]}
           Q == {i \in Nat : i < Power[i]}
<1>1. P = Nat
  <2>1. 0 \in P
    BY PowerIs
  <2>2. \A i \in P : i + 1 \in P
    <3> SUFFICES ASSUME NEW i \in P PROVE i + 1 \in P
      OBVIOUS
    <3>1. i \in Nat /\ j + i \in Nat /\ j + (i + 1) = (j + i) + 1 /\ Power[j] <= Power[j + i]
      OBVIOUS
    <3>2. Power[j + (i + 1)] = 10 * Power[j + i] /\ Power[j + i] \in Nat /\ Power[j] \in Nat
      BY <3>1, PowerIs
    <3>3. Power[j] <= Power[j + (i + 1)]
      BY <3>1, <3>2
    <3> QED BY <3>1, <3>3
  <2> QED BY <2>1, <2>2, SetInduction
<1>2. Q = Nat
  <2>1. 0 \in Q
    BY PowerIs
  <2>2. \A i \in Q : i + 1 \in Q
    <3> SUFFICES ASSUME NEW i \in Q PROVE i + 1 \in Q
      OBVIOUS
    <3>1. i \in Nat /\ i < Power[i] /\ Power[i] \in Nat /\ Power[i + 1] = 10 * Power[i]
      BY PowerIs
    <3> QED BY <3>1
  <2> QED BY <2>1, <2>2, SetInduction
<1>3. k - j \in Nat /\ j + (k - j) = k
  OBVIOUS
<1>4. k - j \in P /\ k \in Q
  BY <1>1, <1>2, <1>3
<1> QED BY <1>3, <1>4

\* How many digits a number has.
HasLength(n, k) == n < Power[k] /\ (k > 0 => n >= Power[k - 1])

LEMMA LengthIs ==
  ASSUME NEW n \in Nat, NEW k \in Nat, HasLength(n, k)
  PROVE  Length(n) = k
<1>1. k \in 0..n
  <2>1. CASE k = 0
    BY <2>1
  <2>2. CASE k # 0
    <3>1. k - 1 \in Nat /\ k > 0
      BY <2>2
    <3>2. k - 1 < Power[k - 1] /\ Power[k - 1] \in Nat /\ n >= Power[k - 1]
      BY <3>1, PowersRise, PowerIs DEF HasLength
    <3> QED BY <3>1, <3>2
  <2> QED BY <2>1, <2>2
<1>2. ASSUME NEW i \in Nat, NEW j \in Nat, HasLength(n, i), HasLength(n, j) PROVE ~(i < j)
  <2> SUFFICES ASSUME i < j PROVE FALSE
    OBVIOUS
  <2>1. j - 1 \in Nat /\ i <= j - 1 /\ j > 0
    OBVIOUS
  <2>2. Power[i] <= Power[j - 1] /\ Power[i] \in Nat /\ Power[j - 1] \in Nat
    BY <2>1, PowersRise, PowerIs
  <2>3. n < Power[i] /\ n >= Power[j - 1]
    BY <1>2, <2>1 DEF HasLength
  <2> QED BY <2>2, <2>3
<1>3. \A i \in 0..n : HasLength(n, i) => i = k
  <2> SUFFICES ASSUME NEW i \in 0..n, HasLength(n, i) PROVE i = k
    OBVIOUS
  <2>1. ~(i < k) /\ ~(k < i)
    BY <1>2
  <2> QED BY <2>1
<1>4. Length(n) = CHOOSE i \in 0..n : HasLength(n, i)
  BY DEF Length, HasLength
<1> HIDE DEF HasLength
<1> QED BY <1>1, <1>3, <1>4

LEMMA LengthGrows ==
  ASSUME NEW n \in Nat, NEW k \in Nat, HasLength(n, k), NEW digit \in Digit, n # 0
  PROVE  HasLength(10 * n + digit, k + 1)
<1>1. k > 0
  BY PowerIs DEF HasLength
<1>2. /\ Power[k] \in Nat /\ Power[k + 1] = 10 * Power[k] /\ Power[k - 1] \in Nat
      /\ Power[k] = 10 * Power[k - 1]
  <2>1. k - 1 \in Nat /\ (k - 1) + 1 = k
    BY <1>1
  <2> QED BY <2>1, PowerIs
<1>3. n < Power[k] /\ n >= Power[k - 1] /\ (k + 1) - 1 = k
  BY <1>1 DEF HasLength
<1>4. 10 * n + digit < Power[k + 1] /\ 10 * n + digit >= Power[k]
  BY <1>2, <1>3 DEF Digit
<1> QED BY <1>3, <1>4 DEF HasLength

LEMMA LengthOfDigit == ASSUME NEW digit \in Digit, digit # 0 PROVE HasLength(digit, 1)
<1>1. Power[0] = 1 /\ Power[1] = 10
  <2>1. 0 + 1 = 1
    OBVIOUS
  <2> QED BY <2>1, PowerIs
<1> QED BY <1>1 DEF HasLength, Digit

\* Quotients.
LEMMA DivisionBounds ==
  ASSUME NEW a \in Nat, NEW b \in Nat, b > 0
  PROVE  a \div b \in Nat /\ b * (a \div b) <= a /\ a < b * (a \div b) + b
OBVIOUS

LEMMA QuotientOnce ==
  ASSUME NEW k \in Int, NEW j \in Int, NEW b \in Nat, b > 0, NEW r \in 0..(b - 1),
         NEW t \in 0..(b - 1), b * k + r = b * j + t
  PROVE  k = j
<1>1. ~(k < j)
  <2> SUFFICES ASSUME k < j PROVE FALSE
    OBVIOUS
  <2>1. b * (k + 1) <= b * j
    OBVIOUS
  <2>2. b * (k + 1) = b * k + b
    OBVIOUS
  <2> QED BY <2>1, <2>2
<1>2. ~(j < k)
  <2> SUFFICES ASSUME j < k PROVE FALSE
    OBVIOUS
  <2>1. b * (j + 1) <= b * k
    OBVIOUS
  <2>2. b * (j + 1) = b * j + b
    OBVIOUS
  <2> QED BY <2>1, <2>2
<1> QED BY <1>1, <1>2

LEMMA QuotientIs ==
  ASSUME NEW a \in Nat, NEW b \in Nat, b > 0, NEW k \in Int, NEW r \in 0..(b - 1), a = b * k + r
  PROVE  a \div b = k
<1> DEFINE j == a \div b
           t == a - b * j
<1>1. j \in Nat /\ b * j <= a /\ a < b * j + b
  BY DivisionBounds
<1>2. b * j \in Nat
  BY <1>1
<1> HIDE DEF j
<1>3. t \in 0..(b - 1) /\ b * j + t = a
  BY <1>1, <1>2
<1> HIDE DEF t
<1>4. j = k
  BY <1>1, <1>3, QuotientOnce
<1> QED BY <1>4 DEF j

\* Half up: the first digit dropped decides.
LEMMA HalfUp ==
  ASSUME NEW k \in Nat, NEW h \in Nat, h > 0, NEW r \in 0..(10 * h - 1)
  PROVE  ((10 * h) * k + r + 5 * h) \div (10 * h) = IF r >= 5 * h THEN k + 1 ELSE k
<1> DEFINE b == 10 * h
           a == b * k + r + 5 * h
<1>1. b \in Nat /\ b > 0 /\ b * k \in Nat /\ b * (k + 1) = b * k + b /\ b = 10 * h
  OBVIOUS
<1>2. a \in Nat /\ a = b * k + (r + 5 * h)
  BY <1>1
<1> HIDE DEF b
<1>3. CASE r >= 5 * h
  <2>1. r + 5 * h - b \in 0..(b - 1)
    BY <1>1, <1>3
  <2>2. a = b * (k + 1) + (r + 5 * h - b)
    BY <1>1, <1>2
  <2> HIDE DEF a
  <2>3. a \div b = k + 1
    BY <1>1, <1>2, <2>1, <2>2, QuotientIs
  <2> QED BY <1>3, <2>3 DEF a, b
<1>4. CASE r < 5 * h
  <2>1. r + 5 * h \in 0..(b - 1)
    BY <1>1, <1>4
  <2> HIDE DEF a
  <2>2. a \div b = k
    BY <1>1, <1>2, <2>1, QuotientIs
  <2> QED BY <1>4, <2>2 DEF a, b
<1> QED BY <1>3, <1>4

-----------------------------------------------------------------------------
(* The significand of a double.                                            *)

\* What the digits dropped leave of a number.
RestOf(acc, n) == n - Power[acc.dropped_digits] * acc.significand
Leads(acc, n) ==
  /\ n # 0 => HasLength(n, acc.significant_digits + acc.dropped_digits)
  /\ RestOf(acc, n) \in 0..(Power[acc.dropped_digits] - 1)
  /\ acc.round_up <=>
       acc.dropped_digits > 0 /\ RestOf(acc, n) >= 5 * Power[acc.dropped_digits - 1]
\* The significand is the first digits of n, as long as those dropped are counted.
MantissaIs(acc, n) ==
  /\ acc.nonzero <=> n # 0
  /\ acc.significant_digits <= SIGNIFICANT
  /\ acc.dropped_digits > 0 => acc.significant_digits = SIGNIFICANT
  /\ n = 0 => acc.significand = 0 /\ acc.significant_digits = 0 /\ acc.dropped_digits = 0
  /\ acc.dropped_digits < CAP => Leads(acc, n)

LEMMA NextLength ==
  ASSUME NEW n \in Nat, NEW k \in Nat, NEW digit \in Digit, n # 0 => HasLength(n, k),
         n = 0 => k = 0 /\ digit # 0
  PROVE  HasLength(n * 10 + digit, k + 1) /\ n * 10 + digit # 0 /\ n * 10 + digit \in Nat
<1>1. CASE n = 0
  <2>1. k + 1 = 1 /\ n * 10 + digit = digit /\ digit \in Nat
    BY <1>1 DEF Digit
  <2> QED BY <1>1, <2>1, LengthOfDigit
<1>2. CASE n # 0
  <2>1. n * 10 + digit = 10 * n + digit /\ n * 10 + digit # 0 /\ n * 10 + digit \in Nat
    BY <1>2 DEF Digit
  <2> QED BY <1>2, <2>1, LengthGrows
<1> QED BY <1>1, <1>2

\* A digit is appended to the significand.
LEMMA AppendKeeps ==
  ASSUME NEW acc \in Accumulators, NEW n \in Nat, MantissaIs(acc, n), NEW digit \in Digit,
         acc.nonzero \/ digit # 0, acc.significant_digits < SIGNIFICANT,
         NEW t \in Accumulators, t.nonzero,
         t.significand = acc.significand * 10 + digit,
         t.significant_digits = acc.significant_digits + 1,
         t.dropped_digits = acc.dropped_digits, t.round_up = acc.round_up
  PROVE  MantissaIs(t, n * 10 + digit)
<1>1. /\ acc.significand \in Nat /\ acc.significant_digits \in Nat /\ acc.dropped_digits \in Nat
      /\ SIGNIFICANT \in Nat /\ CAP \in Nat
  BY DoubleAssumption DEF Accumulators
<1>2. acc.dropped_digits = 0
  BY <1>1 DEF MantissaIs
<1>3. n = 0 => acc.significant_digits = 0 /\ digit # 0
  BY DEF MantissaIs
<1>4. n * 10 + digit # 0 /\ n * 10 + digit \in Nat
  <2>1. n # 0 \/ digit # 0
    BY <1>3
  <2> QED BY <2>1 DEF Digit
<1>5. ASSUME acc.dropped_digits < CAP PROVE Leads(t, n * 10 + digit)
  <2>1. Leads(acc, n)
    BY <1>5 DEF MantissaIs
  <2>2. n # 0 => HasLength(n, acc.significant_digits)
    BY <1>1, <1>2, <2>1 DEF Leads
  <2>3. HasLength(n * 10 + digit, acc.significant_digits + 1)
    BY <1>1, <1>3, <2>2, NextLength
  <2>4. n = acc.significand /\ ~acc.round_up
    <3>1. RestOf(acc, n) = n - acc.significand /\ RestOf(acc, n) \in 0..(1 - 1)
      BY <1>1, <1>2, <2>1, PowerIs DEF Leads, RestOf
    <3> QED BY <1>1, <1>2, <2>1, <3>1 DEF Leads
  <2>5. RestOf(t, n * 10 + digit) = 0
    BY <1>1, <1>2, <2>4, PowerIs DEF RestOf, Digit
  <2>6. RestOf(t, n * 10 + digit) \in 0..(Power[t.dropped_digits] - 1)
    BY <1>2, <2>5, PowerIs
  <2>7. t.significant_digits + t.dropped_digits = acc.significant_digits + 1
    BY <1>1, <1>2
  <2>8. ~(t.dropped_digits > 0) /\ ~t.round_up
    BY <1>2, <2>4
  <2> QED BY <2>3, <2>6, <2>7, <2>8 DEF Leads
<1>6. t.significant_digits <= SIGNIFICANT
  BY <1>1
<1> QED BY <1>1, <1>2, <1>4, <1>5, <1>6 DEF MantissaIs

\* A digit is dropped.
LEMMA DropKeeps ==
  ASSUME NEW acc \in Accumulators, NEW n \in Nat, MantissaIs(acc, n), NEW digit \in Digit,
         acc.nonzero \/ digit # 0, ~(acc.significant_digits < SIGNIFICANT),
         NEW t \in Accumulators, t.nonzero,
         t.significand = acc.significand, t.significant_digits = acc.significant_digits,
         t.dropped_digits = Capped(acc.dropped_digits),
         t.round_up <=> acc.round_up \/ (acc.dropped_digits = 0 /\ digit >= 5)
  PROVE  MantissaIs(t, n * 10 + digit)
<1> DEFINE d == acc.dropped_digits
           q == Power[d]
           r == RestOf(acc, n)
<1>1. /\ acc.significand \in Nat /\ acc.significant_digits \in Nat /\ d \in Nat
      /\ SIGNIFICANT \in Nat /\ CAP \in Nat
  BY DoubleAssumption DEF Accumulators
<1>2. acc.significant_digits = SIGNIFICANT
  BY <1>1 DEF MantissaIs
<1>3. n = 0 => acc.significant_digits + d = 0 /\ digit # 0
  BY DEF MantissaIs
<1>4. n * 10 + digit # 0 /\ n * 10 + digit \in Nat
  <2>1. n # 0 \/ digit # 0
    BY <1>3
  <2> QED BY <2>1 DEF Digit
<1>5. ASSUME t.dropped_digits < CAP PROVE Leads(t, n * 10 + digit)
  <2>1. d < CAP /\ t.dropped_digits = d + 1
    BY <1>1, <1>5 DEF Capped
  <2>2. Leads(acc, n)
    BY <2>1 DEF MantissaIs
  <2>3. HasLength(n * 10 + digit, (acc.significant_digits + d) + 1)
    <3>1. n # 0 => HasLength(n, acc.significant_digits + d)
      BY <2>2 DEF Leads
    <3>2. acc.significant_digits + d \in Nat
      BY <1>1
    <3> QED BY <1>3, <3>1, <3>2, NextLength
  <2>4. t.significant_digits + t.dropped_digits = (acc.significant_digits + d) + 1
    BY <1>1, <2>1
  <2>5. /\ q \in Nat /\ q >= 1 /\ Power[d + 1] = 10 * q
        /\ d > 0 => Power[d - 1] \in Nat /\ q = 10 * Power[d - 1]
    <3>1. d > 0 => d - 1 \in Nat /\ (d - 1) + 1 = d
      BY <1>1
    <3> QED BY <1>1, <3>1, PowerIs
  <2>6. r \in 0..(q - 1)
    BY <2>2 DEF Leads
  <2>7. RestOf(t, n * 10 + digit) = 10 * r + digit
    <3>1. RestOf(t, n * 10 + digit) = (n * 10 + digit) - (10 * q) * acc.significand
      BY <2>1, <2>5 DEF RestOf
    <3>2. r = n - q * acc.significand
      BY DEF RestOf
    <3>3. (10 * q) * acc.significand = 10 * (q * acc.significand) /\ q * acc.significand \in Nat
      BY <1>1, <2>5
    <3> HIDE DEF q, r
    <3> QED BY <3>1, <3>2, <3>3 DEF Digit
  <2> HIDE DEF q, r
  <2>8. 10 * r + digit \in 0..(10 * q - 1)
    BY <2>5, <2>6 DEF Digit
  <2>9. t.round_up <=> 10 * r + digit >= 5 * q
    <3>1. acc.round_up <=> d > 0 /\ r >= 5 * Power[d - 1]
      BY <2>2 DEF Leads, r
    <3>2. CASE d = 0
      <4>1. q = 1 /\ r = 0
        BY <2>5, <2>6, <3>2, PowerIs DEF q
      <4>2. ~acc.round_up
        BY <3>1, <3>2
      <4> QED BY <3>2, <4>1, <4>2 DEF Digit
    <3>3. CASE d # 0
      <4>1. d > 0
        BY <1>1, <3>3
      <4>2. r >= 5 * Power[d - 1] <=> 10 * r + digit >= 5 * q
        BY <2>5, <2>6, <4>1 DEF Digit
      <4> QED BY <3>1, <3>3, <4>1, <4>2
    <3> QED BY <3>2, <3>3
  <2>10. t.dropped_digits > 0 /\ t.dropped_digits - 1 = d
    BY <1>1, <2>1
  <2>11. RestOf(t, n * 10 + digit) \in 0..(Power[t.dropped_digits] - 1)
    BY <2>1, <2>5, <2>7, <2>8
  <2>12. t.round_up <=> t.dropped_digits > 0
                        /\ RestOf(t, n * 10 + digit) >= 5 * Power[t.dropped_digits - 1]
    BY <2>7, <2>9, <2>10 DEF q
  <2> QED BY <2>3, <2>4, <2>11, <2>12 DEF Leads
<1> QED BY <1>2, <1>4, <1>5 DEF MantissaIs

\* What a digit of the mantissa leaves alone.
Aside(acc, t) ==
  /\ t.fraction_digits = acc.fraction_digits /\ t.explicit_exponent = acc.explicit_exponent
  /\ t.exponent_negative = acc.exponent_negative
SameMantissa(acc, t) ==
  /\ t.nonzero = acc.nonzero /\ t.significand = acc.significand
  /\ t.significant_digits = acc.significant_digits
  /\ t.dropped_digits = acc.dropped_digits /\ t.round_up = acc.round_up
LEMMA MantissaStays ==
  ASSUME NEW acc, NEW t, NEW n, SameMantissa(acc, t), MantissaIs(acc, n)
  PROVE  MantissaIs(t, n)
BY DEF SameMantissa, MantissaIs, Leads, RestOf

LEMMA DoubleDigitReads ==
  ASSUME NEW acc \in Accumulators, NEW n \in Nat, MantissaIs(acc, n), NEW digit \in Digit
  PROVE  MantissaIs(DoubleDigit(acc, digit), n * 10 + digit) /\ Aside(acc, DoubleDigit(acc, digit))
<1>1. CASE ~acc.nonzero /\ digit = 0
  <2>1. DoubleDigit(acc, digit) = acc
    BY <1>1 DEF DoubleDigit
  <2>2. n * 10 + digit = n
    BY <1>1 DEF MantissaIs
  <2> QED BY <2>1, <2>2 DEF Aside
<1>2. CASE (acc.nonzero \/ digit # 0) /\ acc.significant_digits < SIGNIFICANT
  <2> DEFINE v == acc.significand * 10 + digit
             w == acc.significant_digits + 1
             t == [acc EXCEPT !.nonzero = TRUE, !.significand = v, !.significant_digits = w]
  <2>1. DoubleDigit(acc, digit) = t
    <3>1. t = [acc EXCEPT !.nonzero = TRUE, !.significand = @ * 10 + digit,
                          !.significant_digits = @ + 1]
      BY DEF Accumulators
    <3> HIDE DEF t
    <3> QED BY <1>2, <3>1 DEF DoubleDigit
  <2>2. v \in Nat /\ w \in Nat
    BY DEF Accumulators, Digit
  <2> HIDE DEF v, w
  <2>3. /\ t \in Accumulators /\ t.nonzero /\ t.significand = v /\ t.significant_digits = w
        /\ t.dropped_digits = acc.dropped_digits /\ t.round_up = acc.round_up /\ Aside(acc, t)
    BY <2>2 DEF Accumulators, Aside
  <2> HIDE DEF t
  <2>4. MantissaIs(t, n * 10 + digit)
    BY <1>2, <2>3, AppendKeeps DEF v, w
  <2> QED BY <2>1, <2>3, <2>4
<1>3. CASE (acc.nonzero \/ digit # 0) /\ ~(acc.significant_digits < SIGNIFICANT)
  <2> DEFINE a == [acc EXCEPT !.nonzero = TRUE]
             up == acc.round_up \/ (acc.dropped_digits = 0 /\ digit >= 5)
             d == Capped(acc.dropped_digits)
             t == [a EXCEPT !.round_up = up, !.dropped_digits = d]
  <2>1. /\ a \in Accumulators /\ a.nonzero /\ a.round_up = acc.round_up
        /\ a.dropped_digits = acc.dropped_digits /\ a.significand = acc.significand
        /\ a.significant_digits = acc.significant_digits /\ Aside(acc, a)
    BY DEF Accumulators, Aside
  <2> HIDE DEF a
  <2>2. DropDigit(a, digit) = t
    BY <2>1 DEF DropDigit, Accumulators
  <2>3. DoubleDigit(acc, digit) = t
    BY <1>3, <2>2 DEF DoubleDigit, a
  <2>4. up \in BOOLEAN /\ d \in Nat
    BY CappedIsNat DEF Accumulators
  <2> HIDE DEF up, d
  <2>5. /\ t \in Accumulators /\ t.nonzero /\ t.round_up = up /\ t.dropped_digits = d
        /\ t.significand = acc.significand /\ t.significant_digits = acc.significant_digits
        /\ Aside(acc, t)
    BY <2>1, <2>4 DEF Accumulators, Aside
  <2> HIDE DEF t
  <2>6. t.round_up <=> acc.round_up \/ (acc.dropped_digits = 0 /\ digit >= 5)
    BY <2>5 DEF up
  <2>7. MantissaIs(t, n * 10 + digit)
    BY <1>3, <2>5, <2>6, DropKeeps DEF d
  <2> QED BY <2>3, <2>5, <2>7
<1> QED BY <1>1, <1>2, <1>3

\* The end: what was read, rounded.
LEMMA MantissaIsRounded ==
  ASSUME NEW acc \in Accumulators, NEW n \in Nat, MantissaIs(acc, n), n # 0,
         acc.dropped_digits < CAP
  PROVE  Dropped(n) = acc.dropped_digits /\ Rounded(n) = Significand(acc)
<1> DEFINE d == acc.dropped_digits
           r == RestOf(acc, n)
           k == acc.significand
<1>1. /\ k \in Nat /\ acc.significant_digits \in Nat /\ d \in Nat
      /\ SIGNIFICANT \in Nat
  BY DoubleAssumption DEF Accumulators
<1>2. Leads(acc, n) /\ acc.significant_digits <= SIGNIFICANT
      /\ (d > 0 => acc.significant_digits = SIGNIFICANT)
  BY DEF MantissaIs
<1>3. Length(n) = acc.significant_digits + d
  <2>1. HasLength(n, acc.significant_digits + d) /\ acc.significant_digits + d \in Nat
    BY <1>1, <1>2 DEF Leads
  <2> QED BY <2>1, LengthIs
<1>4. Dropped(n) = d
  BY <1>1, <1>2, <1>3 DEF Dropped
<1>5. r \in 0..(Power[d] - 1) /\ (acc.round_up <=> d > 0 /\ r >= 5 * Power[d - 1])
  BY <1>2 DEF Leads
<1>6. r = n - Power[d] * k /\ Power[d] \in Nat
  BY <1>1, PowerIs DEF RestOf
<1> HIDE DEF r
<1>7. CASE d = 0
  <2>1. Power[d] = 1
    BY <1>7, PowerIs
  <2>2. r = 0 /\ n = k /\ ~acc.round_up
    BY <1>1, <1>5, <1>6, <1>7, <2>1
  <2> QED BY <1>4, <1>7, <2>2 DEF Rounded, Significand
<1>8. CASE d # 0
  <2> DEFINE h == Power[d - 1]
  <2>1. d > 0 /\ h \in Nat /\ h > 0 /\ Power[d] = 10 * h
    <3>1. d - 1 \in Nat /\ (d - 1) + 1 = d
      BY <1>1, <1>8
    <3> QED BY <3>1, PowerIs
  <2>2. Rounded(n) = (n + 5 * h) \div (10 * h)
    BY <1>4, <1>8, <2>1 DEF Rounded
  <2>3. acc.round_up <=> r >= 5 * h
    BY <1>5, <2>1
  <2> HIDE DEF h
  <2>4. n = (10 * h) * k + r /\ r \in 0..(10 * h - 1)
    <3>1. (10 * h) * k \in Int /\ n - (10 * h) * k = r
      BY <1>1, <1>6, <2>1
    <3> QED BY <1>5, <2>1, <3>1
  <2>5. n + 5 * h = (10 * h) * k + r + 5 * h
    BY <1>1, <2>1, <2>4
  <2>6. Rounded(n) = IF r >= 5 * h THEN k + 1 ELSE k
    <3>1. ((10 * h) * k + r + 5 * h) \div (10 * h) = IF r >= 5 * h THEN k + 1 ELSE k
      BY <1>1, <2>1, <2>4, HalfUp
    <3> QED BY ONLY <2>2, <2>5, <3>1
  <2> QED BY <1>4, <2>3, <2>6 DEF Significand
<1> QED BY <1>7, <1>8

-----------------------------------------------------------------------------
(* One byte of a double.                                                   *)

\* The accumulator holds mantissa n, f digits after the point and exponent x.
Amounts(acc, n, f, x) ==
  /\ MantissaIs(acc, n)
  /\ acc.fraction_digits < CAP => acc.fraction_digits = f
  /\ acc.explicit_exponent < CAP => acc.explicit_exponent = x

LEMMA AmountsStay ==
  ASSUME NEW acc, NEW t, NEW n, NEW f, NEW x, SameMantissa(acc, t),
         t.fraction_digits = acc.fraction_digits, t.explicit_exponent = acc.explicit_exponent,
         Amounts(acc, n, f, x)
  PROVE  Amounts(t, n, f, x)
BY MantissaStays DEF Amounts

LEMMA FractionDigitReads ==
  ASSUME NEW acc \in Accumulators, NEW n \in Nat, NEW f \in Nat, NEW x, Amounts(acc, n, f, x),
         NEW digit \in Digit
  PROVE  /\ Amounts(FractionDigit(acc, digit), n * 10 + digit, f + 1, x)
         /\ FractionDigit(acc, digit).exponent_negative = acc.exponent_negative
<1> DEFINE g == Capped(acc.fraction_digits)
           t == [acc EXCEPT !.fraction_digits = g]
<1>1. FractionDigit(acc, digit) = DoubleDigit(t, digit)
  <2>1. t = [acc EXCEPT !.fraction_digits = Capped(@)]
    BY DEF Accumulators
  <2> HIDE DEF t
  <2> QED BY <2>1 DEF FractionDigit
<1>2. g \in Nat /\ (g < CAP => acc.fraction_digits < CAP /\ g = acc.fraction_digits + 1)
  BY DoubleAssumption DEF Capped, Accumulators
<1> HIDE DEF g
<1>3. /\ t \in Accumulators /\ SameMantissa(acc, t) /\ t.fraction_digits = g
      /\ t.explicit_exponent = acc.explicit_exponent
      /\ t.exponent_negative = acc.exponent_negative
  BY <1>2 DEF Accumulators, SameMantissa
<1> HIDE DEF t
<1>4. MantissaIs(t, n)
  BY <1>3, MantissaStays DEF Amounts
<1> DEFINE u == DoubleDigit(t, digit)
<1>5. MantissaIs(u, n * 10 + digit) /\ Aside(t, u)
  BY <1>3, <1>4, DoubleDigitReads
<1> HIDE DEF u
<1>6. u.fraction_digits = g /\ u.explicit_exponent = acc.explicit_exponent
      /\ u.exponent_negative = acc.exponent_negative
  BY <1>3, <1>5 DEF Aside
<1>7. u.fraction_digits < CAP => u.fraction_digits = f + 1
  BY <1>2, <1>6 DEF Amounts
<1>8. u.explicit_exponent < CAP => u.explicit_exponent = x
  BY <1>6 DEF Amounts
<1>9. Amounts(u, n * 10 + digit, f + 1, x)
  BY <1>5, <1>7, <1>8 DEF Amounts
<1> QED BY <1>1, <1>6, <1>9 DEF u

LEMMA ExponentDigitReads ==
  ASSUME NEW acc \in Accumulators, NEW n, NEW f, NEW x \in Nat, Amounts(acc, n, f, x),
         NEW digit \in Digit
  PROVE  /\ Amounts(ExponentDigit(acc, digit), n, f, x * 10 + digit)
         /\ ExponentDigit(acc, digit).exponent_negative = acc.exponent_negative
<1>1. acc.explicit_exponent \in Nat /\ CAP \in Nat
  BY DoubleAssumption DEF Accumulators
<1>2. CASE acc.explicit_exponent < CAP
  <2> DEFINE y == acc.explicit_exponent * 10 + digit
             g == ExponentUpTo(y)
             t == [acc EXCEPT !.explicit_exponent = g]
  <2>1. ExponentDigit(acc, digit) = t
    <3>1. t = [acc EXCEPT !.explicit_exponent = ExponentUpTo(@ * 10 + digit)]
      BY DEF Accumulators
    <3> HIDE DEF t
    <3> QED BY <1>2, <3>1 DEF ExponentDigit
  <2>2. y \in Nat /\ y = x * 10 + digit
    BY <1>1, <1>2 DEF Amounts, Digit
  <2> HIDE DEF y
  <2>3. g < CAP => g = y
    BY <1>1, <2>2 DEF ExponentUpTo
  <2> HIDE DEF g
  <2>4. /\ SameMantissa(acc, t) /\ t.fraction_digits = acc.fraction_digits
        /\ t.explicit_exponent = g /\ t.exponent_negative = acc.exponent_negative
    BY DEF Accumulators, SameMantissa
  <2> HIDE DEF t
  <2>5. Amounts(t, n, f, x * 10 + digit)
    BY <2>2, <2>3, <2>4, MantissaStays DEF Amounts
  <2> QED BY <2>1, <2>4, <2>5
<1>3. CASE ~(acc.explicit_exponent < CAP)
  <2>1. ExponentDigit(acc, digit) = acc
    BY <1>3 DEF ExponentDigit
  <2> QED BY <1>3, <2>1 DEF Amounts
<1> QED BY <1>2, <1>3

LEMMA FormedReads ==
  ASSUME NEW acc \in Accumulators, NEW n, NEW f, NEW x, Amounts(acc, n, f, x), NEW st
  PROVE  /\ Formed(acc, st) \in Accumulators /\ Amounts(Formed(acc, st), n, f, x)
         /\ Formed(acc, st).exponent_negative = acc.exponent_negative
<1> DEFINE t == Formed(acc, st)
<1>1. /\ t \in Accumulators /\ SameMantissa(acc, t) /\ t.fraction_digits = acc.fraction_digits
      /\ t.explicit_exponent = acc.explicit_exponent
      /\ t.exponent_negative = acc.exponent_negative
  BY DEF Formed, Accumulators, SameMantissa
<1> HIDE DEF t
<1>2. Amounts(t, n, f, x)
  BY <1>1, AmountsStay
<1> QED BY <1>1, <1>2 DEF t

\* What a byte adds, by the state it leads to.
LEMMA FeedAmounts ==
  ASSUME kind = "DOUBLE", NEW acc \in Accumulators, NEW n \in Nat, NEW f \in Nat, NEW x \in Nat,
         Amounts(acc, n, f, x), NEW c, NEW st,
         is_digit(c) <=> st \in {"ZERO", "INTEGER", "FRACTION", "EXPONENT"}
  PROVE  LET next == kason_number_accumulator_feed(acc, c, st)
         IN  /\ st \in {"ZERO", "INTEGER"} => Amounts(next, n * 10 + (c - ZERO), f, x)
             /\ st = "FRACTION" => Amounts(next, n * 10 + (c - ZERO), f + 1, x)
             /\ st = "EXPONENT" => Amounts(next, n, f, x * 10 + (c - ZERO))
             /\ ~is_digit(c) => Amounts(next, n, f, x)
             /\ st = "EXPONENT_SIGN" => (next.exponent_negative <=> c = MINUS)
             /\ st # "EXPONENT_SIGN" => next.exponent_negative = acc.exponent_negative
<1> DEFINE next == kason_number_accumulator_feed(acc, c, st)
           a == Formed(acc, st)
<1>1. a \in Accumulators /\ Amounts(a, n, f, x) /\ a.exponent_negative = acc.exponent_negative
  BY FormedReads
<1> HIDE DEF a
<1>2. CASE st = "SIGN"
  <2> DEFINE t == [acc EXCEPT !.negative = TRUE]
  <2>1. next = t /\ ~is_digit(c)
    BY <1>2 DEF kason_number_accumulator_feed
  <2>2. /\ SameMantissa(acc, t) /\ t.fraction_digits = acc.fraction_digits
        /\ t.explicit_exponent = acc.explicit_exponent
        /\ t.exponent_negative = acc.exponent_negative
    BY DEF Accumulators, SameMantissa
  <2> HIDE DEF t, next
  <2>3. Amounts(t, n, f, x)
    BY <2>2, AmountsStay
  <2> QED BY <1>2, <2>1, <2>2, <2>3 DEF next
<1>3. CASE st = "EXPONENT_SIGN"
  <2> DEFINE b == c = MINUS
             t == [a EXCEPT !.exponent_negative = b]
  <2>1. next = t /\ ~is_digit(c)
    BY <1>3 DEF kason_number_accumulator_feed, a
  <2> HIDE DEF b
  <2>2. /\ SameMantissa(a, t) /\ t.fraction_digits = a.fraction_digits
        /\ t.explicit_exponent = a.explicit_exponent
        /\ t.exponent_negative = b
    BY <1>1 DEF Accumulators, SameMantissa
  <2> HIDE DEF t, next
  <2>3. Amounts(t, n, f, x)
    BY <1>1, <2>2, AmountsStay
  <2>4. next.exponent_negative <=> c = MINUS
    BY <2>1, <2>2 DEF b
  <2>5. Amounts(next, n, f, x)
    BY <2>1, <2>3
  <2> QED BY <1>3, <2>1, <2>4, <2>5 DEF next
<1>4. CASE st \in {"ZERO", "INTEGER", "FRACTION", "EXPONENT"}
  <2> DEFINE digit == c - ZERO
  <2>1. digit \in Digit /\ is_digit(c)
    BY <1>4, DigitIs
  <2>2. next = FeedDigit(a, digit, st)
    BY <1>4, <2>1 DEF kason_number_accumulator_feed, a
  <2> HIDE DEF next, digit
  <2>3. CASE st \in {"ZERO", "INTEGER"}
    <3>1. next = DoubleDigit(a, digit)
      BY <2>2, <2>3 DEF FeedDigit
    <3>2. MantissaIs(next, n * 10 + digit) /\ Aside(a, next)
      BY <1>1, <2>1, <3>1, DoubleDigitReads DEF Amounts
    <3>3. next.exponent_negative = acc.exponent_negative
      BY <1>1, <3>2 DEF Aside
    <3>4. Amounts(next, n * 10 + digit, f, x)
      BY <1>1, <3>2 DEF Aside, Amounts
    <3> QED BY <2>1, <2>3, <3>3, <3>4 DEF next, digit
  <2>4. CASE st = "FRACTION"
    <3>1. next = FractionDigit(a, digit)
      BY <2>2, <2>4 DEF FeedDigit
    <3>2. Amounts(next, n * 10 + digit, f + 1, x)
          /\ next.exponent_negative = acc.exponent_negative
      BY <1>1, <2>1, <3>1, FractionDigitReads
    <3> QED BY <2>1, <2>4, <3>2 DEF next, digit
  <2>5. CASE st = "EXPONENT"
    <3>1. next = ExponentDigit(a, digit)
      BY <2>2, <2>5 DEF FeedDigit
    <3>2. Amounts(next, n, f, x * 10 + digit)
          /\ next.exponent_negative = acc.exponent_negative
      BY <1>1, <2>1, <3>1, ExponentDigitReads
    <3> QED BY <2>1, <2>5, <3>2 DEF next, digit
  <2> QED BY <1>4, <2>3, <2>4, <2>5
<1>5. CASE st \notin {"SIGN", "EXPONENT_SIGN", "ZERO", "INTEGER", "FRACTION", "EXPONENT"}
  <2>1. ~is_digit(c)
    BY <1>5
  <2>2. next = a
    BY <1>5, <2>1 DEF kason_number_accumulator_feed, a
  <2> HIDE DEF next
  <2>3. Amounts(next, n, f, x) /\ next.exponent_negative = acc.exponent_negative
    BY <1>1, <2>2
  <2> QED BY <1>5, <2>1, <2>3 DEF next
<1> QED BY <1>2, <1>3, <1>4, <1>5

-----------------------------------------------------------------------------
(* Where the parts of a double are, as its bytes are read.                 *)
FractionStates == {"DECIMAL_POINT", "FRACTION"}
ExponentStates == {"EXPONENT_MARK", "EXPONENT_SIGN", "EXPONENT"}

LEMMA StateKinds ==
  ASSUME NEW p, NEW from \in NumberStates, NEW c, p = 1 <=> from = "NONE",
         NextOf(p, from, c) \in NumberStates \ {"NONE"}
  PROVE  LET to == NextOf(p, from, c)
         IN  /\ to = "DECIMAL_POINT" <=> c = POINT
             /\ to = "EXPONENT_MARK" <=> is_exponent(c)
             /\ is_digit(c) <=> to \in {"ZERO", "INTEGER", "FRACTION", "EXPONENT"}
             /\ to \in ExponentStates <=> to = "EXPONENT_MARK" \/ from \in ExponentStates
             /\ to \in FractionStates <=>
                  to = "DECIMAL_POINT" \/ (from \in FractionStates /\ to # "EXPONENT_MARK")
             /\ to = "EXPONENT_MARK" => from \notin ExponentStates
             /\ to = "DECIMAL_POINT" => from \in IntegerStates
             /\ to = "EXPONENT_SIGN" => from = "EXPONENT_MARK"
             /\ to = "SIGN" => from \in IntegerStates
             /\ c = MINUS => to \in {"SIGN", "EXPONENT_SIGN"}
<1> DEFINE to == NextOf(p, from, c)
<1>0. to = (IF p = 1 THEN kason_number_begin(c) ELSE kason_number_next(from, c))
      /\ to \in NumberStates \ {"NONE"}
  BY DEF NextOf
<1> HIDE DEF to
<1>1. to # "INVALID"
  BY <1>0 DEF NumberStates
<1>2. CASE p = 1 \/ from = "SIGN"
  <2>1. to = kason_number_begin(c) /\ from \in {"NONE", "SIGN"} /\ (from = "SIGN" => c # MINUS)
    <3>1. CASE p = 1
      BY <1>0, <3>1
    <3>2. CASE p # 1 /\ from = "SIGN"
      BY <1>0, <1>1, <3>2, Continues
    <3> QED BY <1>2, <3>1, <3>2
  <2>2. CASE c = MINUS
    <3>1. to = "SIGN" /\ ~is_digit(c) /\ c # POINT /\ ~is_exponent(c)
      BY <2>1, <2>2, Begins, Classes DEF POINT, MINUS, is_exponent
    <3> QED BY <2>1, <3>1 DEF FractionStates, ExponentStates, IntegerStates, to
  <2>3. CASE is_digit(c)
    <3>1. to \in {"ZERO", "INTEGER"} /\ c # POINT /\ ~is_exponent(c) /\ c # MINUS
      BY <2>1, <2>3, Begins, Classes
    <3> QED BY <2>1, <2>3, <3>1 DEF FractionStates, ExponentStates, IntegerStates, to
  <2>4. CASE c # MINUS /\ ~is_digit(c)
    BY <1>1, <2>1, <2>4, Begins
  <2> QED BY <2>2, <2>3, <2>4
<1>3. CASE p # 1 /\ from \in {"ZERO", "INTEGER"}
  <2>1. \/ to = AfterInteger(c) /\ (~is_digit(c) \/ from = "ZERO")
        \/ to = "INTEGER" /\ is_digit(c)
    BY <1>0, <1>3, Continues DEF DigitOr
  <2>2. CASE to = "INTEGER" /\ is_digit(c)
    <3>1. c # POINT /\ ~is_exponent(c) /\ c # MINUS
      BY <2>2, Classes
    <3> QED BY <1>3, <2>2, <3>1 DEF FractionStates, ExponentStates, IntegerStates, to
  <2>3. CASE to = AfterInteger(c)
    <3>1. (to = "DECIMAL_POINT" /\ c = POINT) \/ (to = "EXPONENT_MARK" /\ is_exponent(c))
      <4>1. CASE c = POINT
        BY <2>3, <4>1, AfterIntegers
      <4>2. CASE is_exponent(c)
        BY <2>3, <4>2, AfterIntegers
      <4>3. CASE c # POINT /\ ~is_exponent(c)
        BY <1>1, <2>3, <4>3, AfterIntegers
      <4> QED BY <4>1, <4>2, <4>3
    <3>2. CASE to = "DECIMAL_POINT" /\ c = POINT
      <4>1. ~is_digit(c) /\ ~is_exponent(c) /\ c # MINUS
        BY <3>2, Classes DEF POINT, MINUS
      <4> QED BY <1>3, <3>2, <4>1 DEF FractionStates, ExponentStates, IntegerStates, to
    <3>3. CASE to = "EXPONENT_MARK" /\ is_exponent(c)
      <4>1. ~is_digit(c) /\ c # POINT /\ c # MINUS
        BY <3>3, Classes DEF is_exponent, MINUS
      <4> QED BY <1>3, <3>3, <4>1 DEF FractionStates, ExponentStates, IntegerStates, to
    <3> QED BY <3>1, <3>2, <3>3
  <2> QED BY <2>1, <2>2, <2>3
<1>4. CASE p # 1 /\ from \in FractionStates
  <2>1. \/ to = "FRACTION" /\ is_digit(c)
        \/ to = "EXPONENT_MARK" /\ is_exponent(c)
    BY <1>0, <1>1, <1>4, Continues DEF DigitOr, FractionStates
  <2>2. CASE to = "FRACTION" /\ is_digit(c)
    <3>1. c # POINT /\ ~is_exponent(c) /\ c # MINUS
      BY <2>2, Classes
    <3> QED BY <1>4, <2>2, <3>1 DEF FractionStates, ExponentStates, IntegerStates, to
  <2>3. CASE to = "EXPONENT_MARK" /\ is_exponent(c)
    <3>1. ~is_digit(c) /\ c # POINT /\ c # MINUS
      BY <2>3, Classes DEF is_exponent, MINUS
    <3> QED BY <1>4, <2>3, <3>1 DEF FractionStates, ExponentStates, IntegerStates, to
  <2> QED BY <2>1, <2>2, <2>3
<1>5. CASE p # 1 /\ from \in ExponentStates
  <2>1. \/ to = "EXPONENT" /\ is_digit(c)
        \/ to = "EXPONENT_SIGN" /\ c \in {43, MINUS} /\ from = "EXPONENT_MARK"
    BY <1>0, <1>1, <1>5, Continues DEF DigitOr, ExponentStates
  <2>2. CASE to = "EXPONENT" /\ is_digit(c)
    <3>1. c # POINT /\ ~is_exponent(c) /\ c # MINUS
      BY <2>2, Classes
    <3> QED BY <1>5, <2>2, <3>1 DEF FractionStates, ExponentStates, IntegerStates, to
  <2>3. CASE to = "EXPONENT_SIGN" /\ c \in {43, MINUS} /\ from = "EXPONENT_MARK"
    <3>1. ~is_digit(c) /\ c # POINT /\ ~is_exponent(c)
      BY <2>3, Classes DEF is_exponent, MINUS, POINT
    <3> QED BY <1>5, <2>3, <3>1 DEF FractionStates, ExponentStates, IntegerStates, to
  <2> QED BY <2>1, <2>2, <2>3
<1>6. from \in {"NONE", "SIGN", "ZERO", "INTEGER"} \cup FractionStates \cup ExponentStates
  BY DEF NumberStates, FractionStates, ExponentStates
<1> QED BY <1>2, <1>3, <1>4, <1>5, <1>6

\* What precedes position p of a number when the state is st.
Located(s, p, st) ==
  /\ st \in IntegerStates => p <= ExponentAt(s) /\ p <= PointAt(s)
  /\ st \in FractionStates => p <= ExponentAt(s) /\ PointAt(s) < p
  /\ st \in ExponentStates => ExponentAt(s) < p
  /\ st = "EXPONENT_MARK" => p = ExponentAt(s) + 1
  /\ st \in {"EXPONENT_SIGN", "EXPONENT"} => p > ExponentAt(s) + 1

\* The digits of each part of a number.
MantissaDigits(s) == {p \in Digits(s) : p < ExponentAt(s)}
FractionDigitsOf(s) == {p \in Digits(s) : p > PointAt(s) /\ p < ExponentAt(s)}
ExponentDigits(s) == {p \in Digits(s) : p > ExponentAt(s)}

LEMMA KindsOfStates ==
  /\ NumberStates = IntegerStates \cup FractionStates \cup ExponentStates
  /\ IntegerStates \cap FractionStates = {} /\ IntegerStates \cap ExponentStates = {}
  /\ FractionStates \cap ExponentStates = {}
BY DEF NumberStates, IntegerStates, FractionStates, ExponentStates

LEMMA LocatedStep ==
  ASSUME NEW s \in Seq(Byte), NEW p \in 1..Len(s), NEW from \in NumberStates,
         p = 1 <=> from = "NONE", Located(s, p, from),
         NextOf(p, from, s[p]) \in NumberStates \ {"NONE"}
  PROVE  /\ Located(s, p + 1, NextOf(p, from, s[p]))
         /\ p \in MantissaDigits(s) <=> NextOf(p, from, s[p]) \in {"ZERO", "INTEGER", "FRACTION"}
         /\ p \in FractionDigitsOf(s) <=> NextOf(p, from, s[p]) = "FRACTION"
         /\ p \in ExponentDigits(s) <=> NextOf(p, from, s[p]) = "EXPONENT"
<1> DEFINE c == s[p]
           to == NextOf(p, from, c)
           E == ExponentAt(s)
           P == PointAt(s)
<1>1. /\ Len(s) \in Nat /\ p \in Nat /\ p >= 1 /\ p <= Len(s) /\ At(s, p) = c
      /\ DOMAIN s = 1..Len(s)
  BY AtIs
<1>2. /\ E \in Nat /\ E >= 1 /\ E <= Len(s) + 1 /\ (E = p => is_exponent(c))
      /\ (p < E => ~is_exponent(c))
  <2>1. E \in 1..(Len(s) + 1) /\ (E = Len(s) + 1 \/ is_exponent(At(s, E)))
        /\ \A q \in 1..(E - 1) : ~is_exponent(s[q])
    BY ExponentAtIs
  <2>2. p < E => p \in 1..(E - 1)
    BY <1>1, <2>1
  <2> QED BY <1>1, <2>1, <2>2
<1>3. /\ P \in Nat /\ P >= 1 /\ P <= E /\ (P = p /\ p < E => c = POINT)
      /\ (p < P => c # POINT)
  <2>1. P \in 1..E /\ (P = E \/ s[P] = POINT) /\ \A q \in 1..(P - 1) : s[q] # POINT
    BY PointAtIs
  <2>2. p < P => p \in 1..(P - 1)
    BY <1>1, <2>1, <1>2
  <2> QED BY <1>1, <1>2, <2>1, <2>2
<1>4. /\ to = "DECIMAL_POINT" <=> c = POINT
      /\ to = "EXPONENT_MARK" <=> is_exponent(c)
      /\ is_digit(c) <=> to \in {"ZERO", "INTEGER", "FRACTION", "EXPONENT"}
      /\ to \in ExponentStates <=> to = "EXPONENT_MARK" \/ from \in ExponentStates
      /\ to \in FractionStates <=>
           to = "DECIMAL_POINT" \/ (from \in FractionStates /\ to # "EXPONENT_MARK")
      /\ to = "EXPONENT_MARK" => from \notin ExponentStates
      /\ to = "DECIMAL_POINT" => from \in IntegerStates
  BY StateKinds
<1>5. p \in Digits(s) <=> is_digit(c)
  BY <1>1 DEF Digits
<1>6. is_digit(c) => c # POINT /\ ~is_exponent(c)
  BY Classes
<1>7. to \in NumberStates
  OBVIOUS
<1> HIDE DEF to, E, P, c
<1>8. /\ from \in IntegerStates => p <= E /\ p <= P
      /\ from \in FractionStates => p <= E /\ P < p
      /\ from \in ExponentStates => E < p
  BY DEF Located, E, P
<1>9. CASE to \in IntegerStates
  <2>1. to \notin FractionStates /\ to \notin ExponentStates
    BY <1>9, KindsOfStates
  <2>2. from \in IntegerStates /\ c # POINT /\ ~is_exponent(c)
    <3>1. from \notin ExponentStates /\ c # POINT /\ ~is_exponent(c) /\ to # "EXPONENT_MARK"
      BY <1>4, <1>9, <2>1 DEF IntegerStates
    <3>2. from \notin FractionStates
      BY <1>4, <2>1, <3>1
    <3> QED BY <3>1, <3>2, KindsOfStates
  <2>3. p < E /\ p < P
    BY <1>1, <1>2, <1>3, <1>8, <2>2
  <2>4. p + 1 <= E /\ p + 1 <= P
    BY <1>1, <1>2, <1>3, <2>3
  <2>5. Located(s, p + 1, to)
    BY <1>9, <2>1, <2>4 DEF Located, E, P, IntegerStates
  <2>6. /\ p \in MantissaDigits(s) <=> is_digit(c)
        /\ p \notin FractionDigitsOf(s) /\ p \notin ExponentDigits(s)
    BY <1>1, <1>2, <1>3, <1>5, <2>3 DEF MantissaDigits, FractionDigitsOf, ExponentDigits, E, P
  <2>7. to # "FRACTION" /\ to # "EXPONENT"
    BY <1>9 DEF IntegerStates
  <2> QED BY <1>4, <2>5, <2>6, <2>7 DEF to, c
<1>10. CASE to \in FractionStates
  <2>1. to \notin IntegerStates /\ to \notin ExponentStates
        /\ to \in {"DECIMAL_POINT", "FRACTION"}
    BY <1>10, KindsOfStates DEF FractionStates
  <2>2. from \notin ExponentStates /\ ~is_exponent(c)
    BY <1>4, <2>1
  <2>3. p < E
    BY <1>1, <1>2, <1>8, <2>2, KindsOfStates
  <2>4. CASE to = "DECIMAL_POINT"
    <3>1. c = POINT /\ from \in IntegerStates /\ ~is_digit(c)
      BY <1>4, <1>6, <2>4
    <3>2. P = p
      BY <1>1, <1>3, <1>8, <3>1
    <3>3. p + 1 <= E /\ P < p + 1
      BY <1>1, <1>2, <1>3, <2>3, <3>2
    <3>4. Located(s, p + 1, to)
      BY <2>1, <2>4, <3>3 DEF Located, E, P
    <3>5. p \notin MantissaDigits(s) /\ p \notin FractionDigitsOf(s) /\ p \notin ExponentDigits(s)
      BY <1>5, <3>1 DEF MantissaDigits, FractionDigitsOf, ExponentDigits
    <3> QED BY <2>4, <3>4, <3>5 DEF to, c
  <2>5. CASE to = "FRACTION"
    <3>1. is_digit(c) /\ from \in FractionStates
      BY <1>4, <1>10, <2>5
    <3>2. P < p /\ p + 1 <= E /\ P < p + 1
      BY <1>1, <1>2, <1>3, <1>8, <2>3, <3>1
    <3>3. Located(s, p + 1, to)
      BY <2>1, <2>5, <3>2 DEF Located, E, P
    <3>4. p \in MantissaDigits(s) /\ p \in FractionDigitsOf(s) /\ p \notin ExponentDigits(s)
      BY <1>1, <1>2, <1>3, <1>5, <2>3, <3>1, <3>2
         DEF MantissaDigits, FractionDigitsOf, ExponentDigits, E, P
    <3> QED BY <2>5, <3>3, <3>4 DEF to, c
  <2> QED BY <2>1, <2>4, <2>5
<1>11. CASE to \in ExponentStates
  <2>1. to \notin IntegerStates /\ to \notin FractionStates
        /\ to \in {"EXPONENT_MARK", "EXPONENT_SIGN", "EXPONENT"}
    BY <1>11, KindsOfStates DEF ExponentStates
  <2>2. CASE to = "EXPONENT_MARK"
    <3>1. is_exponent(c) /\ ~is_digit(c) /\ from \notin ExponentStates
      BY <1>4, <1>6, <2>2
    <3>2. p = E
      BY <1>1, <1>2, <1>8, <3>1, KindsOfStates
    <3>3. E < p + 1 /\ p + 1 = E + 1
      BY <1>1, <3>2
    <3>4. Located(s, p + 1, to)
      BY <2>1, <2>2, <3>3 DEF Located, E, P
    <3>5. p \notin MantissaDigits(s) /\ p \notin FractionDigitsOf(s) /\ p \notin ExponentDigits(s)
      BY <1>5, <3>1 DEF MantissaDigits, FractionDigitsOf, ExponentDigits
    <3> QED BY <2>2, <3>4, <3>5 DEF to, c
  <2>3. CASE to # "EXPONENT_MARK"
    <3>1. from \in ExponentStates
      BY <1>4, <1>11, <2>3
    <3>2. E < p
      BY <1>8, <3>1
    <3>3. E < p + 1 /\ p + 1 > E + 1
      BY <1>1, <1>2, <3>2
    <3>4. Located(s, p + 1, to)
      BY <2>1, <2>3, <3>3 DEF Located, E, P
    <3>5. /\ p \notin MantissaDigits(s) /\ p \notin FractionDigitsOf(s)
          /\ p \in ExponentDigits(s) <=> is_digit(c)
      BY <1>1, <1>2, <1>5, <3>2 DEF MantissaDigits, FractionDigitsOf, ExponentDigits, E, P
    <3>6. to \notin {"ZERO", "INTEGER", "FRACTION"}
      BY <2>1
    <3> QED BY <1>4, <3>4, <3>5, <3>6 DEF to, c
  <2> QED BY <2>2, <2>3
<1> QED BY <1>7, <1>9, <1>10, <1>11, KindsOfStates

\* The number that the digits at some positions make, up to each position.
UpTo(s, positions) == CHOOSE v : Values(s, positions, v) /\ NumberOf(s, positions) = v[Len(s)]
LEMMA UpToIs ==
  ASSUME NEW s \in Seq(Byte), NEW positions, positions \subseteq Digits(s)
  PROVE  /\ NumberOf(s, positions) = UpTo(s, positions)[Len(s)] /\ UpTo(s, positions)[0] = 0
         /\ \A p \in 0..Len(s) : UpTo(s, positions)[p] \in Nat
         /\ \A p \in 1..Len(s) :
              /\ p \in positions =>
                   UpTo(s, positions)[p] = UpTo(s, positions)[p - 1] * 10 + (s[p] - ZERO)
              /\ p \notin positions => UpTo(s, positions)[p] = UpTo(s, positions)[p - 1]
<1>1. \E v : Values(s, positions, v) /\ NumberOf(s, positions) = v[Len(s)]
  BY NumberFrom
<1>2. Values(s, positions, UpTo(s, positions))
      /\ NumberOf(s, positions) = UpTo(s, positions)[Len(s)]
  BY <1>1 DEF UpTo
<1> QED BY <1>2 DEF Values

\* How many of some positions are before p.
Before(positions, p) == Cardinality({q \in positions : q < p})
LEMMA BeforeIs ==
  ASSUME NEW s \in Seq(Byte), NEW positions, positions \subseteq Digits(s)
  PROVE  /\ Before(positions, 1) = 0 /\ Before(positions, Len(s) + 1) = Cardinality(positions)
         /\ \A p \in 1..(Len(s) + 1) : Before(positions, p) \in Nat
         /\ \A p \in 1..Len(s) : Before(positions, p + 1) =
              IF p \in positions THEN Before(positions, p) + 1 ELSE Before(positions, p)
<1>1. Len(s) \in Nat /\ \A q \in positions : q \in Nat /\ q >= 1 /\ q <= Len(s)
  BY DEF Digits
<1>2. IsFiniteSet(positions)
  <2>1. positions \subseteq 1..Len(s)
    BY <1>1
  <2>2. IsFiniteSet(1..Len(s))
    BY <1>1, FS_Interval
  <2> QED BY <2>1, <2>2, FS_Subset
<1>3. {q \in positions : q < 1} = {}
  BY <1>1
<1>4. {q \in positions : q < Len(s) + 1} = positions
  BY <1>1
<1>5. \A p \in 1..(Len(s) + 1) : IsFiniteSet({q \in positions : q < p})
  BY <1>2, FS_Subset
<1>6. ASSUME NEW p \in 1..Len(s)
      PROVE  Before(positions, p + 1) =
               IF p \in positions THEN Before(positions, p) + 1 ELSE Before(positions, p)
  <2> DEFINE A == {q \in positions : q < p}
  <2>1. p \notin A /\ IsFiniteSet(A)
    BY <1>1, <1>5
  <2>2. CASE p \in positions
    <3>1. {q \in positions : q < p + 1} = A \cup {p}
      <4>1. \A q \in positions : q < p + 1 <=> q < p \/ q = p
        BY <1>1
      <4> QED BY <2>2, <4>1
    <3>2. Cardinality(A \cup {p}) = Cardinality(A) + 1
      BY <2>1, FS_AddElement
    <3> QED BY <2>2, <3>1, <3>2 DEF Before
  <2>3. CASE p \notin positions
    <3>1. {q \in positions : q < p + 1} = A
      BY <1>1, <2>3
    <3> QED BY <2>3, <3>1 DEF Before
  <2> QED BY <2>2, <2>3
<1>7. \A p \in 1..(Len(s) + 1) : Before(positions, p) \in Nat
  BY <1>5, FS_CardinalityType DEF Before
<1>8. Before(positions, 1) = 0
  BY <1>3, FS_EmptySet DEF Before
<1>9. Before(positions, Len(s) + 1) = Cardinality(positions)
  BY <1>4 DEF Before
<1> QED BY <1>6, <1>7, <1>8, <1>9

-----------------------------------------------------------------------------
(* The invariant of a double.                                              *)

\* The sign of the exponent was read, and it is a minus.
MinusRead(s, p) == p > ExponentAt(s) + 1 /\ At(s, ExponentAt(s) + 1) = MINUS
Amounted(acc, s, p) ==
  /\ Amounts(acc, UpTo(s, MantissaDigits(s))[p - 1], Before(FractionDigitsOf(s), p),
             UpTo(s, ExponentDigits(s))[p - 1])
  /\ acc.exponent_negative <=> MinusRead(s, p)
DoubleInv ==
  kind = "DOUBLE" /\ state # "INVALID" =>
    Located(text, ptr, state) /\ Amounted(accumulator, text, ptr)

LEMMA AmountedStep ==
  ASSUME kind = "DOUBLE", NEW acc \in Accumulators, NEW s \in Seq(Byte), NEW p \in 1..Len(s),
         NEW from \in NumberStates, p = 1 <=> from = "NONE", Located(s, p, from),
         NEW to \in NumberStates \ {"NONE"}, to = NextOf(p, from, s[p]), Amounted(acc, s, p)
  PROVE  Amounted(kason_number_accumulator_feed(acc, s[p], to), s, p + 1)
<1> DEFINE c == s[p]
           next == kason_number_accumulator_feed(acc, c, to)
           M == MantissaDigits(s)
           F == FractionDigitsOf(s)
           X == ExponentDigits(s)
           n == UpTo(s, M)[p - 1]
           f == Before(F, p)
           x == UpTo(s, X)[p - 1]
           E == ExponentAt(s)
<1>1. /\ Len(s) \in Nat /\ p \in Nat /\ p >= 1 /\ p <= Len(s) /\ At(s, p) = c
      /\ p - 1 \in 0..Len(s) /\ p \in 1..(Len(s) + 1) /\ (p + 1) - 1 = p
  BY AtIs
<1>2. /\ Located(s, p + 1, to)
      /\ p \in M <=> to \in {"ZERO", "INTEGER", "FRACTION"}
      /\ p \in F <=> to = "FRACTION"
      /\ p \in X <=> to = "EXPONENT"
  BY LocatedStep
<1>3. M \subseteq Digits(s) /\ F \subseteq Digits(s) /\ X \subseteq Digits(s)
  BY DEF MantissaDigits, FractionDigitsOf, ExponentDigits
<1> HIDE DEF M, F, X
<1>4. n \in Nat /\ f \in Nat /\ x \in Nat
  BY <1>1, <1>3, UpToIs, BeforeIs
<1>5. UpTo(s, M)[p] = IF p \in M THEN n * 10 + (c - ZERO) ELSE n
  BY <1>3, UpToIs
<1>6. UpTo(s, X)[p] = IF p \in X THEN x * 10 + (c - ZERO) ELSE x
  BY <1>3, UpToIs
<1>7. Before(F, p + 1) = IF p \in F THEN f + 1 ELSE f
  <2>1. \A q \in 1..Len(s) :
          Before(F, q + 1) = IF q \in F THEN Before(F, q) + 1 ELSE Before(F, q)
    BY ONLY s \in Seq(Byte), <1>3, BeforeIs
  <2> QED BY <2>1
<1>8. Amounts(acc, n, f, x) /\ (acc.exponent_negative <=> MinusRead(s, p))
  BY DEF Amounted, M, F, X
<1>9. /\ is_digit(c) <=> to \in {"ZERO", "INTEGER", "FRACTION", "EXPONENT"}
      /\ to = "EXPONENT_SIGN" => from = "EXPONENT_MARK"
      /\ c = MINUS => to \in {"SIGN", "EXPONENT_SIGN"}
  BY StateKinds
<1> HIDE DEF n, f, x, E, c
<1>10. /\ to \in {"ZERO", "INTEGER"} => Amounts(next, n * 10 + (c - ZERO), f, x)
       /\ to = "FRACTION" => Amounts(next, n * 10 + (c - ZERO), f + 1, x)
       /\ to = "EXPONENT" => Amounts(next, n, f, x * 10 + (c - ZERO))
       /\ ~is_digit(c) => Amounts(next, n, f, x)
       /\ to = "EXPONENT_SIGN" => (next.exponent_negative <=> c = MINUS)
       /\ to # "EXPONENT_SIGN" => next.exponent_negative = acc.exponent_negative
  BY <1>4, <1>8, <1>9, FeedAmounts
<1> HIDE DEF next
<1>11. Amounts(next, UpTo(s, M)[p], Before(F, p + 1), UpTo(s, X)[p])
  <2>1. CASE to \in {"ZERO", "INTEGER"}
    <3>1. UpTo(s, M)[p] = n * 10 + (c - ZERO) /\ UpTo(s, X)[p] = x /\ Before(F, p + 1) = f
      BY <1>2, <1>5, <1>6, <1>7, <2>1
    <3> QED BY ONLY <1>10, <2>1, <3>1
  <2>2. CASE to = "FRACTION"
    <3>1. UpTo(s, M)[p] = n * 10 + (c - ZERO) /\ UpTo(s, X)[p] = x /\ Before(F, p + 1) = f + 1
      BY <1>2, <1>5, <1>6, <1>7, <2>2
    <3> QED BY ONLY <1>10, <2>2, <3>1
  <2>3. CASE to = "EXPONENT"
    <3>1. UpTo(s, M)[p] = n /\ UpTo(s, X)[p] = x * 10 + (c - ZERO) /\ Before(F, p + 1) = f
      BY <1>2, <1>5, <1>6, <1>7, <2>3
    <3> QED BY ONLY <1>10, <2>3, <3>1
  <2>4. CASE ~is_digit(c)
    <3>1. UpTo(s, M)[p] = n /\ UpTo(s, X)[p] = x /\ Before(F, p + 1) = f
      BY <1>2, <1>5, <1>6, <1>7, <1>9, <2>4
    <3> QED BY ONLY <1>10, <2>4, <3>1
  <2> QED BY <1>9, <2>1, <2>2, <2>3, <2>4
<1>12. next.exponent_negative <=> MinusRead(s, p + 1)
  <2>0. E \in Nat
    BY <1>1, ExponentAtIs DEF E
  <2>1. CASE to = "EXPONENT_SIGN"
    <3>1. p = E + 1
      BY <1>9, <2>1 DEF Located, E
    <3>2. MinusRead(s, p + 1) <=> c = MINUS
      BY <1>1, <2>0, <3>1 DEF MinusRead, E
    <3> QED BY <1>10, <2>1, <3>2
  <2>2. CASE to # "EXPONENT_SIGN"
    <3>1. MinusRead(s, p) <=> MinusRead(s, p + 1)
      <4>1. CASE c # MINUS
        <5>1. p = E + 1 => At(s, E + 1) # MINUS
          BY <1>1, <4>1
        <5> QED BY <1>1, <2>0, <5>1 DEF MinusRead, E
      <4>2. CASE c = MINUS
        <5>1. to = "SIGN"
          BY <1>9, <2>2, <4>2
        <5>2. p + 1 <= E
          BY <1>2, <5>1 DEF Located, E, IntegerStates
        <5> QED BY <1>1, <2>0, <5>2 DEF MinusRead, E
      <4> QED BY <4>1, <4>2
    <3> QED BY <1>8, <1>10, <2>2, <3>1
  <2> QED BY <2>1, <2>2
<1>13. UpTo(s, M)[(p + 1) - 1] = UpTo(s, M)[p] /\ UpTo(s, X)[(p + 1) - 1] = UpTo(s, X)[p]
  BY <1>1
<1> QED BY <1>11, <1>12, <1>13 DEF Amounted, M, F, X, next, c

\* The number handed to strtod.
LEMMA DoubleIsRounded ==
  ASSUME NEW s \in Seq(Byte), NEW acc \in Accumulators, Amounted(acc, s, Len(s) + 1),
         acc.fraction_digits < CAP, acc.dropped_digits < CAP, acc.explicit_exponent < CAP,
         NEW st \in {"ZERO", "INTEGER", "FRACTION", "EXPONENT"}, Located(s, Len(s) + 1, st),
         acc.negative <=> s[1] = MINUS
  PROVE  DoubleResult(acc) = IF Mantissa(s) = 0 THEN Zero(s[1] = MINUS)
                             ELSE strtod(s[1] = MINUS, Rounded(Mantissa(s)),
                                         PowerOf(s) + Dropped(Mantissa(s)))
<1> DEFINE n == Mantissa(s)
           d == acc.dropped_digits
           f == acc.fraction_digits
           x == acc.explicit_exponent
           E == ExponentAt(s)
<1>1. Len(s) \in Nat /\ (Len(s) + 1) - 1 = Len(s) /\ Len(s) \in 0..Len(s)
  BY AtIs
<1>2. /\ MantissaDigits(s) \subseteq Digits(s) /\ FractionDigitsOf(s) \subseteq Digits(s)
      /\ ExponentDigits(s) \subseteq Digits(s)
  BY DEF MantissaDigits, FractionDigitsOf, ExponentDigits
<1>3. /\ n \in Nat /\ n = UpTo(s, MantissaDigits(s))[Len(s)]
      /\ NumberOf(s, ExponentDigits(s)) = UpTo(s, ExponentDigits(s))[Len(s)]
      /\ FractionDigits(s) = Before(FractionDigitsOf(s), Len(s) + 1)
  <2>1. n = NumberOf(s, MantissaDigits(s))
    BY DEF Mantissa, MantissaDigits
  <2>2. FractionDigits(s) = Cardinality(FractionDigitsOf(s))
    BY DEF FractionDigits, FractionDigitsOf
  <2> QED BY <1>1, <1>2, <2>1, <2>2, UpToIs, BeforeIs
<1>4. MantissaIs(acc, n) /\ f = FractionDigits(s) /\ x = NumberOf(s, ExponentDigits(s))
  <2>1. Amounts(acc, UpTo(s, MantissaDigits(s))[Len(s)],
                Before(FractionDigitsOf(s), Len(s) + 1), UpTo(s, ExponentDigits(s))[Len(s)])
    BY <1>1 DEF Amounted
  <2> QED BY <1>3, <2>1 DEF Amounts
<1>5. ExponentSign(s) = IF acc.exponent_negative THEN -1 ELSE 1
  <2>1. acc.exponent_negative <=> MinusRead(s, Len(s) + 1)
    BY DEF Amounted
  <2>2. E \in Nat /\ E <= Len(s) + 1
    BY <1>1, ExponentAtIs
  <2>3. At(s, E + 1) = MINUS <=> MinusRead(s, Len(s) + 1)
    <3>1. CASE st = "EXPONENT"
      <4>1. Len(s) + 1 > E + 1
        BY <3>1 DEF Located
      <4> QED BY <4>1 DEF MinusRead
    <3>2. CASE st # "EXPONENT"
      <4>1. E = Len(s) + 1
        BY <1>1, <2>2, <3>2 DEF Located, IntegerStates, FractionStates
      <4>2. At(s, E + 1) # MINUS
        BY <1>1, <4>1 DEF At, MINUS
      <4>3. ~(Len(s) + 1 > E + 1)
        BY <1>1, <4>1
      <4> QED BY <4>2, <4>3 DEF MinusRead
    <3> QED BY <3>1, <3>2
  <2> QED BY <2>1, <2>3 DEF ExponentSign
<1>6. PowerOf(s) = ExponentSign(s) * x - f
  BY <1>4 DEF PowerOf, ExponentDigits
<1>7. x \in Nat /\ f \in Nat /\ d \in Nat /\ acc.nonzero \in BOOLEAN /\ acc.negative \in BOOLEAN
  BY DEF Accumulators
<1>8. acc.negative = (s[1] = MINUS)
  BY <1>7
<1>9. acc.nonzero <=> n # 0
  BY <1>4 DEF MantissaIs
<1>10. CASE n = 0
  BY <1>8, <1>9, <1>10 DEF DoubleResult
<1>11. CASE n # 0
  <2>1. Dropped(n) = d /\ Rounded(n) = Significand(acc)
    BY <1>3, <1>4, <1>11, MantissaIsRounded
  <2>2. Exponent(acc) = PowerOf(s) + d
    <3>1. Exponent(acc) = (IF acc.exponent_negative THEN -x ELSE x) - f + d
      BY DEF Exponent
    <3> HIDE DEF x, f, d
    <3>2. CASE acc.exponent_negative
      <4>1. PowerOf(s) = (-1) * x - f
        BY <1>5, <1>6, <3>2
      <4> QED BY <1>7, <3>1, <3>2, <4>1
    <3>3. CASE ~acc.exponent_negative
      <4>1. PowerOf(s) = 1 * x - f
        BY <1>5, <1>6, <3>3
      <4> QED BY <1>7, <3>1, <3>3, <4>1
    <3> QED BY <3>2, <3>3
  <2>3. DoubleResult(acc) = strtod(acc.negative, Significand(acc), Exponent(acc))
    BY <1>9, <1>11 DEF DoubleResult
  <2> HIDE DEF n, d
  <2> QED BY <1>8, <1>11, <2>1, <2>2, <2>3 DEF n
<1> QED BY <1>10, <1>11

LEMMA InitDoubles == Init => DoubleInv
<1> SUFFICES ASSUME Init PROVE Located(text, ptr, state) /\ Amounted(accumulator, text, ptr)
  BY DEF DoubleInv
<1>1. text \in Seq(Byte) /\ ptr = 1 /\ state = "NONE" /\ accumulator = Empty
  BY TextsAssumption DEF Init
<1> DEFINE E == ExponentAt(text)
           P == PointAt(text)
<1>2. E \in Nat /\ E >= 1 /\ P \in Nat /\ P >= 1
  <2>1. Len(text) \in Nat /\ E \in 1..(Len(text) + 1) /\ P \in 1..E
    BY <1>1, ExponentAtIs, PointAtIs
  <2> QED BY <2>1
<1>3. Located(text, 1, "NONE")
  BY <1>2 DEF Located, IntegerStates, FractionStates, ExponentStates
<1>4. /\ MantissaDigits(text) \subseteq Digits(text) /\ FractionDigitsOf(text) \subseteq Digits(text)
      /\ ExponentDigits(text) \subseteq Digits(text)
  BY DEF MantissaDigits, FractionDigitsOf, ExponentDigits
<1>5. /\ UpTo(text, MantissaDigits(text))[1 - 1] = 0
      /\ UpTo(text, ExponentDigits(text))[1 - 1] = 0
      /\ Before(FractionDigitsOf(text), 1) = 0
  <2>1. 1 - 1 = 0
    OBVIOUS
  <2> QED BY <1>1, <1>4, <2>1, UpToIs, BeforeIs
<1>6. MantissaIs(Empty, 0)
  <2>1. RestOf(Empty, 0) = 0
    BY PowerIs DEF RestOf, Empty
  <2>2. Leads(Empty, 0)
    BY <2>1, PowerIs DEF Leads, Empty
  <2> QED BY <2>2, DoubleAssumption DEF MantissaIs, Empty
<1>7. Amounts(Empty, 0, 0, 0) /\ ~Empty.exponent_negative
  BY <1>6 DEF Amounts, Empty
<1>8. ~MinusRead(text, 1)
  BY <1>2 DEF MinusRead
<1>9. Amounted(Empty, text, 1)
  BY <1>5, <1>7, <1>8 DEF Amounted
<1> QED BY <1>1, <1>3, <1>9

LEMMA FeedDoubles ==
  ASSUME IInv, ReadInv, DoubleInv, cached = NoResult, ptr <= Len(text), state # "INVALID",
         NEW s, s = NextState(text[ptr]), Feed(text[ptr], s)
  PROVE  DoubleInv'
<1>1. /\ s # "INVALID" /\ state' = s /\ ptr' = ptr + 1 /\ text' = text /\ kind' = kind
      /\ accumulator' = kason_number_accumulator_feed(accumulator, text[ptr], s)
  BY DEF Feed
<1> SUFFICES ASSUME kind = "DOUBLE"
             PROVE  Located(text', ptr', state') /\ Amounted(accumulator', text', ptr')
  BY <1>1 DEF DoubleInv
<1>2. text \in Seq(Byte) /\ ptr \in 1..Len(text) /\ ptr \in Nat /\ At(text, ptr) = text[ptr]
  BY AtIs DEF ReadInv, TextInv
<1>3. Shape(text, ptr, state) /\ (ptr = 1 <=> state = "NONE")
  BY DEF ReadInv, Reading
<1>4. s = NextOf(ptr, state, text[ptr])
  BY DEF NextState, NextOf
<1>5. Shape(text, ptr + 1, s)
  BY <1>1, <1>2, <1>3, <1>4, ShapeStep
<1>6. state \in NumberStates /\ s \in NumberStates
  BY <1>3, <1>5, ShapeStates
<1>7. s # "NONE"
  BY <1>2, <1>5 DEF Shape
<1>8. Located(text, ptr, state) /\ Amounted(accumulator, text, ptr) /\ accumulator \in Accumulators
  BY DEF DoubleInv, IInv, AccInv
<1>9. s \in NumberStates \ {"NONE"}
  BY <1>6, <1>7
<1>10. Located(text, ptr + 1, s)
  <2>1. NextOf(ptr, state, text[ptr]) \in NumberStates \ {"NONE"}
    BY <1>4, <1>9
  <2>2. Located(text, ptr + 1, NextOf(ptr, state, text[ptr]))
    BY <1>2, <1>3, <1>6, <1>8, <2>1, LocatedStep
  <2> QED BY <1>4, <2>2
<1>11. Amounted(kason_number_accumulator_feed(accumulator, text[ptr], s), text, ptr + 1)
  BY <1>2, <1>3, <1>4, <1>6, <1>8, <1>9, AmountedStep
<1> QED BY <1>1, <1>10, <1>11

LEMMA FinishRounds ==
  ASSUME IInv, ReadInv, DoubleInv, Finish
  PROVE  DoublesAreRounded'
<1>1. /\ cached = NoResult /\ ptr > Len(text)
      /\ UNCHANGED <<text, kind, ptr, state, accumulator, exact>>
  BY DEF Finish
<1> SUFFICES ASSUME kind = "DOUBLE", is_valid_number(text), Counted
             PROVE  cached' = DoubleOf(text)
  BY <1>1 DEF DoublesAreRounded, Counted
<1>2. text \in Seq(Byte) /\ Len(text) \in Nat /\ ptr = Len(text) + 1
  BY <1>1, AtIs DEF ReadInv, TextInv
<1>3. state # "INVALID" /\ Reading
  <2>1. NoResult.result = "NONE" /\ Failure("ERROR").result = "ERROR"
    BY DEF NoResult, Failure
  <2> QED BY <1>1, <2>1 DEF ReadInv, Refused
<1>4. kason_number_complete(state)
  BY <1>2, <1>3, ShapeEnds DEF Reading
<1>5. cached' = DoubleResult(accumulator)
  BY <1>4 DEF Finish, kason_number_accumulator_finish
<1>6. accumulator.negative <=> text[1] = MINUS
  <2>1. Len(text) >= 1
    <3>1. IntegerEnd(text) # 0
      BY Unfinished, <1>2
    <3> QED BY <1>2, <3>1, IntegerPart
  <2>2. At(text, 1) = text[1] /\ ptr > 1
    BY <1>2, <2>1, AtIs
  <2> QED BY <1>3, <2>2 DEF Reading
<1>7. /\ Located(text, Len(text) + 1, state) /\ Amounted(accumulator, text, Len(text) + 1)
      /\ accumulator \in Accumulators
  BY <1>2, <1>3 DEF DoubleInv, IInv, AccInv
<1>8. /\ accumulator.fraction_digits < CAP /\ accumulator.dropped_digits < CAP
      /\ accumulator.explicit_exponent < CAP
  BY DEF Counted
<1>9. state \in {"ZERO", "INTEGER", "FRACTION", "EXPONENT"}
  BY <1>4 DEF kason_number_complete
<1>10. DoubleResult(accumulator) =
         IF Mantissa(text) = 0 THEN Zero(text[1] = MINUS)
         ELSE strtod(text[1] = MINUS, Rounded(Mantissa(text)),
                     PowerOf(text) + Dropped(Mantissa(text)))
  BY <1>2, <1>6, <1>7, <1>8, <1>9, DoubleIsRounded
<1> QED BY <1>5, <1>10 DEF DoubleOf, RoundedDouble

LEMMA NextDoubles ==
  ASSUME IInv, ReadInv, DoubleInv, DoublesAreRounded, [Next]_numberVars
  PROVE  DoubleInv' /\ DoublesAreRounded'
<1>1. ASSUME cached = NoResult PROVE state # "INVALID"
  <2>1. NoResult.result = "NONE" /\ Failure("ERROR").result = "ERROR"
    BY DEF NoResult, Failure
  <2> QED BY <1>1, <2>1 DEF ReadInv, Refused
<1>2. CASE Read
  <2> DEFINE c == text[ptr]
             s == NextState(c)
  <2>1. /\ cached = NoResult /\ ptr <= Len(text)
        /\ Feed(c, s) \/ (s = "INVALID" /\ Fail)
    BY <1>2 DEF Read
  <2>2. CASE Feed(c, s)
    <3>1. DoubleInv'
      BY <1>1, <2>1, <2>2, FeedDoubles
    <3>2. ~Done'
      BY <2>2 DEF Feed, Done
    <3> QED BY <3>1, <3>2 DEF DoublesAreRounded
  <2>3. CASE s = "INVALID" /\ Fail
    <3>1. state' = "INVALID"
      BY <2>3 DEF Fail
    <3>2. ReadInv'
      BY NextReads
    <3>3. ~is_valid_number(text')
      BY <3>1, <3>2 DEF ReadInv, Refused
    <3> QED BY <3>1, <3>3 DEF DoubleInv, DoublesAreRounded
  <2> QED BY <2>1, <2>2, <2>3
<1>3. CASE Finish
  <2>1. DoublesAreRounded'
    BY <1>3, FinishRounds
  <2>2. UNCHANGED <<text, kind, ptr, state, accumulator, exact>>
    BY <1>3 DEF Finish
  <2>3. DoubleInv'
    BY <2>2 DEF DoubleInv, Located, Amounted, Amounts, MantissaIs, Leads, RestOf, HasLength, MinusRead
  <2> QED BY <2>1, <2>3
<1>4. CASE UNCHANGED numberVars
  <2>1. UNCHANGED <<text, kind, ptr, state, accumulator, cached, exact>>
    BY <1>4 DEF numberVars
  <2>2. DoubleInv'
    BY <2>1 DEF DoubleInv, Located, Amounted, Amounts, MantissaIs, Leads, RestOf, HasLength, MinusRead
  <2>3. DoublesAreRounded'
    BY <2>1 DEF DoublesAreRounded, Done, Counted, DoubleOf, RoundedDouble
  <2> QED BY <2>2, <2>3
<1> QED BY <1>2, <1>3, <1>4 DEF Next

-----------------------------------------------------------------------------
(* No digit and no rounding makes the magnitude or the significand wrap,   *)
(* at any width whose unsigned integers hold SIGNIFICANT digits.           *)
THEOREM WidthsAreKept == Spec => []WidthIsKept
<1>1. IInv => WidthIsKept
  <2> SUFFICES ASSUME IInv PROVE WidthIsKept
    OBVIOUS
  <2>1. /\ accumulator.magnitude <= UINT64_MAX /\ accumulator.significand \in Nat
        /\ accumulator.significand < 10^accumulator.significant_digits
        /\ accumulator.significant_digits \in Nat
        /\ accumulator.significant_digits <= SIGNIFICANT
    BY DEF IInv, AccInv, Fitting, Accumulators
  <2>2. /\ 10^accumulator.significant_digits <= 10^SIGNIFICANT
        /\ 10^accumulator.significant_digits \in Nat /\ 10^SIGNIFICANT \in Nat
        /\ 10^SIGNIFICANT <= UINT64_MAX /\ UINT64_MAX \in Nat
    <3>1. accumulator.significant_digits \in 0..SIGNIFICANT /\ SIGNIFICANT \in 0..SIGNIFICANT
      BY <2>1, DoubleAssumption
    <3> QED BY <3>1, Powers, WidthAssumption
  <2>3. accumulator.significand + 1 <= UINT64_MAX
    BY <2>1, <2>2
  <2> QED BY <2>1, <2>2, <2>3 DEF WidthIsKept, Significand
<1> QED BY <1>1, SpecKeeps, PTL

(* Fed digit by digit, with the test for overflow before each, the         *)
(* accumulator of an integer gives the value of the digits when that is in *)
(* range and refuses it when it is not: nothing wraps, at any width.       *)
THEOREM AccumulatorIsExact == Spec => []ReadExactly
<1>1. IInv => ReadExactly
  BY DEF IInv
<1> QED BY <1>1, SpecKeeps, PTL

(* Read one byte at a time, a text is a number exactly when the grammar    *)
(* says so, and its value or its error are those that kason_value_to_*     *)
(* find in the slice, a double's too: for every text and at any width.     *)
THEOREM ConversionsAgreeAlways == Spec => []ConversionsAgree
<1>1. IInv /\ ReadInv /\ Retold => ConversionsAgree
  <2> SUFFICES ASSUME IInv, ReadInv, Retold, Done PROVE StatesSpellNumbers /\ ConvertedAlike
    BY DEF ConversionsAgree, StatesSpellNumbers, ConvertedAlike
  <2>1. CASE state = "INVALID"
    <3>1. ~is_valid_number(text) /\ ~kason_number_complete(state)
      BY <2>1 DEF ReadInv, Refused, kason_number_complete
    <3> QED BY <3>1 DEF StatesSpellNumbers, ConvertedAlike
  <2>2. CASE state # "INVALID"
    <3>1. Finished
      BY <2>2 DEF ReadInv
    <3>2. is_valid_number(text) =>
            cached = IF kind = "DOUBLE" THEN kason_value_to_double(text)
                     ELSE kason_value_to(kind, text)
      BY <3>1 DEF Finished, Retold, Done
    <3> QED BY <3>1, <3>2 DEF Finished, StatesSpellNumbers, ConvertedAlike
  <2> QED BY <2>1, <2>2
<1> QED BY <1>1, SpecKeeps, PTL

(* The value is the integer that the digits stand for when the type asked  *)
(* for holds it, RANGE when it does not, and an error for a number that is *)
(* not an integer, at both ends of every range; an int is the int64 it     *)
(* would be.                                                               *)
THEOREM IntegersAreExactAlways == Spec => []IntegersAreExact
<1>1. IInv /\ ReadInv => ParsedExactly
  <2> SUFFICES ASSUME IInv, ReadInv, Done, kind # "DOUBLE", is_valid_number(text)
               PROVE  IsExact(kind, text, cached)
    BY DEF ParsedExactly
  <2>1. cached = kason_value_to(kind, text)
    BY DEF ReadInv, Refused, Finished, Done
  <2>2. kind \in {"SIGNED", "UNSIGNED"} /\ text \in Seq(Byte)
    BY DEF IInv, Kinds, ReadInv, TextInv
  <2> QED BY <2>1, <2>2, ValueIsExact
<1>2. ReadInv => IntsAreExact
  <2> SUFFICES ASSUME ReadInv, is_valid_number(text), IsInteger(text)
               PROVE  IF IntegerOf(text) \in (-INT_MAX - 1)..INT_MAX
                      THEN kason_value_to_int(text) = Converted(IntegerOf(text))
                      ELSE kason_value_to_int(text).result = "RANGE"
    BY DEF IntsAreExact
  <2>1. text \in Seq(Byte)
    BY DEF ReadInv, TextInv
  <2> QED BY <2>1, IntIsExact
<1>3. IInv => ReadExactly
  BY DEF IInv
<1>4. IInv /\ ReadInv => IntegersAreExact
  BY <1>1, <1>2, <1>3 DEF IntegersAreExact
<1> QED BY <1>4, SpecKeeps, PTL

(* A double is its number rounded once, half up, to SIGNIFICANT digits: the *)
(* significand is the first digits, digits that are dropped before or after *)
(* the point still count for the exponent, and a zero keeps its sign; as    *)
(* long as no count reaches its cap, for every text and every width.        *)
THEOREM DoublesAreRoundedAlways == Spec => []DoublesAreRounded
<1>1. Init => DoublesAreRounded
  BY DEF Init, DoublesAreRounded, Done
<1>2. Init => IInv /\ ReadInv /\ DoubleInv /\ DoublesAreRounded
  BY <1>1, InitIsInv, InitReads, InitDoubles
<1>3. IInv /\ ReadInv /\ DoubleInv /\ DoublesAreRounded /\ [Next]_numberVars
      => (IInv /\ ReadInv /\ DoubleInv /\ DoublesAreRounded)'
  BY NextKeeps, NextReads, NextDoubles
<1> QED BY <1>2, <1>3, PTL DEF Spec
=============================================================================
