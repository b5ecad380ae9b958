---------------------------- MODULE KasonTextProofs ----------------------------
(***************************************************************************)
(* Lemmas about the text layer, and the induction they need.               *)
(***************************************************************************)
EXTENDS KasonText, SequenceTheorems, WellFoundedInduction, TLAPS

-----------------------------------------------------------------------------
(* Induction and recursion over data, for sets and functions. *)

\* A set of naturals has a least element.
LEMMA LeastNat ==
  ASSUME NEW N \in SUBSET Nat, N # {}
  PROVE  \E x \in N : \A y \in N : x <= y
<1> DEFINE R == {ss \in Nat \X Nat : ss[1] < ss[2]}
<1>1. IsWellFoundedOn(R, Nat)
  <2>1. R = OpToRel(<, Nat)
    BY DEF OpToRel
  <2> QED BY <2>1, NatLessThanWellFounded
<1> HIDE DEF R
<1>2. PICK x \in N : \A y \in N : ~(<<y, x>> \in R)
  BY <1>1, WFMin
<1>3. \A y \in N : x <= y
  <2> TAKE y \in N
  <2>1. x \in Nat /\ y \in Nat /\ <<y, x>> \in Nat \X Nat
    OBVIOUS
  <2>2. ~(y < x)
    BY <1>2, <2>1 DEF R
  <2> QED BY <2>1, <2>2
<1> QED BY <1>3

\* g is what the body F of a recursive definition says, for the arguments
\* that come before step n of the measure m.
Follows(S, T, m, F, n, g) ==
  /\ g \in [S -> T]
  /\ \A s \in S : m[s] < n => g[s] = F[g][s]
\* The body asks only for values of smaller measure.
Descends(S, T, m, F) ==
  \A g, h \in [S -> T] : \A s \in S :
    (\A r \in S : m[r] < m[s] => g[r] = h[r]) => F[g][s] = F[h][s]

LEMMA FollowsOnce ==
  ASSUME NEW S, NEW T, NEW m \in [S -> Nat], NEW F, Descends(S, T, m, F),
         NEW n \in Nat, NEW k \in Nat, NEW g, NEW h,
         Follows(S, T, m, F, n, g), Follows(S, T, m, F, k, h),
         NEW s \in S, m[s] < n, m[s] < k
  PROVE  g[s] = h[s]
<1> DEFINE Bad == {j \in Nat : \E r \in S : m[r] = j /\ j < n /\ j < k /\ g[r] # h[r]}
<1> SUFFICES ASSUME g[s] # h[s] PROVE FALSE
  OBVIOUS
<1>1. m[s] \in Bad
  OBVIOUS
<1>2. PICK j \in Bad : \A l \in Bad : j <= l
  BY <1>1, LeastNat
<1>3. PICK r \in S : m[r] = j /\ j < n /\ j < k /\ g[r] # h[r]
  BY <1>2
<1>4. \A q \in S : m[q] < m[r] => g[q] = h[q]
  <2> SUFFICES ASSUME NEW q \in S, m[q] < m[r], g[q] # h[q] PROVE FALSE
    OBVIOUS
  <2>1. m[q] \in Nat /\ j \in Nat
    BY <1>2
  <2>2. m[q] \in Bad
    BY <1>3, <2>1
  <2> QED BY <1>2, <1>3, <2>1, <2>2
<1>5. F[g][r] = F[h][r]
  BY <1>4 DEF Descends, Follows
<1> QED BY <1>3, <1>5 DEF Follows

LEMMA FollowsFurther ==
  ASSUME NEW S, NEW T, NEW m \in [S -> Nat], NEW F \in [[S -> T] -> [S -> T]],
         T # {}, Descends(S, T, m, F), NEW n \in Nat
  PROVE  \E g : Follows(S, T, m, F, n, g)
<1> DEFINE Bad == {j \in Nat : ~\E g : Follows(S, T, m, F, j, g)}
<1> SUFFICES ASSUME n \in Bad PROVE FALSE
  OBVIOUS
<1>1. PICK j \in Bad : \A l \in Bad : j <= l
  BY LeastNat
<1>2. CASE j = 0
  <2>1. PICK t \in T : TRUE
    OBVIOUS
  <2>2. \A s \in S : m[s] \in Nat
    OBVIOUS
  <2>3. Follows(S, T, m, F, 0, [s \in S |-> t])
    BY <2>1, <2>2 DEF Follows
  <2> QED BY <1>1, <1>2, <2>3
<1>3. CASE j # 0
  <2>1. j \in Nat \ {0} /\ j - 1 \in Nat /\ ~(j <= j - 1)
    BY <1>1, <1>3
  <2>2. j - 1 \notin Bad
    BY <1>1, <2>1
  <2>3. PICK g : Follows(S, T, m, F, j - 1, g)
    BY <2>1, <2>2
  <2> DEFINE h == [s \in S |-> IF m[s] < j - 1 THEN g[s] ELSE F[g][s]]
  <2>4. g \in [S -> T] /\ h \in [S -> T]
    BY <2>3 DEF Follows
  <2>5. \A s \in S : m[s] \in Nat /\ (m[s] < j => \A r \in S : m[r] < m[s] => h[r] = g[r])
    <3>1. \A s, r \in S : m[s] \in Nat /\ m[r] \in Nat
      OBVIOUS
    <3> QED BY <2>1, <3>1
  <2>6. \A s \in S : m[s] < j => h[s] = F[g][s]
    BY <2>3 DEF Follows
  <2> HIDE DEF h
  <2>7. \A s \in S : m[s] < j => F[h][s] = F[g][s]
    BY <2>4, <2>5 DEF Descends
  <2>8. Follows(S, T, m, F, j, h)
    BY <2>4, <2>6, <2>7 DEF Follows
  <2> QED BY <1>1, <2>8
<1> QED BY <1>2, <1>3

\* A recursive definition: F gives its body for each function it may call.
Recursive(S, T, m, F) ==
  /\ m \in [S -> Nat] /\ F \in [[S -> T] -> [S -> T]] /\ T # {}
  /\ Descends(S, T, m, F)
Solution(S, T, F, f) == f \in [S -> T] /\ \A s \in S : f[s] = F[f][s]

\* A recursive definition whose body descends defines a function.
LEMMA Recursion ==
  ASSUME NEW S, NEW T, NEW m, NEW F, Recursive(S, T, m, F)
  PROVE  \E f : Solution(S, T, F, f)
<1>0. /\ m \in [S -> Nat] /\ F \in [[S -> T] -> [S -> T]] /\ T # {}
      /\ Descends(S, T, m, F)
  BY DEF Recursive
<1> DEFINE upto(n) == CHOOSE g : Follows(S, T, m, F, n, g)
           f == [s \in S |-> upto(m[s] + 1)[s]]
<1>1. \A s \in S : m[s] \in Nat /\ m[s] + 1 \in Nat /\ m[s] < m[s] + 1
  BY <1>0
<1>2. \A n \in Nat : Follows(S, T, m, F, n, upto(n))
  BY <1>0, FollowsFurther
<1> HIDE DEF upto
<1>3. \A s \in S : upto(m[s] + 1) \in [S -> T]
  BY <1>1, <1>2 DEF Follows
<1>4. f \in [S -> T]
  BY <1>3
<1>5. ASSUME NEW s \in S PROVE f[s] = F[f][s]
  <2>1. f[s] = upto(m[s] + 1)[s]
    OBVIOUS
  <2>2. upto(m[s] + 1)[s] = F[upto(m[s] + 1)][s]
    BY <1>1, <1>2 DEF Follows
  <2>3. \A r \in S : m[r] < m[s] => f[r] = upto(m[s] + 1)[r]
    <3> SUFFICES ASSUME NEW r \in S, m[r] < m[s] PROVE f[r] = upto(m[s] + 1)[r]
      OBVIOUS
    <3>1. f[r] = upto(m[r] + 1)[r]
      OBVIOUS
    <3>2. m[r] < m[r] + 1 /\ m[r] < m[s] + 1 /\ m[r] + 1 \in Nat /\ m[s] + 1 \in Nat
      BY <1>1
    <3>3. Follows(S, T, m, F, m[r] + 1, upto(m[r] + 1)) /\ Follows(S, T, m, F, m[s] + 1, upto(m[s] + 1))
      BY <1>2, <3>2
    <3> QED BY <1>0, <3>1, <3>2, <3>3, FollowsOnce
  <2> HIDE DEF f
  <2>4. F[f][s] = F[upto(m[s] + 1)][s]
    BY <1>0, <1>3, <1>4, <2>3 DEF Descends
  <2> QED BY <2>1, <2>2, <2>4
<1> QED BY <1>4, <1>5 DEF Solution
\* What holds of an argument when it holds of those of smaller measure holds
\* of all.
Progressive(S, m, P) ==
  /\ m \in [S -> Nat] /\ P \in SUBSET S
  /\ \A s \in S : (\A r \in S : m[r] < m[s] => r \in P) => s \in P

LEMMA MeasureInduction ==
  ASSUME NEW S, NEW m, NEW P, Progressive(S, m, P)
  PROVE  P = S
<1>0. /\ m \in [S -> Nat] /\ P \in SUBSET S
      /\ \A s \in S : (\A r \in S : m[r] < m[s] => r \in P) => s \in P
  BY DEF Progressive
<1> DEFINE Bad == {j \in Nat : \E s \in S : m[s] = j /\ s \notin P}
<1> SUFFICES ASSUME NEW s \in S, s \notin P PROVE FALSE
  BY <1>0
<1>1. m[s] \in Bad
  BY <1>0
<1>2. PICK j \in Bad : \A l \in Bad : j <= l
  BY <1>1, LeastNat
<1>3. PICK r \in S : m[r] = j /\ r \notin P
  BY <1>2
<1>4. ASSUME NEW q \in S, m[q] < m[r] PROVE q \in P
  <2>1. m[q] \in Nat /\ j \in Nat
    BY <1>0, <1>2
  <2> QED BY <1>2, <1>3, <1>4, <2>1
<1> QED BY <1>0, <1>3, <1>4

\* Induction over the naturals.
LEMMA SetInduction ==
  ASSUME NEW P \in SUBSET Nat, 0 \in P, \A n \in P : n + 1 \in P
  PROVE  P = Nat
<1> DEFINE m == [n \in Nat |-> n]
<1>1. ASSUME NEW n \in Nat, \A k \in Nat : m[k] < m[n] => k \in P PROVE n \in P
  <2>1. CASE n = 0
    BY <2>1
  <2>2. CASE n # 0
    <3>1. n - 1 \in Nat /\ m[n - 1] < m[n] /\ n = (n - 1) + 1
      BY <2>2
    <3> QED BY <1>1, <3>1
  <2> QED BY <2>1, <2>2
<1>2. m \in [Nat -> Nat]
  OBVIOUS
<1> HIDE DEF m
<1>3. Progressive(Nat, m, P)
  BY <1>1, <1>2 DEF Progressive
<1> QED BY <1>3, MeasureInduction
-----------------------------------------------------------------------------
(* One character of a string. *)

UnicodeScalar == {v \in Nat : v <= 1114111 /\ ~(55296 <= v /\ v <= 57343)}
Word == {v \in Nat : v <= 65535}

\* Four hexadecimal digits are a 16-bit number.
LEMMA HexDigitValue == ASSUME NEW c, is_hex_digit(c) PROVE kason_hex_value(c) \in 0..15
<1>1. CASE c \in 48..57
  <2>1. kason_hex_value(c) = c - 48
    BY <1>1 DEF kason_hex_value
  <2> QED BY <1>1, <2>1
<1>2. CASE c \in 97..102
  <2>1. kason_hex_value(c) = c - 97 + 10
    BY <1>2 DEF kason_hex_value
  <2> QED BY <1>2, <2>1
<1>3. CASE c \in 65..70
  <2>1. kason_hex_value(c) = c - 65 + 10
    BY <1>3 DEF kason_hex_value
  <2> QED BY <1>3, <2>1
<1> QED BY <1>1, <1>2, <1>3 DEF is_hex_digit

LEMMA HexValue ==
  ASSUME NEW s \in Seq(Byte), NEW p \in Nat, HexAt(s, p)
  PROVE  kason_decode_hex4(s, p) \in Word
<1>1. \A k \in p..(p + 3) : kason_hex_value(s[k]) \in 0..15
  BY HexDigitValue DEF HexAt
<1>2. /\ kason_hex_value(s[p]) \in 0..15 /\ kason_hex_value(s[p + 1]) \in 0..15
      /\ kason_hex_value(s[p + 2]) \in 0..15 /\ kason_hex_value(s[p + 3]) \in 0..15
  BY <1>1
<1> DEFINE a == kason_hex_value(s[p])      b == kason_hex_value(s[p + 1])
           c == kason_hex_value(s[p + 2])  d == kason_hex_value(s[p + 3])
<1>3. kason_decode_hex4(s, p) = a * 4096 + b * 256 + c * 16 + d
  BY DEF kason_decode_hex4
<1> HIDE DEF a, b, c, d
<1>4. a \in 0..15 /\ b \in 0..15 /\ c \in 0..15 /\ d \in 0..15
  BY <1>2 DEF a, b, c, d
<1>5. a * 4096 + b * 256 + c * 16 + d \in Word
  BY <1>4, SMT DEF Word
<1> QED BY <1>3, <1>5

\* Readable(s, p, char): char is an error, or a scalar whose bytes, from p
\* on, lie in s.
Readable(s, p, char) ==
  /\ char.length \in Nat /\ char.value \in UnicodeScalar
  /\ char.length > 0 => p + char.length <= Len(s) + 1

LEMMA NoCharReadable == ASSUME NEW s, NEW p PROVE Readable(s, p, NoChar)
BY SMT DEF Readable, NoChar, UnicodeScalar, Surrogate

LEMMA CharReadable ==
  ASSUME NEW s \in Seq(Byte), NEW p \in Nat, NEW n \in Nat, NEW v \in UnicodeScalar,
         p + n <= Len(s) + 1
  PROVE  Readable(s, p, Char(n, v))
BY DEF Readable, Char

LEMMA ByteScalar == ASSUME NEW c \in 0..255 PROVE c \in UnicodeScalar
BY SMT DEF UnicodeScalar

LEMMA HighIsNotLow == ASSUME NEW v \in HighSurrogate PROVE v \notin LowSurrogate
<1>1. v \in Int /\ v <= 56319
  BY SMT DEF HighSurrogate
<1>2. v \in LowSurrogate => v >= 56320
  BY SMT DEF LowSurrogate
<1> QED BY <1>1, <1>2, SMT

LEMMA ByteBits ==
  ASSUME NEW c \in Byte
  PROVE  c % 8 \in Nat /\ c % 16 \in Nat /\ c % 32 \in Nat /\ c % 64 \in Nat
BY DEF Byte

LEMMA EscapeReadable ==
  ASSUME NEW s \in Seq(Byte), NEW p \in 1..Len(s)
  PROVE  Readable(s, p, EscapeChar(s, p))
<1>0. Len(s) \in Nat /\ p \in Nat /\ p + 1 \in Nat /\ p + 2 \in Nat /\ p + 8 \in Nat
  OBVIOUS
<1>1. ASSUME p + 1 <= Len(s), is_simple_escape(s[p + 1])
      PROVE  Readable(s, p, Char(2, SimpleEscapeValue(s[p + 1])))
  <2>1. SimpleEscapeValue(s[p + 1]) \in 0..255
    BY <1>1 DEF SimpleEscapeValue, is_simple_escape, QUOTE, BACKSLASH
  <2> HIDE DEF SimpleEscapeValue
  <2>2. p + 2 <= Len(s) + 1
    BY <1>0, <1>1
  <2> QED BY <1>0, <2>1, <2>2, ByteScalar, CharReadable
<1>2. Readable(s, p, UnicodeEscape(s, p))
  <2>1. CASE ~HexAt(s, p + 2)
    BY <2>1, NoCharReadable DEF UnicodeEscape
  <2>2. CASE HexAt(s, p + 2)
    <3> DEFINE high == kason_decode_hex4(s, p + 2)
               low  == kason_decode_hex4(s, p + 8)
    <3>1. high \in Word /\ p + 6 <= Len(s) + 1
      BY <1>0, <2>2, HexValue DEF HexAt
    <3>2. UnicodeEscape(s, p) = UnicodeChar(s, p, high)
      BY <2>2 DEF UnicodeEscape
    <3> HIDE DEF high
    <3>3. CASE /\ high \in HighSurrogate /\ p + 11 <= Len(s)
               /\ s[p + 6] = BACKSLASH /\ s[p + 7] = LETTER_U /\ HexAt(s, p + 8)
      <4>0. high \notin LowSurrogate
        BY <3>3, HighIsNotLow
      <4>1. UnicodeChar(s, p, high) = SurrogatePair(high, low)
        BY <3>3, <4>0 DEF UnicodeChar
      <4>2. low \in Word
        BY <1>0, <3>3, HexValue
      <4> HIDE DEF low
      <4>3. CASE low \in LowSurrogate
        <5> DEFINE v == 65536 + (high - 55296) * 1024 + (low - 56320)
        <5>1. v \in UnicodeScalar
          BY <3>3, <4>3, SMT DEF HighSurrogate, LowSurrogate, UnicodeScalar, Surrogate
        <5>2. SurrogatePair(high, low) = Char(12, v)
          BY <4>3, SMT DEF SurrogatePair
        <5> HIDE DEF v
        <5>3. p + 12 <= Len(s) + 1
          BY <1>0, <3>3
        <5> QED BY <1>0, <3>2, <4>1, <5>1, <5>2, <5>3, CharReadable
      <4>4. CASE low \notin LowSurrogate
        BY <3>2, <4>1, <4>4, NoCharReadable DEF SurrogatePair
      <4> QED BY <4>3, <4>4
    <3>4. CASE high \notin HighSurrogate /\ high \notin LowSurrogate
      <4>1. UnicodeChar(s, p, high) = Char(6, high)
        BY <3>4 DEF UnicodeChar
      <4>2. high \in UnicodeScalar
        BY <3>1, <3>4, SMT DEF HighSurrogate, LowSurrogate, UnicodeScalar, Surrogate, Word
      <4> QED BY <1>0, <3>1, <3>2, <4>1, <4>2, CharReadable
    <3>5. CASE UnicodeChar(s, p, high) = NoChar
      BY <3>2, <3>5, NoCharReadable
    <3> QED BY <3>3, <3>4, <3>5 DEF UnicodeChar
  <2> QED BY <2>1, <2>2
<1> QED BY <1>1, <1>2, NoCharReadable DEF EscapeChar

\* The bytes of a UTF-8 sequence make up a natural number.
LEMMA Utf8ScalarType ==
  ASSUME NEW s \in Seq(Byte), NEW p \in 1..Len(s), NEW n \in 0..3, p + n <= Len(s)
  PROVE  Utf8Scalar(s, p, n) \in Nat
<1> DEFINE S == 0..n
           m == [k \in S |-> k]
           body(f, k) == IF k = 0 THEN lead_bits(s[p], n) ELSE (f[k - 1] * 64) + (s[p + k] % 64)
           F == [f \in [S -> Nat] |-> [k \in S |-> body(f, k)]]
           scalar == CHOOSE f : f = [k \in 0..n |-> body(f, k)]
<1>1. lead_bits(s[p], n) \in Nat
  <2>0. s[p] \in Byte
    OBVIOUS
  <2>1. s[p] % 32 \in Nat /\ s[p] % 16 \in Nat /\ s[p] % 8 \in Nat
    BY <2>0, ByteBits
  <2>2. (n = 1 /\ n # 2) \/ (n = 2 /\ n # 1) \/ (n # 1 /\ n # 2)
    OBVIOUS
  <2> QED BY <2>1, <2>2 DEF lead_bits
<1>2. \A k \in 1..n : s[p + k] % 64 \in Nat
  <2> SUFFICES ASSUME NEW k \in 1..n PROVE s[p + k] % 64 \in Nat
    OBVIOUS
  <2>1. p + k \in 1..Len(s)
    OBVIOUS
  <2>2. s[p + k] \in Byte
    BY <2>1
  <2> QED BY <2>2, ByteBits
<1>3. ASSUME NEW f \in [S -> Nat], NEW k \in S PROVE body(f, k) \in Nat
  <2>1. k = 0 \/ (k - 1 \in S /\ k \in 1..n /\ k # 0)
    OBVIOUS
  <2>2. CASE k = 0
    BY <1>1, <2>2
  <2>3. CASE k - 1 \in S /\ k \in 1..n /\ k # 0
    <3>1. f[k - 1] \in Nat /\ s[p + k] % 64 \in Nat
      BY <1>2, <2>3
    <3>2. f[k - 1] * 64 + (s[p + k] % 64) \in Nat
      BY <3>1
    <3> QED BY <2>3, <3>2
  <2> QED BY <2>1, <2>2, <2>3
<1>4. F \in [[S -> Nat] -> [S -> Nat]]
  <2>1. \A f \in [S -> Nat] : \A k \in S : body(f, k) \in Nat
    BY <1>3
  <2> HIDE DEF body, S
  <2> QED BY <2>1
<1>0. m \in [S -> Nat] /\ Nat # {}
  <2>1. 0 \in Nat /\ \A k \in S : k \in Nat
    OBVIOUS
  <2> QED BY <2>1
<1>5. Descends(S, Nat, m, F)
  <2> SUFFICES ASSUME NEW f \in [S -> Nat], NEW h \in [S -> Nat], NEW k \in S,
                      \A r \in S : m[r] < m[k] => f[r] = h[r]
               PROVE  F[f][k] = F[h][k]
    BY DEF Descends
  <2>1. k # 0 => k - 1 \in S /\ m[k - 1] < m[k]
    OBVIOUS
  <2>2. body(f, k) = body(h, k)
    BY <2>1
  <2> QED BY <2>2
<1>6. Utf8Scalar(s, p, n) = scalar[n]
  BY DEF Utf8Scalar
<1>7. PICK f : Solution(S, Nat, F, f)
  <2> HIDE DEF S, m, F
  <2>1. Recursive(S, Nat, m, F)
    BY <1>0, <1>4, <1>5 DEF Recursive
  <2> QED BY <2>1, Recursion
<1>8. f = [k \in 0..n |-> body(f, k)]
  BY <1>7 DEF Solution
<1>9. scalar = [k \in 0..n |-> body(scalar, k)]
  BY <1>8
<1>10. \A k \in S : (\A r \in S : m[r] < m[k] => scalar[r] \in Nat) => scalar[k] \in Nat
  <2> SUFFICES ASSUME NEW k \in S, \A r \in S : m[r] < m[k] => scalar[r] \in Nat
               PROVE  scalar[k] \in Nat
    OBVIOUS
  <2>1. scalar[k] = body(scalar, k)
    BY <1>9
  <2> HIDE DEF scalar
  <2>2. k # 0 => k - 1 \in S /\ m[k - 1] < m[k] /\ k \in 1..n
    OBVIOUS
  <2> QED BY <1>1, <1>2, <2>1, <2>2
<1> DEFINE P == {k \in S : scalar[k] \in Nat}
<1> HIDE DEF scalar, m, S
<1>11. Progressive(S, m, P)
  BY <1>0, <1>10 DEF Progressive
<1>12. P = S
  BY <1>11, MeasureInduction
<1> QED BY <1>6, <1>12 DEF S
\* A multi-byte character is a scalar too.
LEMMA MultiByteReadable ==
  ASSUME NEW s \in Seq(Byte), NEW p \in 1..Len(s)
  PROVE  Readable(s, p, MultiByteChar(s, p))
<1> DEFINE n == continuation_count(s[p])
           v == Utf8Scalar(s, p, n)
<1>0. Len(s) \in Nat /\ p \in Nat
  OBVIOUS
<1>1. n \in 0..3
  BY DEF continuation_count
<1>2. MultiByteChar(s, p) = MultiByte(s, p, n)
  BY DEF MultiByteChar
<1> HIDE DEF n
<1>3. CASE n > 0 /\ p + n <= Len(s) /\ ~IllFormedScalar(v, utf8_minimum(n))
  <2>1. v \in Nat
    BY <1>1, <1>3, Utf8ScalarType
  <2> HIDE DEF v
  <2>2. v <= 1114111 /\ v \notin Surrogate
    BY <1>3, <2>1, SMT DEF IllFormedScalar
  <2>3. v \in UnicodeScalar
    BY <2>1, <2>2, SMT DEF UnicodeScalar, Surrogate
  <2>4. p + (n + 1) <= Len(s) + 1 /\ n + 1 \in Nat
    BY <1>0, <1>1, <1>3
  <2>5. Readable(s, p, Char(n + 1, v))
    BY <1>0, <2>3, <2>4, CharReadable
  <2> QED BY <1>2, <2>5, NoCharReadable DEF MultiByte, v
<1>4. CASE ~(n > 0 /\ p + n <= Len(s) /\ ~IllFormedScalar(v, utf8_minimum(n)))
  BY <1>2, <1>4, NoCharReadable DEF MultiByte
<1> QED BY <1>3, <1>4

LEMMA HighByte ==
  ASSUME NEW c \in 128..255 PROVE ~is_control_char(c) /\ c # QUOTE /\ c # BACKSLASH
BY DEF is_control_char, QUOTE, BACKSLASH

\* kason_string_next reads a scalar inside the slice, or refuses.
LEMMA NextReadable ==
  ASSUME NEW s \in Seq(Byte), NEW p \in 1..Len(s)
  PROVE  Readable(s, p, kason_string_next(s, p))
<1>1. Len(s) \in Nat /\ p \in Nat /\ s[p] \in Byte /\ p + 1 <= Len(s) + 1
  OBVIOUS
<1>2. Readable(s, p, Char(1, s[p]))
  BY <1>1, ByteScalar, CharReadable DEF Byte
<1>3. CASE s[p] = BACKSLASH
  <2>1. s[p] \notin 128..255 /\ ~is_control_char(s[p]) /\ s[p] # QUOTE
    BY <1>3 DEF is_control_char, QUOTE, BACKSLASH
  <2> QED BY <1>3, <2>1, EscapeReadable DEF kason_string_next
<1>4. CASE s[p] \in 128..255
  <2>1. ~is_control_char(s[p]) /\ s[p] # QUOTE /\ s[p] # BACKSLASH
    BY <1>4, HighByte
  <2> QED BY <1>4, <2>1, MultiByteReadable DEF kason_string_next
<1>5. CASE s[p] # BACKSLASH /\ s[p] \notin 128..255
  BY <1>2, <1>5, NoCharReadable DEF kason_string_next
<1> QED BY <1>3, <1>4, <1>5

\* The code units of a scalar.
LEMMA EncodeType ==
  ASSUME NEW v \in UnicodeScalar
  PROVE  kason_utf8_encode(v) \in Seq(Byte) /\ Len(kason_utf8_encode(v)) \in 1..4
<1> DEFINE tail(n) == 128 + ((v \div n) % 64)
<1>1. v \in Nat /\ v <= 1114111
  BY SMT DEF UnicodeScalar
<1>2. \A x \in Nat : 128 + (x % 64) \in Byte
  BY DEF Byte
<1>3. v \div 1 \in Nat /\ v \div 64 \in Nat /\ v \div 4096 \in Nat /\ v \div 262144 \in Nat
  BY <1>1, SMT
<1>4. tail(1) \in Byte /\ tail(64) \in Byte /\ tail(4096) \in Byte
  BY <1>2, <1>3
<1> HIDE DEF tail
<1>5. CASE v <= 127
  <2>1. v \in Byte
    BY <1>1, <1>5 DEF Byte
  <2>2. kason_utf8_encode(v) = <<v>>
    BY <1>5, SMT DEF kason_utf8_encode
  <2> QED BY <2>1, <2>2
<1>6. CASE v > 127 /\ v <= 2047
  <2>1. 192 + (v \div 64) \in Byte
    BY <1>1, <1>6 DEF Byte
  <2>2. kason_utf8_encode(v) = <<192 + (v \div 64), tail(1)>>
    BY <1>1, <1>6, SMT DEF kason_utf8_encode, tail
  <2> QED BY <1>4, <2>1, <2>2
<1>7. CASE v > 2047 /\ v <= 65535
  <2>1. 224 + (v \div 4096) \in Byte
    BY <1>1, <1>7, SMT DEF Byte
  <2>2. kason_utf8_encode(v) = <<224 + (v \div 4096), tail(64), tail(1)>>
    BY <1>1, <1>7, SMT DEF kason_utf8_encode, tail
  <2> QED BY <1>4, <2>1, <2>2, SMT
<1>8. CASE v > 65535
  <2>1. 240 + (v \div 262144) \in Byte
    BY <1>1, <1>8, SMT DEF Byte
  <2>2. kason_utf8_encode(v) = <<240 + (v \div 262144), tail(4096), tail(64), tail(1)>>
    BY <1>1, <1>8, SMT DEF kason_utf8_encode, tail
  <2> QED BY <1>4, <2>1, <2>2, SMT
<1> QED BY <1>1, <1>5, <1>6, <1>7, <1>8, SMT
-----------------------------------------------------------------------------
(* Recursion and induction over the positions of a slice, from its end. *)

Forward(n, T, F) ==
  /\ F \in [[1..(n + 1) -> T] -> [1..(n + 1) -> T]] /\ T # {}
  /\ \A g, h \in [1..(n + 1) -> T] : \A p \in 1..(n + 1) :
       (\A r \in 1..(n + 1) : r > p => g[r] = h[r]) => F[g][p] = F[h][p]

LEMMA ForwardRecursion ==
  ASSUME NEW n \in Nat, NEW T, NEW F, Forward(n, T, F)
  PROVE  \E f : Solution(1..(n + 1), T, F, f)
<1> DEFINE S == 1..(n + 1)
           m == [p \in S |-> n + 1 - p]
<1>1. m \in [S -> Nat]
  OBVIOUS
<1>2. \A p, r \in S : m[r] < m[p] <=> r > p
  OBVIOUS
<1>3. F \in [[S -> T] -> [S -> T]] /\ T # {}
  BY DEF Forward
<1>4. \A g, h \in [S -> T] : \A p \in S :
        (\A r \in S : r > p => g[r] = h[r]) => F[g][p] = F[h][p]
  BY DEF Forward
<1> HIDE DEF S, m
<1>5. Descends(S, T, m, F)
  BY <1>2, <1>4 DEF Descends
<1>6. Recursive(S, T, m, F)
  BY <1>1, <1>3, <1>5 DEF Recursive
<1> QED BY <1>6, Recursion DEF S

Backward(n, P) ==
  /\ P \in SUBSET (1..(n + 1))
  /\ \A p \in 1..(n + 1) : (\A r \in 1..(n + 1) : r > p => r \in P) => p \in P

LEMMA BackwardInduction ==
  ASSUME NEW n \in Nat, NEW P, Backward(n, P)
  PROVE  P = 1..(n + 1)
<1> DEFINE S == 1..(n + 1)
           m == [p \in S |-> n + 1 - p]
<1>1. m \in [S -> Nat]
  OBVIOUS
<1>2. \A p, r \in S : m[r] < m[p] <=> r > p
  OBVIOUS
<1>3. P \in SUBSET S /\ \A p \in S : (\A r \in S : r > p => r \in P) => p \in P
  BY DEF Backward
<1> HIDE DEF S, m
<1>4. Progressive(S, m, P)
  BY <1>1, <1>2, <1>3 DEF Progressive
<1> QED BY <1>4, MeasureInduction DEF S

\* Where the next character of a slice leads.
LEMMA NextStep ==
  ASSUME NEW s \in Seq(Byte), NEW p \in 1..Len(s)
  PROVE  /\ Len(s) \in Nat /\ p \in 1..(Len(s) + 1)
         /\ kason_string_next(s, p).length \in Nat
         /\ kason_string_next(s, p).value \in UnicodeScalar
         /\ kason_string_next(s, p).length > 0 =>
              /\ p + kason_string_next(s, p).length \in 1..(Len(s) + 1)
              /\ p + kason_string_next(s, p).length > p
<1> DEFINE char == kason_string_next(s, p)
<1>1. Readable(s, p, char)
  BY NextReadable
<1> HIDE DEF char
<1>2. /\ char.length \in Nat /\ char.value \in UnicodeScalar
      /\ char.length > 0 => p + char.length <= Len(s) + 1
  BY <1>1 DEF Readable
<1>3. Len(s) \in Nat /\ p \in 1..(Len(s) + 1)
  OBVIOUS
<1>4. char.length > 0 => p + char.length \in 1..(Len(s) + 1) /\ p + char.length > p
  BY <1>2, <1>3
<1> QED BY <1>2, <1>3, <1>4 DEF char

\* A string is valid from p on when a character can be read there and it is
\* valid behind it.
Validity(s, valid) ==
  /\ valid \in [1..(Len(s) + 1) -> BOOLEAN] /\ valid[Len(s) + 1]
  /\ \A p \in 1..Len(s) :
       valid[p] <=> /\ kason_string_next(s, p).length > 0
                    /\ valid[p + kason_string_next(s, p).length]

LEMMA ValidFrom ==
  ASSUME NEW s \in Seq(Byte)
  PROVE  \E valid : Validity(s, valid) /\ (kason_string_is_valid(s) <=> valid[1])
<1> DEFINE n == Len(s)
           S == 1..(n + 1)
           body(f, p) == \/ p = Len(s) + 1
                         \/ /\ p <= Len(s)
                            /\ \E k \in {kason_string_next(s, p).length} : k > 0 /\ f[p + k]
           F == [f \in [S -> BOOLEAN] |-> [p \in S |-> body(f, p)]]
           valid == CHOOSE f : f = [p \in 1..(Len(s) + 1) |-> body(f, p)]
<1>1. n \in Nat
  OBVIOUS
<1>2. kason_string_is_valid(s) = valid[1]
  BY DEF kason_string_is_valid
<1>3. Forward(n, BOOLEAN, F)
  <2>1. F \in [[S -> BOOLEAN] -> [S -> BOOLEAN]] /\ BOOLEAN # {}
    OBVIOUS
  <2>2. ASSUME NEW g \in [S -> BOOLEAN], NEW h \in [S -> BOOLEAN], NEW p \in S,
               \A r \in S : r > p => g[r] = h[r]
        PROVE  F[g][p] = F[h][p]
    <3>1. CASE p = n + 1
      BY <3>1
    <3>2. CASE p # n + 1
      <4>1. p \in 1..n
        BY <1>1, <3>2
      <4>2. kason_string_next(s, p).length > 0 =>
              g[p + kason_string_next(s, p).length] = h[p + kason_string_next(s, p).length]
        BY <2>2, <4>1, NextStep
      <4>3. body(g, p) = body(h, p)
        BY <4>2
      <4> QED BY <2>2, <4>3
    <3> QED BY <3>1, <3>2
  <2> HIDE DEF F
  <2> QED BY <2>1, <2>2 DEF Forward
<1>4. PICK f : Solution(S, BOOLEAN, F, f)
  <2> HIDE DEF F, n
  <2> QED BY <1>1, <1>3, ForwardRecursion
<1>5. f = [p \in 1..(Len(s) + 1) |-> body(f, p)]
  BY <1>4 DEF Solution
<1>6. valid = [p \in 1..(Len(s) + 1) |-> body(valid, p)]
  BY <1>5
<1> HIDE DEF valid
<1>7. valid \in [S -> BOOLEAN] /\ valid[Len(s) + 1]
  BY <1>1, <1>6
<1>8. ASSUME NEW p \in 1..Len(s)
      PROVE  valid[p] <=> /\ kason_string_next(s, p).length > 0
                          /\ valid[p + kason_string_next(s, p).length]
  <2>1. p \in 1..(Len(s) + 1) /\ p # Len(s) + 1 /\ p <= Len(s)
    BY <1>1
  <2>2. valid[p] = body(valid, p)
    BY <1>6, <2>1
  <2>3. body(valid, p) <=> /\ kason_string_next(s, p).length > 0
                           /\ valid[p + kason_string_next(s, p).length]
    BY <2>1, Zenon
  <2> HIDE DEF body
  <2> QED BY <2>2, <2>3
<1>9. Validity(s, valid)
  BY <1>7, <1>8 DEF Validity
<1> QED BY <1>2, <1>9
\* The characters of a slice from each of its positions on.
Spelling(s, chars) ==
  /\ chars \in [1..(Len(s) + 1) -> Seq(UnicodeScalar)] /\ chars[Len(s) + 1] = << >>
  /\ \A p \in 1..Len(s) :
       chars[p] = IF kason_string_next(s, p).length = 0 THEN << >>
                  ELSE <<kason_string_next(s, p).value>>
                         \o chars[p + kason_string_next(s, p).length]

LEMMA CharactersFrom ==
  ASSUME NEW s \in Seq(Byte)
  PROVE  \E chars : Spelling(s, chars) /\ Characters(s) = chars[1]
<1> DEFINE n == Len(s)
           S == 1..(n + 1)
           T == Seq(UnicodeScalar)
           body(f, p) == IF p > Len(s) \/ kason_string_next(s, p).length = 0 THEN << >>
                         ELSE <<kason_string_next(s, p).value>>
                                \o f[p + kason_string_next(s, p).length]
           F == [f \in [S -> T] |-> [p \in S |-> body(f, p)]]
           chars == CHOOSE f : f = [p \in 1..(Len(s) + 1) |-> body(f, p)]
<1>1. n \in Nat
  OBVIOUS
<1>2. Characters(s) = chars[1]
  BY DEF Characters
<1>3. ASSUME NEW p \in S, NEW f, \A r \in S : r > p => f[r] \in T PROVE body(f, p) \in T
  <2>1. CASE p > Len(s) \/ kason_string_next(s, p).length = 0
    <3>1. body(f, p) = << >>
      BY <2>1
    <3> HIDE DEF body
    <3> QED BY <3>1
  <2>2. CASE ~(p > Len(s) \/ kason_string_next(s, p).length = 0)
    <3>1. p \in 1..Len(s) /\ kason_string_next(s, p).length # 0
      BY <1>1, <2>2
    <3>2. /\ kason_string_next(s, p).value \in UnicodeScalar
          /\ p + kason_string_next(s, p).length \in S
          /\ p + kason_string_next(s, p).length > p
      BY <3>1, NextStep
    <3>3. f[p + kason_string_next(s, p).length] \in T
      BY <1>3, <3>2
    <3>4. body(f, p) = <<kason_string_next(s, p).value>> \o f[p + kason_string_next(s, p).length]
      BY <2>2
    <3>5. <<kason_string_next(s, p).value>> \in T
      BY <3>2
    <3> HIDE DEF body, S
    <3> QED BY <3>3, <3>4, <3>5
  <2> QED BY <2>1, <2>2
<1>4. Forward(n, T, F)
  <2>1. F \in [[S -> T] -> [S -> T]]
    <3>1. \A f \in [S -> T] : \A p \in S : body(f, p) \in T
      BY <1>3
    <3> HIDE DEF body, S, T
    <3> QED BY <3>1
  <2>2. T # {}
    <3>1. << >> \in T
      OBVIOUS
    <3> HIDE DEF T
    <3> QED BY <3>1
  <2>3. ASSUME NEW g \in [S -> T], NEW h \in [S -> T], NEW p \in S,
               \A r \in S : r > p => g[r] = h[r]
        PROVE  F[g][p] = F[h][p]
    <3>1. CASE p > Len(s) \/ kason_string_next(s, p).length = 0
      BY <3>1
    <3>2. CASE ~(p > Len(s) \/ kason_string_next(s, p).length = 0)
      <4>1. p \in 1..n /\ kason_string_next(s, p).length # 0
        BY <1>1, <3>2
      <4>2. g[p + kason_string_next(s, p).length] = h[p + kason_string_next(s, p).length]
        BY <2>3, <4>1, NextStep
      <4>3. body(g, p) = body(h, p)
        BY <4>2
      <4> HIDE DEF body
      <4> QED BY <2>3, <4>3
    <3> QED BY <3>1, <3>2
  <2> HIDE DEF F, T, n
  <2> QED BY <2>1, <2>2, <2>3 DEF Forward
<1>5. PICK f : Solution(S, T, F, f)
  <2> HIDE DEF F, n, T
  <2> QED BY <1>1, <1>4, ForwardRecursion
<1>6. f = [p \in 1..(Len(s) + 1) |-> body(f, p)]
  BY <1>5 DEF Solution
<1>7. chars = [p \in 1..(Len(s) + 1) |-> body(chars, p)]
  BY <1>6
<1> HIDE DEF chars, T, F
<1>8. chars \in [S -> T]
  <2> DEFINE P == {p \in S : chars[p] \in T}
  <2>1. ASSUME NEW p \in S, \A r \in S : r > p => r \in P PROVE p \in P
    <3>1. chars[p] = body(chars, p)
      BY <1>7
    <3>2. body(chars, p) \in T
      BY <1>3, <2>1
    <3> HIDE DEF body
    <3> QED BY <3>1, <3>2
  <2>2. Backward(n, P)
    BY <2>1 DEF Backward
  <2> HIDE DEF P, n
  <2>3. P = 1..(n + 1)
    BY <1>1, <2>2, BackwardInduction
  <2> QED BY <1>7, <2>3 DEF P, n
<1>9. chars[Len(s) + 1] = << >>
  BY <1>1, <1>7
<1>10. ASSUME NEW p \in 1..Len(s)
       PROVE  chars[p] = IF kason_string_next(s, p).length = 0 THEN << >>
                         ELSE <<kason_string_next(s, p).value>>
                                \o chars[p + kason_string_next(s, p).length]
  <2>1. p \in 1..(Len(s) + 1) /\ ~(p > Len(s))
    BY <1>1
  <2>2. chars[p] = body(chars, p)
    BY <1>7, <2>1
  <2> QED BY <2>1, <2>2
<1>11. Spelling(s, chars)
  BY <1>8, <1>9, <1>10 DEF Spelling, T
<1> QED BY <1>2, <1>11

\* The code units of a scalar in UTF-16.
LEMMA Utf16Type == ASSUME NEW v \in UnicodeScalar PROVE utf16_units(v) \in Seq(Nat)
<1>1. v \in Nat
  BY SMT DEF UnicodeScalar
<1>2. CASE v <= 65535
  BY <1>1, <1>2, SMT DEF utf16_units
<1>3. CASE v > 65535
  <2>1. 55296 + ((v - 65536) \div 1024) \in Nat /\ 56320 + ((v - 65536) % 1024) \in Nat
    BY <1>1, <1>3, SMT
  <2>2. utf16_units(v) = <<55296 + ((v - 65536) \div 1024), 56320 + ((v - 65536) % 1024)>>
    BY <1>1, <1>3, SMT DEF utf16_units
  <2> QED BY <2>1, <2>2, SMT
<1> QED BY <1>1, <1>2, <1>3, SMT
=============================================================================
