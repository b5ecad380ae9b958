------------------------- MODULE KasonStringsProofs -------------------------
(***************************************************************************)
(* Theorems about KasonStrings, for every set of slices and every set of   *)
(* buffer sizes: what a copy stores and returns.                           *)
(***************************************************************************)
EXTENDS KasonStrings, KasonTextProofs

(* The units of a sequence of characters.                                  *)

LEMMA UnitsType ==
  ASSUME NEW f \in Forms, NEW v \in UnicodeScalar
  PROVE  Units(f, v) \in Seq(Nat)
<1>1. kason_utf8_encode(v) \in Seq(Nat)
  <2>1. kason_utf8_encode(v) \in Seq(Byte)
    BY EncodeType
  <2>2. Byte \subseteq Nat
    BY DEF Byte
  <2> QED BY <2>1, <2>2, SeqMonotonic
<1>2. utf16_units(v) \in Seq(Nat)
  BY Utf16Type
<1>3. v \in Nat
  BY DEF UnicodeScalar
<1>4. <<v>> \in Seq(Nat)
  BY <1>3
<1> HIDE DEF UnicodeScalar
<1>5. CASE f = "UTF8"
  BY <1>1, <1>5 DEF Units
<1>6. CASE f = "UTF16"
  BY <1>2, <1>6 DEF Units
<1>7. CASE f = "UTF32"
  BY <1>4, <1>7 DEF Units
<1> QED BY <1>5, <1>6, <1>7 DEF Forms

\* units[n] are the units of the first n characters of all, in encoding f.
Encoding(f, all, units) ==
  /\ units \in [0..Len(all) -> Seq(Nat)] /\ units[0] = << >>
  /\ \A k \in 1..Len(all) : units[k] = units[k - 1] \o Units(f, all[k])

LEMMA UnitsFrom ==
  ASSUME NEW f \in Forms, NEW all \in Seq(UnicodeScalar)
  PROVE  \E units : /\ Encoding(f, all, units)
                    /\ \A n \in 0..Len(all) : UnitsOf(f, all, n) = units[n]
<1> DEFINE S == 0..Len(all)
           T == Seq(Nat)
           m == [k \in S |-> k]
           body(g, k) == IF k = 0 THEN << >> ELSE g[k - 1] \o Units(f, all[k])
           F == [g \in [S -> T] |-> [k \in S |-> body(g, k)]]
           units == CHOOSE g : g = [k \in 0..Len(all) |-> body(g, k)]
<1>1. Len(all) \in Nat /\ m \in [S -> Nat] /\ T # {} /\ << >> \in T
  <2>1. Len(all) \in Nat
    OBVIOUS
  <2>2. m \in [S -> Nat]
    OBVIOUS
  <2>3. << >> \in T
    OBVIOUS
  <2>4. T # {}
    BY <2>3
  <2> QED BY <2>1, <2>2, <2>3, <2>4
<1>2. \A k \in S : k # 0 => k - 1 \in S /\ k \in 1..Len(all) /\ m[k - 1] < m[k]
  BY <1>1
<1>3. \A k \in 1..Len(all) : Units(f, all[k]) \in T
  BY UnitsType
<1>4. \A g \in [S -> T], k \in S : body(g, k) \in T
  <2> SUFFICES ASSUME NEW g \in [S -> T], NEW k \in S PROVE body(g, k) \in T
    OBVIOUS
  <2>1. CASE k = 0
    BY <1>1, <2>1
  <2>2. CASE k # 0
    <3>1. g[k - 1] \in T /\ Units(f, all[k]) \in T
      BY <1>2, <1>3, <2>2
    <3> QED BY <2>2, <3>1
  <2> QED BY <2>1, <2>2
<1>5. F \in [[S -> T] -> [S -> T]]
  BY <1>4
<1>6. ASSUME NEW g \in [S -> T], NEW h \in [S -> T], NEW k \in S,
             \A r \in S : m[r] < m[k] => g[r] = h[r]
      PROVE  F[g][k] = F[h][k]
  <2>1. body(g, k) = body(h, k)
    BY <1>2, <1>6
  <2>2. F[g][k] = body(g, k) /\ F[h][k] = body(h, k)
    OBVIOUS
  <2> QED BY <2>1, <2>2
<1>7. \A n : UnitsOf(f, all, n) = units[n]
  BY DEF UnitsOf
<1>8. PICK g : Solution(S, T, F, g)
  <2> HIDE DEF S, T, m, F
  <2>1. Descends(S, T, m, F)
    BY <1>6 DEF Descends
  <2>2. Recursive(S, T, m, F)
    BY <1>1, <1>5, <2>1 DEF Recursive
  <2> QED BY <2>2, Recursion
<1>9. g \in [S -> T] /\ \A k \in S : g[k] = body(g, k)
  BY <1>8 DEF Solution
<1>10. g = [k \in 0..Len(all) |-> body(g, k)]
  BY <1>9
<1>11. units = [k \in 0..Len(all) |-> body(units, k)]
  BY <1>10
<1> HIDE DEF units
<1>17. \A k \in S : units[k] = body(units, k)
  BY <1>11
<1>18. units[0] = << >>
  BY <1>1, <1>17
<1>19. \A k \in 1..Len(all) : units[k] = units[k - 1] \o Units(f, all[k])
  <2> SUFFICES ASSUME NEW k \in 1..Len(all)
               PROVE  units[k] = units[k - 1] \o Units(f, all[k])
    OBVIOUS
  <2>1. k \in S /\ k # 0
    BY <1>1
  <2>2. units[k] = body(units, k)
    BY <1>17, <2>1
  <2> QED BY <2>1, <2>2
<1>12. \A k \in S : (\A r \in S : m[r] < m[k] => units[r] \in T) => units[k] \in T
  <2> SUFFICES ASSUME NEW k \in S, \A r \in S : m[r] < m[k] => units[r] \in T
               PROVE  units[k] \in T
    OBVIOUS
  <2>1. CASE k = 0
    BY <1>1, <1>18, <2>1
  <2>2. CASE k # 0
    <3>1. k \in 1..Len(all) /\ units[k - 1] \in T /\ Units(f, all[k]) \in T
      BY <1>2, <1>3, <2>2
    <3>2. units[k] = units[k - 1] \o Units(f, all[k])
      BY <1>19, <3>1
    <3> HIDE DEF S, m
    <3> QED BY <3>1, <3>2
  <2> QED BY <2>1, <2>2
<1>13. \A k \in S : units[k] \in T
  <2> DEFINE P == {k \in S : units[k] \in T}
  <2>1. \A k \in S : (\A r \in S : m[r] < m[k] => r \in P) => k \in P
    BY <1>12
  <2>2. Progressive(S, m, P)
    BY <1>1, <2>1 DEF Progressive
  <2>3. P = S
    BY <2>2, MeasureInduction
  <2> QED BY <2>3
<1>14. units \in [S -> T]
  BY <1>11, <1>13
<1> QED BY <1>7, <1>14, <1>18, <1>19 DEF Encoding
-----------------------------------------------------------------------------
(* The copy.                                                               *)

Types ==
  /\ text \in Seq(Byte) /\ form \in Forms /\ size \in Int
  /\ ptr \in 1..(Len(text) + 1) /\ buffer \in Seq(Nat) /\ written \in Nat
  /\ full \in BOOLEAN /\ result \in Int

\* The k characters before ptr have been read, of all the characters of the
\* slice up to a malformed one; the rest is valid just when the slice is.
Reads(chars, valid, k) ==
  /\ Spelling(text, chars) /\ Characters(text) = chars[1]
  /\ Validity(text, valid) /\ (kason_string_is_valid(text) <=> valid[1])
  /\ k \in 0..Len(chars[1])
  /\ chars[ptr] = SubSeq(chars[1], k + 1, Len(chars[1]))
  /\ valid[ptr] <=> valid[1]

\* What was stored or counted of these k characters.
Counted(all, k) == size = NULL => written = Len(UnitsOf(form, all, k))
Stored(all, k) ==
  size # NULL =>
    /\ written = Len(buffer) /\ (size >= 0 => written <= size)
    /\ ~full => buffer = UnitsOf(form, all, k)
    /\ full => \E n \in 0..(k - 1) :
                 buffer = UnitsOf(form, all, n) /\ Len(UnitsOf(form, all, n + 1)) > size

\* The result, when there is one.
Answered(valid) ==
  result # NULL =>
    \/ result = -1 /\ (size = NULL \/ size >= 0 => ~valid[1])
    \/ result = written /\ ptr = Len(text) + 1 /\ (size = NULL \/ size >= 0)

IInv ==
  /\ Types
  /\ \E chars, valid : \E k \in Nat :
       /\ Reads(chars, valid, k) /\ Counted(chars[1], k) /\ Stored(chars[1], k)
       /\ Answered(valid)
LEMMA TailOfRest ==
  ASSUME NEW X, NEW all \in Seq(X), NEW k \in 0..Len(all), NEW v \in X, NEW rest \in Seq(X),
         SubSeq(all, k + 1, Len(all)) = <<v>> \o rest
  PROVE  /\ k + 1 \in 1..Len(all) /\ all[k + 1] = v
         /\ rest = SubSeq(all, k + 2, Len(all))
<1> DEFINE s == SubSeq(all, k + 1, Len(all))
<1>1. Len(all) \in Nat /\ k \in Nat /\ k <= Len(all)
  OBVIOUS
<1>2. /\ s \in Seq(X) /\ Len(s) = Len(all) - k
      /\ \A i \in 1..(Len(all) - k) : s[i] = all[k + i]
  OBVIOUS
<1>3. /\ Len(<<v>> \o rest) = 1 + Len(rest) /\ (<<v>> \o rest)[1] = v
      /\ Len(rest) \in Nat /\ \A i \in 1..Len(rest) : (<<v>> \o rest)[i + 1] = rest[i]
  OBVIOUS
<1>4. Len(rest) = Len(all) - k - 1 /\ s[1] = v
  BY <1>1, <1>2, <1>3
<1>5. k + 1 \in 1..Len(all) /\ all[k + 1] = v
  BY <1>1, <1>2, <1>3, <1>4
<1> DEFINE t == SubSeq(all, k + 2, Len(all))
<1>6. /\ t \in Seq(X) /\ Len(t) = Len(all) - k - 1
      /\ \A i \in 1..(Len(all) - k - 1) : t[i] = all[k + 1 + i]
  BY <1>1, <1>5
<1>7. \A i \in 1..Len(rest) : rest[i] = t[i]
  <2> SUFFICES ASSUME NEW i \in 1..Len(rest) PROVE rest[i] = t[i]
    OBVIOUS
  <2>1. rest[i] = s[i + 1]
    BY <1>3
  <2>2. s[i + 1] = all[k + (i + 1)]
    BY <1>1, <1>2, <1>3, <1>4
  <2>3. t[i] = all[k + 1 + i]
    BY <1>4, <1>6
  <2>4. k + (i + 1) = k + 1 + i
    BY <1>1
  <2> QED BY <2>1, <2>2, <2>3, <2>4
<1>8. rest = t
  <2> HIDE DEF t
  <2> QED BY <1>4, <1>6, <1>7, SeqEqual
<1> QED BY <1>5, <1>8

\* One more character encoded.
LEMMA UnitsStep ==
  ASSUME NEW f \in Forms, NEW all \in Seq(UnicodeScalar), NEW k \in Nat, k + 1 \in 1..Len(all)
  PROVE  /\ UnitsOf(f, all, k + 1) = UnitsOf(f, all, k) \o Units(f, all[k + 1])
         /\ UnitsOf(f, all, k) \in Seq(Nat) /\ Units(f, all[k + 1]) \in Seq(Nat)
<1>1. PICK units : /\ Encoding(f, all, units)
                   /\ \A n \in 0..Len(all) : UnitsOf(f, all, n) = units[n]
  BY UnitsFrom
<1>2. k \in 0..Len(all) /\ k + 1 \in 0..Len(all) /\ (k + 1) - 1 = k
  OBVIOUS
<1>3. all[k + 1] \in UnicodeScalar
  BY ElementOfSeq
<1>4. /\ units[k] \in Seq(Nat)
      /\ units[k + 1] = units[(k + 1) - 1] \o Units(f, all[k + 1])
  BY <1>1, <1>2 DEF Encoding
<1> QED BY <1>1, <1>2, <1>3, <1>4, UnitsType
LEMMA NoUnits ==
  ASSUME NEW f \in Forms, NEW all \in Seq(UnicodeScalar)
  PROVE  UnitsOf(f, all, 0) = << >>
<1>1. PICK units : /\ Encoding(f, all, units)
                   /\ \A n \in 0..Len(all) : UnitsOf(f, all, n) = units[n]
  BY UnitsFrom
<1>2. 0 \in 0..Len(all)
  OBVIOUS
<1> QED BY <1>1, <1>2 DEF Encoding

LEMMA InitInv == Init => IInv
<1> SUFFICES ASSUME Init PROVE IInv
  OBVIOUS
<1>1. text \in Seq(Byte) /\ size \in Int /\ form \in Forms
  BY SlicesAssumption, SizesAssumption DEF Init
<1>2. ptr = 1 /\ buffer = << >> /\ written = 0 /\ full = FALSE /\ result = NULL
  BY DEF Init
<1>3. Len(text) \in Nat
  BY <1>1
<1>4. Types
  <2>1. full \in BOOLEAN
    BY <1>2
  <2>2. ptr \in 1..(Len(text) + 1) /\ buffer \in Seq(Nat) /\ written \in Nat /\ result \in Int
    BY <1>2, <1>3 DEF NULL
  <2> QED BY <1>1, <2>1, <2>2 DEF Types
<1>5. PICK chars : Spelling(text, chars) /\ Characters(text) = chars[1]
  BY <1>1, CharactersFrom
<1>6. PICK valid : Validity(text, valid) /\ (kason_string_is_valid(text) <=> valid[1])
  BY <1>1, ValidFrom
<1>7. chars[1] \in Seq(UnicodeScalar)
  BY <1>3, <1>5 DEF Spelling
<1>8. Reads(chars, valid, 0)
  <2>1. chars[1] = SubSeq(chars[1], 0 + 1, Len(chars[1])) /\ 0 \in 0..Len(chars[1])
    BY <1>7
  <2> QED BY <1>2, <1>5, <1>6, <2>1 DEF Reads
<1>9. UnitsOf(form, chars[1], 0) = << >>
  BY <1>1, <1>7, NoUnits
<1>10. Counted(chars[1], 0) /\ Stored(chars[1], 0)
  BY <1>1, <1>2, <1>9 DEF Counted, Stored
<1>11. Answered(valid)
  BY <1>2 DEF Answered
<1> QED BY <1>4, <1>8, <1>10, <1>11 DEF IInv

\* A character is read.
LEMMA PutInv == IInv /\ Reading /\ Put(kason_string_next(text, ptr)) => IInv'
<1> SUFFICES ASSUME IInv, Reading, Put(kason_string_next(text, ptr)) PROVE IInv'
  OBVIOUS
<1> DEFINE char == kason_string_next(text, ptr)
           units == Units(form, char.value)
<1>0. Types
  BY DEF IInv
<1>1. text \in Seq(Byte) /\ form \in Forms /\ size \in Int /\ ptr \in 1..Len(text)
      /\ buffer \in Seq(Nat) /\ written \in Nat /\ full \in BOOLEAN /\ result = NULL
  BY <1>0 DEF Types, Reading
<1>2. PICK chars, valid : \E k \in Nat :
        Reads(chars, valid, k) /\ Counted(chars[1], k) /\ Stored(chars[1], k)
  BY DEF IInv
<1>3. PICK k \in Nat : Reads(chars, valid, k) /\ Counted(chars[1], k) /\ Stored(chars[1], k)
  BY <1>2
<1> DEFINE all == chars[1]
<1>4. /\ char.length \in Nat /\ char.value \in UnicodeScalar /\ char.length > 0
      /\ ptr + char.length \in 1..(Len(text) + 1)
  BY <1>1, NextStep DEF Put
<1>5. /\ ptr' = ptr + char.length /\ text' = text /\ form' = form /\ size' = size
      /\ result' = result /\ (Count(units) \/ Store(units) \/ Skip(units))
  BY DEF Put
<1>6. /\ all \in Seq(UnicodeScalar) /\ chars[ptr + char.length] \in Seq(UnicodeScalar)
      /\ chars[ptr] = <<char.value>> \o chars[ptr + char.length]
  <2>1. Spelling(text, chars) /\ 1 \in 1..(Len(text) + 1)
    BY <1>1, <1>3 DEF Reads
  <2>2. char.length # 0
    BY <1>4
  <2> HIDE DEF char
  <2>3. all \in Seq(UnicodeScalar) /\ chars[ptr + char.length] \in Seq(UnicodeScalar)
    BY <1>4, <2>1 DEF Spelling
  <2>4. chars[ptr] = <<char.value>> \o chars[ptr + char.length]
    BY <1>1, <2>1, <2>2 DEF Spelling, char
  <2> QED BY <2>3, <2>4
<1>7. k \in 0..Len(all) /\ chars[ptr] = SubSeq(all, k + 1, Len(all))
  BY <1>3 DEF Reads
<1> HIDE DEF char, all
<1>8. /\ k + 1 \in 1..Len(all) /\ all[k + 1] = char.value
      /\ chars[ptr + char.length] = SubSeq(all, k + 2, Len(all))
  BY <1>4, <1>6, <1>7, TailOfRest
<1>9. valid[ptr + char.length] <=> valid[1]
  BY <1>1, <1>3, <1>4 DEF Reads, Validity, char
<1>10. Reads(chars, valid, k + 1)'
  <2>1. k + 1 \in 0..Len(all) /\ (k + 1) + 1 = k + 2
    BY <1>8
  <2>2. /\ Spelling(text, chars)' /\ (Characters(text) = chars[1])'
        /\ Validity(text, valid)' /\ (kason_string_is_valid(text) <=> valid[1])'
    BY <1>3, <1>5 DEF Reads
  <2>3. (chars[ptr] = SubSeq(chars[1], (k + 1) + 1, Len(chars[1])))'
    BY <1>5, <1>8, <2>1 DEF all
  <2>4. (valid[ptr] <=> valid[1])'
    BY <1>5, <1>9
  <2> QED BY <2>1, <2>2, <2>3, <2>4 DEF Reads, all
<1>11. /\ UnitsOf(form, all, k + 1) = UnitsOf(form, all, k) \o units
       /\ UnitsOf(form, all, k) \in Seq(Nat) /\ units \in Seq(Nat)
  BY <1>1, <1>6, <1>8, UnitsStep
<1> HIDE DEF units
<1>12. Counted(all, k) /\ Stored(all, k)
  BY <1>3 DEF all
<1>13. ASSUME Count(units)
       PROVE  /\ Counted(all, k + 1)' /\ Stored(all, k + 1)'
              /\ written' \in Nat /\ buffer' \in Seq(Nat) /\ full' \in BOOLEAN
  <2>1. size = NULL /\ written' = written + Len(units) /\ UNCHANGED <<buffer, full>>
    BY <1>13 DEF Count
  <2>2. written' = Len(UnitsOf(form, all, k + 1))
    BY <1>11, <1>12, <2>1 DEF Counted
  <2>3. Counted(all, k + 1)' /\ Stored(all, k + 1)'
    BY <1>5, <2>1, <2>2 DEF Counted, Stored
  <2>4. written' \in Nat /\ buffer' \in Seq(Nat) /\ full' \in BOOLEAN
    BY <1>1, <1>11, <2>1
  <2> QED BY <2>3, <2>4
<1>14. ASSUME Store(units)
       PROVE  /\ Counted(all, k + 1)' /\ Stored(all, k + 1)'
              /\ written' \in Nat /\ buffer' \in Seq(Nat) /\ full' \in BOOLEAN
  <2>1. /\ size # NULL /\ ~full /\ Len(units) <= size - written
        /\ buffer' = buffer \o units /\ written' = written + Len(units) /\ full' = full
    BY <1>14 DEF Store, Fits
  <2>2. written = Len(buffer) /\ buffer = UnitsOf(form, all, k)
    BY <1>12, <2>1 DEF Stored
  <2>3. buffer' = UnitsOf(form, all, k + 1)
    BY <1>11, <2>1, <2>2
  <2>4. /\ buffer' \in Seq(Nat) /\ Len(buffer') = Len(buffer) + Len(units)
        /\ Len(units) \in Nat /\ written' \in Nat /\ full' \in BOOLEAN
    BY <1>1, <1>11, <2>1
  <2>5. written' = Len(buffer') /\ written' <= size
    BY <1>1, <2>1, <2>2, <2>4
  <2>6. Counted(all, k + 1)' /\ Stored(all, k + 1)'
    BY <1>5, <2>1, <2>3, <2>5 DEF Counted, Stored
  <2> QED BY <2>4, <2>6
<1>15. ASSUME Skip(units)
       PROVE  /\ Counted(all, k + 1)' /\ Stored(all, k + 1)'
              /\ written' \in Nat /\ buffer' \in Seq(Nat) /\ full' \in BOOLEAN
  <2>1. /\ size # NULL /\ (full \/ ~(Len(units) <= size - written)) /\ full'
        /\ full' = TRUE /\ buffer' = buffer /\ written' = written
    BY <1>15 DEF Skip, Fits
  <2>2. written = Len(buffer) /\ (size >= 0 => written <= size)
    BY <1>12, <2>1 DEF Stored
  <2>3. \E n \in 0..k : buffer = UnitsOf(form, all, n) /\ Len(UnitsOf(form, all, n + 1)) > size
    <3>1. CASE full
      <4>1. PICK n \in 0..(k - 1) :
              buffer = UnitsOf(form, all, n) /\ Len(UnitsOf(form, all, n + 1)) > size
        BY <1>12, <2>1, <3>1 DEF Stored
      <4>2. n \in 0..k
        OBVIOUS
      <4> QED BY <4>1, <4>2
    <3>2. CASE ~full
      <4>1. buffer = UnitsOf(form, all, k)
        BY <1>12, <2>1, <3>2 DEF Stored
      <4>2. Len(UnitsOf(form, all, k + 1)) = Len(buffer) + Len(units) /\ Len(units) \in Nat
        BY <1>11, <4>1
      <4>3. Len(UnitsOf(form, all, k + 1)) > size
        BY <1>1, <2>1, <2>2, <3>2, <4>2
      <4>4. k \in 0..k
        OBVIOUS
      <4> QED BY <4>1, <4>3, <4>4
    <3> QED BY <3>1, <3>2
  <2>4. 0..((k + 1) - 1) = 0..k
    OBVIOUS
  <2>5. Counted(all, k + 1)' /\ Stored(all, k + 1)'
    BY <1>5, <2>1, <2>2, <2>3, <2>4 DEF Counted, Stored
  <2>6. written' \in Nat /\ buffer' \in Seq(Nat) /\ full' \in BOOLEAN
    BY <1>1, <2>1
  <2> QED BY <2>5, <2>6
<1>16. /\ Counted(all, k + 1)' /\ Stored(all, k + 1)'
       /\ written' \in Nat /\ buffer' \in Seq(Nat) /\ full' \in BOOLEAN
  BY <1>5, <1>13, <1>14, <1>15
<1>17. Types'
  BY <1>0, <1>1, <1>4, <1>5, <1>16 DEF Types
<1>18. Answered(valid)'
  BY <1>1, <1>5 DEF Answered
<1>19. k + 1 \in Nat
  OBVIOUS
<1> QED BY <1>10, <1>16, <1>17, <1>18, <1>19 DEF IInv, all
\* The call returns, or the slice holds something that cannot be read.
Final(value) ==
  /\ value \in Int
  /\ value = -1 \/ (value = written /\ ptr = Len(text) + 1 /\ (size = NULL \/ size >= 0))
  /\ \A valid : value = -1 /\ (size = NULL \/ size >= 0) =>
       (Validity(text, valid) /\ (valid[ptr] <=> valid[1]) => ~valid[1])

LEMMA ReturnInv ==
  ASSUME IInv, result = NULL, NEW value, Return(value), Final(value)
  PROVE  IInv'
<1> USE DEF Final
<1>1. /\ result' = value /\ text' = text /\ form' = form /\ size' = size /\ ptr' = ptr
      /\ buffer' = buffer /\ written' = written /\ full' = full
  BY DEF Return
<1>2. Types'
  BY <1>1 DEF IInv, Types
<1>3. PICK chars, valid : \E k \in Nat :
        Reads(chars, valid, k) /\ Counted(chars[1], k) /\ Stored(chars[1], k)
  BY DEF IInv
<1>4. PICK k \in Nat : Reads(chars, valid, k) /\ Counted(chars[1], k) /\ Stored(chars[1], k)
  BY <1>3
<1>5. Reads(chars, valid, k)'
  BY <1>1, <1>4 DEF Reads
<1>6. Counted(chars[1], k)' /\ Stored(chars[1], k)'
  BY <1>1, <1>4 DEF Counted, Stored
<1>7. value = -1 /\ (size = NULL \/ size >= 0) => ~valid[1]
  BY <1>4 DEF Reads
<1>8. Answered(valid)'
  BY <1>1, <1>7 DEF Answered
<1> QED BY <1>2, <1>5, <1>6, <1>8 DEF IInv

LEMMA NextInv == IInv /\ [Next]_stringVars => IInv'
<1> SUFFICES ASSUME IInv, [Next]_stringVars PROVE IInv'
  OBVIOUS
<1>0. text \in Seq(Byte) /\ ptr \in 1..(Len(text) + 1) /\ written \in Nat /\ size \in Int
  BY DEF IInv, Types
<1>1. CASE Refuse
  <2>1. result = NULL /\ Return(-1) /\ ~(size = NULL \/ size >= 0)
    BY <1>0, <1>1 DEF Refuse
  <2>2. Final(-1)
    BY <2>1 DEF Final
  <2> QED BY <2>1, <2>2, ReturnInv
<1>2. CASE kason_strcpy
  <2>1. CASE Put(kason_string_next(text, ptr))
    BY <1>2, <2>1, PutInv DEF kason_strcpy
  <2>2. CASE kason_string_next(text, ptr).length = 0 /\ Return(-1)
    <3>1. result = NULL /\ ptr \in 1..Len(text)
      BY <1>0, <1>2 DEF kason_strcpy, Reading
    <3>2. ASSUME NEW valid, Validity(text, valid), valid[ptr] <=> valid[1]
          PROVE  ~valid[1]
      <4>1. ~(kason_string_next(text, ptr).length > 0)
        BY <2>2
      <4> QED BY <3>1, <3>2, <4>1 DEF Validity
    <3>3. Final(-1)
      BY <3>2 DEF Final
    <3> QED BY <2>2, <3>1, <3>3, ReturnInv
  <2> QED BY <1>2, <2>1, <2>2 DEF kason_strcpy
<1>3. CASE Finish
  <2>1. result = NULL /\ Return(written) /\ (size = NULL \/ size >= 0) /\ ptr = Len(text) + 1
    BY <1>0, <1>3 DEF Finish
  <2>2. written # -1 /\ written \in Int
    BY <1>0
  <2>3. Final(written)
    BY <2>1, <2>2 DEF Final
  <2> QED BY <2>1, <2>3, ReturnInv
<1>4. CASE UNCHANGED stringVars
  <2>1. /\ result' = result /\ text' = text /\ form' = form /\ size' = size /\ ptr' = ptr
        /\ buffer' = buffer /\ written' = written /\ full' = full
    BY <1>4 DEF stringVars
  <2>2. PICK chars, valid : \E k \in Nat :
          /\ Reads(chars, valid, k) /\ Counted(chars[1], k) /\ Stored(chars[1], k)
          /\ Answered(valid)
    BY DEF IInv
  <2>3. PICK k \in Nat : /\ Reads(chars, valid, k) /\ Counted(chars[1], k)
                         /\ Stored(chars[1], k) /\ Answered(valid)
    BY <2>2
  <2>4. Types'
    BY <2>1 DEF IInv, Types
  <2>5. Reads(chars, valid, k)' /\ Counted(chars[1], k)' /\ Stored(chars[1], k)'
    BY <2>1, <2>3 DEF Reads, Counted, Stored
  <2>6. Answered(valid)'
    BY <2>1, <2>3 DEF Answered
  <2> QED BY <2>4, <2>5, <2>6 DEF IInv
<1> QED BY <1>1, <1>2, <1>3, <1>4 DEF Next

LEMMA InvExact == IInv => CopyIsExact
<1> SUFFICES ASSUME IInv PROVE CopyIsExact
  OBVIOUS
<1>0. /\ text \in Seq(Byte) /\ ptr \in 1..(Len(text) + 1) /\ written \in Nat /\ size \in Int
      /\ full \in BOOLEAN /\ result \in Int /\ form \in Forms
  BY DEF IInv, Types
<1>1. PICK chars, valid : \E k \in Nat :
        /\ Reads(chars, valid, k) /\ Counted(chars[1], k) /\ Stored(chars[1], k)
        /\ Answered(valid)
  BY DEF IInv
<1>2. PICK k \in Nat : /\ Reads(chars, valid, k) /\ Counted(chars[1], k)
                       /\ Stored(chars[1], k) /\ Answered(valid)
  BY <1>1
<1>3. result # NULL /\ result # -1 =>
        result = written /\ ptr = Len(text) + 1 /\ (size = NULL \/ size >= 0)
  BY <1>2 DEF Answered
<1>4. MalformedIsRefused
  <2>1. ptr = Len(text) + 1 => valid[1]
    BY <1>2 DEF Reads, Validity
  <2>2. result # NULL /\ result = -1 /\ (size = NULL \/ size >= 0) => ~valid[1]
    BY <1>0, <1>2, <2>1 DEF Answered
  <2>3. kason_string_is_valid(text) <=> valid[1]
    BY <1>2 DEF Reads
  <2> QED BY <1>3, <2>1, <2>2, <2>3 DEF MalformedIsRefused
<1>5. ASSUME result >= 0 PROVE CopyIsLongestPrefix
  <2> DEFINE all == chars[1]
  <2>1. result = written /\ ptr = Len(text) + 1 /\ (size = NULL \/ size >= 0)
    BY <1>0, <1>3, <1>5 DEF NULL
  <2>2. all \in Seq(UnicodeScalar) /\ chars[Len(text) + 1] = << >> /\ Characters(text) = all
    <3>1. 1 \in 1..(Len(text) + 1)
      BY <1>0
    <3> QED BY <1>2, <3>1 DEF Reads, Spelling
  <2>3. k = Len(all)
    <3>1. k \in 0..Len(all) /\ SubSeq(all, k + 1, Len(all)) = << >> /\ Len(all) \in Nat
      BY <1>2, <2>1, <2>2 DEF Reads
    <3>2. Len(SubSeq(all, k + 1, Len(all))) = Len(all) - k
      BY <2>2, <3>1
    <3>3. Len(<< >>) = 0
      OBVIOUS
    <3>4. Len(all) - k = 0 /\ k \in Nat
      BY <3>1, <3>2, <3>3
    <3> QED BY <3>1, <3>4
  <2>4. CASE size = NULL
    BY <1>2, <2>1, <2>2, <2>3, <2>4 DEF CopyIsLongestPrefix, Counted
  <2>5. CASE size # NULL
    <3>1. /\ result = Len(buffer) /\ result <= size
      BY <1>2, <2>1, <2>5 DEF Stored
    <3>2. \E n \in 0..Len(all) :
            /\ buffer = UnitsOf(form, all, n)
            /\ n < Len(all) => Len(UnitsOf(form, all, n + 1)) > size
      <4>1. CASE full
        <5>1. PICK n \in 0..(k - 1) :
                buffer = UnitsOf(form, all, n) /\ Len(UnitsOf(form, all, n + 1)) > size
          BY <1>2, <2>5, <4>1 DEF Stored
        <5>2. n \in 0..Len(all)
          BY <2>3
        <5> QED BY <5>1, <5>2
      <4>2. CASE ~full
        <5>1. buffer = UnitsOf(form, all, k)
          BY <1>2, <2>5, <4>2 DEF Stored
        <5>2. k \in 0..Len(all) /\ ~(k < Len(all))
          BY <2>3
        <5> QED BY <5>1, <5>2
      <4> QED BY <4>1, <4>2
    <3> HIDE DEF all
    <3> QED BY <2>2, <2>5, <3>1, <3>2 DEF CopyIsLongestPrefix
  <2> QED BY <2>4, <2>5
<1>6. CopyIsLongestPrefix
  BY <1>5 DEF CopyIsLongestPrefix
<1> QED BY <1>4, <1>6 DEF CopyIsExact

(* kason_strcpy and its UTF-16 and UTF-32 forms, and kason_strlen, refuse  *)
(* just the malformed slices, and store of another the longest prefix of   *)
(* whole characters the buffer takes, whatever the slice and the buffer.   *)
THEOREM CopiesExactly == Spec => []CopyIsExact
<1>1. Init => IInv
  BY InitInv
<1>2. IInv /\ [Next]_stringVars => IInv'
  BY NextInv
<1>3. IInv => CopyIsExact
  BY InvExact
<1> QED BY <1>1, <1>2, <1>3, PTL DEF Spec
-----------------------------------------------------------------------------
(* Comparison.                                                             *)

\* What is compared: scalars, and an end, which alone is negative.
Ended == {v \in Seq(Int) : /\ Len(v) >= 1 /\ v[Len(v)] < 0
                           /\ \A i \in 1..(Len(v) - 1) : v[i] >= 0}

LEMMA EndsAtOnce == ASSUME NEW e \in Int, e < 0 PROVE <<e>> \in Ended
<1>1. /\ <<e>> \in Seq(Int) /\ Len(<<e>>) = 1 /\ <<e>>[1] = e
      /\ 1..(Len(<<e>>) - 1) = {}
  OBVIOUS
<1> QED BY <1>1 DEF Ended

LEMMA EndsLater == ASSUME NEW v \in Nat, NEW rest \in Ended PROVE <<v>> \o rest \in Ended
<1> DEFINE all == <<v>> \o rest
<1>1. /\ rest \in Seq(Int) /\ Len(rest) >= 1 /\ rest[Len(rest)] < 0
      /\ \A i \in 1..(Len(rest) - 1) : rest[i] >= 0
  BY DEF Ended
<1>2. Len(rest) \in Nat
  BY <1>1
<1>3. /\ all \in Seq(Int) /\ Len(all) = Len(rest) + 1 /\ all[1] = v
      /\ \A i \in 1..Len(rest) : all[i + 1] = rest[i]
  BY <1>1
<1> HIDE DEF all
<1>4. all[Len(all)] < 0
  BY <1>1, <1>2, <1>3
<1>5. ASSUME NEW i \in 1..(Len(all) - 1) PROVE all[i] >= 0
  <2>1. CASE i = 1
    BY <1>3, <2>1
  <2>2. CASE i # 1
    <3>1. i - 1 \in 1..(Len(rest) - 1) /\ i - 1 \in 1..Len(rest) /\ (i - 1) + 1 = i
      BY <1>2, <1>3, <2>2
    <3> QED BY <1>1, <1>3, <3>1
  <2> QED BY <2>1, <2>2
<1>6. Len(all) >= 1
  BY <1>2, <1>3
<1> QED BY <1>3, <1>4, <1>5, <1>6 DEF Ended, all

LEMMA LooseStep ==
  ASSUME NEW s \in Seq(Byte), NEW p \in 1..Len(s)
  PROVE  /\ LooseChar(s, p).length \in Nat /\ LooseChar(s, p).value \in UnicodeScalar
         /\ LooseChar(s, p).length # 0 =>
              /\ p + LooseChar(s, p).length \in 1..(Len(s) + 1)
              /\ p + LooseChar(s, p).length > p
<1>1. Len(s) \in Nat /\ p \in Nat /\ s[p] \in Byte /\ p + 1 <= Len(s) + 1
  OBVIOUS
<1>2. Readable(s, p, Char(1, s[p]))
  BY <1>1, ByteScalar, CharReadable DEF Byte
<1>3. Readable(s, p, LooseChar(s, p))
  BY <1>2, NextReadable DEF LooseChar
<1> DEFINE char == LooseChar(s, p)
<1>4. /\ char.length \in Nat /\ char.value \in UnicodeScalar
      /\ char.length > 0 => p + char.length <= Len(s) + 1
  BY <1>3 DEF Readable
<1> HIDE DEF char, UnicodeScalar
<1>5. char.length # 0 => p + char.length \in 1..(Len(s) + 1) /\ p + char.length > p
  BY <1>1, <1>4
<1> QED BY <1>4, <1>5 DEF char

LEMMA LooseType == ASSUME NEW s \in Seq(Byte) PROVE LooseScalars(s) \in Ended
<1> DEFINE n == Len(s)
           S == 1..(n + 1)
           T == Ended
           char(p) == LooseChar(s, p)
           body(f, p) == IF p > Len(s) THEN <<TextEnd>>
                         ELSE ScalarAndRest(LooseChar(s, p), f[p + LooseChar(s, p).length])
           F == [f \in [S -> T] |-> [p \in S |-> body(f, p)]]
           from == CHOOSE f : f = [p \in 1..(Len(s) + 1) |-> body(f, p)]
<1>1. n \in Nat
  OBVIOUS
<1>2. LooseScalars(s) = from[1]
  BY DEF LooseScalars
<1>3. ASSUME NEW p \in S, NEW f, \A r \in S : r > p => f[r] \in T PROVE body(f, p) \in T
  <2>1. CASE p > Len(s)
    <3>1. <<TextEnd>> \in Ended
      BY EndsAtOnce DEF TextEnd
    <3> QED BY <2>1, <3>1
  <2>2. CASE ~(p > Len(s)) /\ char(p).length = 0
    <3>1. <<TextError>> \in Ended
      BY EndsAtOnce DEF TextError
    <3> QED BY <2>2, <3>1 DEF ScalarAndRest
  <2>3. CASE ~(p > Len(s)) /\ char(p).length # 0
    <3>1. p \in 1..Len(s)
      BY <1>1, <2>3
    <3>2. /\ char(p).value \in UnicodeScalar /\ p + char(p).length \in S
          /\ p + char(p).length > p
      BY <2>3, <3>1, LooseStep
    <3>3. f[p + char(p).length] \in T
      BY <1>3, <3>2
    <3>4. body(f, p) = <<char(p).value>> \o f[p + char(p).length]
      BY <2>3 DEF ScalarAndRest
    <3>5. char(p).value \in Nat
      BY <3>2 DEF UnicodeScalar
    <3> HIDE DEF body, S
    <3> QED BY <3>3, <3>4, <3>5, EndsLater
  <2> QED BY <2>1, <2>2, <2>3
<1>4. Forward(n, T, F)
  <2>1. F \in [[S -> T] -> [S -> T]]
    <3>1. \A f \in [S -> T] : \A p \in S : body(f, p) \in T
      BY <1>3
    <3> HIDE DEF body, S, T
    <3> QED BY <3>1
  <2>2. T # {}
    <3>1. <<-1>> \in T
      BY EndsAtOnce
    <3> HIDE DEF T
    <3> QED BY <3>1
  <2>3. ASSUME NEW g \in [S -> T], NEW h \in [S -> T], NEW p \in S,
               \A r \in S : r > p => g[r] = h[r]
        PROVE  F[g][p] = F[h][p]
    <3>1. body(g, p) = body(h, p)
      <4>1. CASE p > Len(s)
        BY <4>1
      <4>2. CASE ~(p > Len(s)) /\ char(p).length = 0
        BY <4>2 DEF ScalarAndRest
      <4>3. CASE ~(p > Len(s)) /\ char(p).length # 0
        <5>1. p \in 1..Len(s)
          BY <1>1, <4>3
        <5>2. g[p + char(p).length] = h[p + char(p).length]
          BY <2>3, <4>3, <5>1, LooseStep
        <5> QED BY <5>2
      <4> QED BY <4>1, <4>2, <4>3
    <3>2. F[g][p] = body(g, p) /\ F[h][p] = body(h, p)
      <4> HIDE DEF body
      <4> QED BY <2>3
    <3> QED BY <3>1, <3>2
  <2> HIDE DEF F, T, n
  <2> QED BY <2>1, <2>2, <2>3 DEF Forward
<1>5. PICK f : Solution(S, T, F, f)
  <2> HIDE DEF F, n, T
  <2> QED BY <1>1, <1>4, ForwardRecursion
<1>6. f = [p \in 1..(Len(s) + 1) |-> body(f, p)]
  BY <1>5 DEF Solution
<1>7. from = [p \in 1..(Len(s) + 1) |-> body(from, p)]
  BY <1>6
<1> HIDE DEF from, T, F
<1> DEFINE P == {p \in S : from[p] \in T}
<1>8. ASSUME NEW p \in S, \A r \in S : r > p => r \in P PROVE p \in P
  <2>1. from[p] = body(from, p)
    BY <1>7
  <2>2. body(from, p) \in T
    BY <1>3, <1>8
  <2> HIDE DEF body
  <2> QED BY <2>1, <2>2
<1>9. Backward(n, P)
  BY <1>8 DEF Backward
<1>10. 1 \in S
  BY <1>1
<1> HIDE DEF P, n
<1>11. P = 1..(n + 1)
  BY <1>1, <1>9, BackwardInduction
<1> QED BY <1>2, <1>10, <1>11 DEF P, n, T
\* Where a comparison decides.
Decides(v, w, j) == v[j] # w[j] \/ v[j] < 0

LEMMA FirstDecides ==
  ASSUME NEW v \in Ended, NEW w \in Ended
  PROVE  \E m \in Nat :
           /\ m \in 1..Len(v) /\ m \in 1..Len(w) /\ Decides(v, w, m)
           /\ \A j \in 1..(m - 1) : ~Decides(v, w, j)
<1> DEFINE N == {j \in Nat : j >= 1 /\ Decides(v, w, j)}
<1>1. /\ Len(v) \in Nat /\ Len(v) >= 1 /\ v[Len(v)] < 0
      /\ Len(w) \in Nat /\ Len(w) >= 1 /\ w[Len(w)] < 0
  BY DEF Ended
<1>2. Len(v) \in N
  BY <1>1 DEF Decides
<1>3. N # {} /\ N \in SUBSET Nat
  BY <1>2
<1>4. PICK m \in N : \A j \in N : m <= j
  <2> HIDE DEF N
  <2> QED BY <1>3, LeastNat
<1>5. m \in Nat /\ m >= 1 /\ Decides(v, w, m) /\ m <= Len(v)
  BY <1>2, <1>4
<1>6. ASSUME NEW j \in 1..(m - 1) PROVE ~Decides(v, w, j)
  <2>1. j \in Nat /\ j >= 1 /\ ~(m <= j)
    BY <1>5
  <2> QED BY <1>4, <2>1
<1>7. m <= Len(w)
  <2> SUFFICES ASSUME ~(m <= Len(w)) PROVE FALSE
    OBVIOUS
  <2>1. Len(w) \in 1..(m - 1)
    BY <1>1, <1>5
  <2>2. v[Len(w)] = w[Len(w)] /\ ~(v[Len(w)] < 0)
    BY <1>6, <2>1 DEF Decides
  <2> QED BY <1>1, <2>2
<1> QED BY <1>1, <1>5, <1>6, <1>7

\* The recursive comparison gives what the first deciding place says.
LEMMA ComparesAt ==
  ASSUME NEW v, NEW w, NEW m \in Nat, m >= 1, Decides(v, w, m),
         \A j \in 1..(m - 1) : ~Decides(v, w, j)
  PROVE  CompareScalars(v, w) = Difference(v[m], w[m])
<1> DEFINE body(f, k) == IF v[k] # w[k] \/ v[k] < 0 THEN Difference(v[k], w[k]) ELSE f[k + 1]
           compare == CHOOSE f : f = [k \in Nat |-> body(f, k)]
           after(k) == {j \in Nat : j >= k /\ Decides(v, w, j)}
           least(k) == CHOOSE j \in after(k) : \A i \in after(k) : j <= i
           g == [k \in Nat |-> IF after(k) = {} THEN 0
                               ELSE Difference(v[least(k)], w[least(k)])]
<1>1. CompareScalars(v, w) = compare[1]
  BY DEF CompareScalars
<1>2. ASSUME NEW k \in Nat PROVE g[k] = body(g, k)
  <2>1. k \in Nat /\ k + 1 \in Nat
    OBVIOUS
  <2>2. CASE Decides(v, w, k)
    <3>1. k \in after(k) /\ \A i \in after(k) : k <= i
      BY <2>2
    <3>2. least(k) = k
      <4>1. ASSUME NEW j \in after(k), \A i \in after(k) : j <= i PROVE j = k
        <5>1. j \in Nat /\ j <= k /\ k <= j
          BY <3>1, <4>1
        <5> QED BY <5>1
      <4> HIDE DEF after
      <4> QED BY <3>1, <4>1
    <3>3. after(k) # {}
      BY <3>1
    <3>4. g[k] = Difference(v[k], w[k])
      <4> HIDE DEF after, least
      <4> QED BY <3>2, <3>3
    <3> HIDE DEF g
    <3> QED BY <2>2, <3>4 DEF Decides
  <2>3. CASE ~Decides(v, w, k)
    <3>1. ASSUME NEW j \in Nat, Decides(v, w, j) PROVE j >= k <=> j >= k + 1
      <4>1. j # k
        BY <2>3, <3>1
      <4> QED BY <4>1
    <3>2. after(k) = after(k + 1)
      BY <3>1
    <3>3. g[k] = g[k + 1]
      <4>1. least(k) = least(k + 1)
        BY <3>2
      <4> HIDE DEF after, least
      <4> QED BY <2>1, <3>2, <4>1
    <3> HIDE DEF g
    <3> QED BY <2>3, <3>3 DEF Decides
  <2> QED BY <2>2, <2>3
<1>3. g = [k \in Nat |-> body(g, k)]
  <2>1. g = [k \in Nat |-> g[k]]
    OBVIOUS
  <2> HIDE DEF g, body
  <2> QED BY <1>2, <2>1
<1>4. compare = [k \in Nat |-> body(compare, k)]
  <2> HIDE DEF g
  <2> QED BY <1>3
<1> HIDE DEF compare
<1>5. \A k \in Nat : compare[k] = body(compare, k)
  BY <1>4
<1>6. compare[m] = Difference(v[m], w[m])
  BY <1>5 DEF Decides
<1> DEFINE P == {n \in Nat : n < m => compare[m - n] = Difference(v[m], w[m])}
<1>7. 0 \in P
  BY <1>6
<1>8. ASSUME NEW n \in P PROVE n + 1 \in P
  <2> SUFFICES ASSUME n + 1 < m PROVE compare[m - (n + 1)] = Difference(v[m], w[m])
    OBVIOUS
  <2>1. /\ n \in Nat /\ n < m /\ m - (n + 1) \in Nat /\ m - (n + 1) \in 1..(m - 1)
        /\ (m - (n + 1)) + 1 = m - n
    OBVIOUS
  <2>2. compare[m - n] = Difference(v[m], w[m])
    BY <2>1
  <2>3. ~Decides(v, w, m - (n + 1))
    BY <2>1
  <2>4. compare[m - (n + 1)] = compare[(m - (n + 1)) + 1]
    BY <1>5, <2>1, <2>3 DEF Decides
  <2> QED BY <2>1, <2>2, <2>4
<1>9. P = Nat
  <2>1. P \in SUBSET Nat
    OBVIOUS
  <2> HIDE DEF P
  <2> QED BY <1>7, <1>8, <2>1, SetInduction
<1>10. m - 1 \in Nat /\ m - 1 < m /\ m - (m - 1) = 1
  OBVIOUS
<1>11. compare[m - (m - 1)] = Difference(v[m], w[m])
  BY <1>9, <1>10
<1> QED BY <1>1, <1>10, <1>11

LEMMA OrderAt ==
  ASSUME NEW v \in Ended, NEW w \in Ended, NEW m \in Nat, m \in 1..Len(v), m \in 1..Len(w),
         Decides(v, w, m), \A j \in 1..(m - 1) : ~Decides(v, w, j)
  PROVE  OrderOf(v, w) = Difference(v[m], w[m])
<1>1. /\ v \in Seq(Int) /\ Len(v) \in Nat /\ Len(v) >= 1 /\ v[Len(v)] < 0
      /\ \A i \in 1..(Len(v) - 1) : v[i] >= 0
  BY DEF Ended
<1>2. /\ w \in Seq(Int) /\ Len(w) \in Nat /\ Len(w) >= 1 /\ w[Len(w)] < 0
      /\ \A i \in 1..(Len(w) - 1) : w[i] >= 0
  BY DEF Ended
<1>3. v[m] \in Int /\ w[m] \in Int /\ m >= 1
  BY <1>1, <1>2
<1>4. DOMAIN v = 1..Len(v) /\ DOMAIN w = 1..Len(w)
  BY <1>1, <1>2
<1>5. \A j \in 1..(m - 1) : v[j] = w[j]
  BY DEF Decides
<1>6. \A k \in 1..Len(v) \cap 1..Len(w) : v[k] \in Int /\ w[k] \in Int
  BY <1>1, <1>2
<1>7. ASSUME v[m] < w[m] PROVE Precedes(v, w) /\ ~Precedes(w, v)
  <2>1. Precedes(v, w)
    BY <1>4, <1>5, <1>7 DEF Precedes
  <2>2. ASSUME NEW k \in 1..Len(v) \cap 1..Len(w), w[k] < v[k], \A j \in 1..(k - 1) : w[j] = v[j]
        PROVE  FALSE
    <3>1. CASE k < m
      <4>1. k \in 1..(m - 1)
        BY <3>1
      <4> QED BY <1>5, <1>6, <2>2, <4>1
    <3>2. CASE k = m
      BY <1>3, <1>7, <2>2, <3>2
    <3>3. CASE k > m
      <4>1. m \in 1..(k - 1)
        BY <1>3, <3>3
      <4> QED BY <1>3, <1>7, <2>2, <4>1
    <3> QED BY <3>1, <3>2, <3>3
  <2> QED BY <1>4, <2>1, <2>2 DEF Precedes
<1>8. ASSUME w[m] < v[m] PROVE Precedes(w, v) /\ ~Precedes(v, w)
  <2>1. Precedes(w, v)
    BY <1>4, <1>5, <1>8 DEF Precedes
  <2>2. ASSUME NEW k \in 1..Len(v) \cap 1..Len(w), v[k] < w[k], \A j \in 1..(k - 1) : v[j] = w[j]
        PROVE  FALSE
    <3>1. CASE k < m
      <4>1. k \in 1..(m - 1)
        BY <3>1
      <4> QED BY <1>5, <1>6, <2>2, <4>1
    <3>2. CASE k = m
      BY <1>3, <1>8, <2>2, <3>2
    <3>3. CASE k > m
      <4>1. m \in 1..(k - 1)
        BY <1>3, <3>3
      <4> QED BY <1>3, <1>8, <2>2, <4>1
    <3> QED BY <3>1, <3>2, <3>3
  <2> QED BY <1>4, <2>1, <2>2 DEF Precedes
<1>9. ASSUME v[m] = w[m] PROVE ~Precedes(w, v) /\ ~Precedes(v, w)
  <2>1. v[m] < 0 /\ w[m] < 0
    BY <1>9 DEF Decides
  <2>2. m \notin 1..(Len(v) - 1) /\ m \notin 1..(Len(w) - 1)
    <3>1. ~(v[m] >= 0) /\ ~(w[m] >= 0)
      BY <1>3, <2>1
    <3> QED BY <1>1, <1>2, <3>1
  <2>4. m = Len(v) /\ m = Len(w)
    BY <1>1, <1>2, <2>2
  <2>3. \A k \in 1..Len(v) \cap 1..Len(w) : v[k] = w[k]
    BY <1>5, <1>9, <2>4
  <2> QED BY <1>4, <1>6, <2>3 DEF Precedes
<1>10. CASE v[m] < w[m]
  <2>1. ~(v[m] > w[m])
    BY <1>3, <1>10
  <2> QED BY <1>7, <1>10, <2>1 DEF OrderOf, Difference
<1>11. CASE w[m] < v[m]
  <2>1. ~(v[m] < w[m]) /\ v[m] > w[m]
    BY <1>3, <1>11
  <2> QED BY <1>8, <1>11, <2>1 DEF OrderOf, Difference
<1>12. CASE v[m] = w[m]
  <2>1. ~(v[m] < w[m]) /\ ~(v[m] > w[m])
    BY <1>3, <1>12
  <2> QED BY <1>9, <1>12, <2>1 DEF OrderOf, Difference
<1> QED BY <1>3, <1>10, <1>11, <1>12

\* Comparing two byte strings orders them by their characters.
LEMMA ComparesInOrder ==
  ASSUME NEW s \in Seq(Byte), NEW t \in Seq(Byte)
  PROVE  kason_strcmp(s, t) = OrderOf(LooseScalars(s), LooseScalars(t))
<1> DEFINE v == LooseScalars(s)
           w == LooseScalars(t)
<1>1. v \in Ended /\ w \in Ended
  BY LooseType
<1>2. kason_strcmp(s, t) = CompareScalars(v, w)
  BY DEF kason_strcmp
<1> HIDE DEF v, w
<1>3. PICK m \in Nat :
        /\ m \in 1..Len(v) /\ m \in 1..Len(w) /\ Decides(v, w, m)
        /\ \A j \in 1..(m - 1) : ~Decides(v, w, j)
  BY <1>1, FirstDecides
<1>4. m >= 1
  BY <1>3
<1>5. CompareScalars(v, w) = Difference(v[m], w[m])
  BY <1>3, <1>4, ComparesAt
<1>6. OrderOf(v, w) = Difference(v[m], w[m])
  BY <1>1, <1>3, OrderAt
<1> QED BY <1>2, <1>5, <1>6 DEF v, w

(* kason_strcmp, whose loop goes over both strings at once, orders any two *)
(* strings, malformed ones included, by the sequences of their characters. *)
THEOREM ComparisonsOrder == Spec => []ComparisonIsOrder
<1>1. Init => IInv
  BY InitInv
<1>2. IInv /\ [Next]_stringVars => IInv'
  BY NextInv
<1>3. IInv => ComparisonIsOrder
  <2> SUFFICES ASSUME IInv, NEW other \in Slices
               PROVE  kason_strcmp(text, other) = OrderOf(LooseScalars(text), LooseScalars(other))
    BY DEF ComparisonIsOrder
  <2>1. text \in Seq(Byte) /\ other \in Seq(Byte)
    BY SlicesAssumption DEF IInv, Types
  <2> QED BY <2>1, ComparesInOrder
<1> QED BY <1>1, <1>2, <1>3, PTL DEF Spec
=============================================================================
