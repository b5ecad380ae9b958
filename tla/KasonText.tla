----------------------------- MODULE KasonText -----------------------------
(***************************************************************************)
(* The text layer every parser of kason.c is built on: byte classes, the   *)
(* decoding of one character of a JSON string, string validity, and the    *)
(* spelling of scalars.  A byte is its unsigned value; a slice of the      *)
(* input (a begin/end pair of inclusive pointers) is the sequence of the   *)
(* bytes it covers, so the empty slice (end = begin - 1) is << >>.         *)
(***************************************************************************)
EXTENDS Integers, Sequences

Byte == 0..255

QUOTE        == 34     \* KaSON_CHAR_STRING_SEPARATOR
COMMA        == 44     \* KaSON_CHAR_PARAM_SEPARATOR
MINUS        == 45
POINT        == 46
ZERO         == 48
COLON        == 58     \* KaSON_CHAR_KEY_VAL_SEPARATOR
ARRAY_START  == 91
BACKSLASH    == 92     \* KaSON_CHAR_STRING_FMT_ESCAPE
ARRAY_END    == 93
LETTER_U     == 117
OBJECT_START == 123
OBJECT_END   == 125

is_digit(c)         == c \in 48..57
is_hex_digit(c)     == c \in 48..57 \cup 97..102 \cup 65..70
is_control_char(c)  == c \in 0..31
is_whitespace(c)    == c \in {32, 10, 9, 13}
Opens(c)            == c \in {OBJECT_START, ARRAY_START}
Closes(c)           == c \in {OBJECT_END, ARRAY_END}
kason_stream_container_match(open, close) ==
  <<open, close>> \in {<<OBJECT_START, OBJECT_END>>, <<ARRAY_START, ARRAY_END>>}
is_simple_escape(c) == c \in {QUOTE, BACKSLASH, 47, 98, 102, 110, 114, 116}
is_exponent(c)      == c \in {69, 101}

(***************************************************************************)
(* One character of a string slice.  [length, value]: how many bytes it    *)
(* takes and the Unicode scalar it stands for; length 0 is an error.       *)
(***************************************************************************)
NoChar == [length |-> 0, value |-> 0]
Char(n, v) == [length |-> n, value |-> v]

kason_hex_value(c) ==
  CASE c \in 48..57  -> c - 48
    [] c \in 97..102 -> c - 97 + 10
    [] c \in 65..70  -> c - 65 + 10
    [] OTHER         -> -1

HexAt(s, p) == p + 3 <= Len(s) /\ \A k \in p..(p + 3) : is_hex_digit(s[k])

kason_decode_hex4(s, p) ==
  kason_hex_value(s[p]) * 4096 + kason_hex_value(s[p + 1]) * 256
    + kason_hex_value(s[p + 2]) * 16 + kason_hex_value(s[p + 3])

HighSurrogate == 55296..56319    \* 0xd800..0xdbff
LowSurrogate  == 56320..57343    \* 0xdc00..0xdfff
Surrogate     == 55296..57343

SimpleEscapeValue(c) ==
  CASE c = 98 -> 8 [] c = 102 -> 12 [] c = 110 -> 10
    [] c = 114 -> 13 [] c = 116 -> 9 [] OTHER -> c

\* \uXXXX, or a surrogate pair \uD8XX\uDCXX; s[p] is the backslash and high
\* the value of the first four digits.
SurrogatePair(high, low) ==
  IF low \in LowSurrogate
  THEN Char(12, 65536 + (high - 55296) * 1024 + (low - 56320))
  ELSE NoChar

UnicodeChar(s, p, high) ==
  CASE high \in HighSurrogate ->
         IF /\ p + 11 <= Len(s)
            /\ s[p + 6] = BACKSLASH /\ s[p + 7] = LETTER_U
            /\ HexAt(s, p + 8)
         THEN SurrogatePair(high, kason_decode_hex4(s, p + 8))
         ELSE NoChar
    [] high \in LowSurrogate -> NoChar
    [] OTHER -> Char(6, high)

UnicodeEscape(s, p) ==
  IF HexAt(s, p + 2) THEN UnicodeChar(s, p, kason_decode_hex4(s, p + 2))
                     ELSE NoChar

EscapeChar(s, p) ==
  CASE p + 1 > Len(s)             -> NoChar
    [] p + 1 <= Len(s) /\ is_simple_escape(s[p + 1]) ->
         Char(2, SimpleEscapeValue(s[p + 1]))
    [] p + 1 <= Len(s) /\ s[p + 1] = LETTER_U -> UnicodeEscape(s, p)
    [] OTHER                      -> NoChar

\* Number of continuation bytes a UTF-8 lead byte announces; 0: not a lead.
continuation_count(c) ==
  CASE c \in 194..223 -> 1
    [] c \in 224..239 -> 2
    [] c \in 240..244 -> 3
    [] OTHER          -> 0

utf8_minimum(n) == CASE n = 1 -> 128 [] n = 2 -> 2048 [] OTHER -> 65536
lead_bits(c, n) == CASE n = 1 -> c % 32 [] n = 2 -> c % 16 [] OTHER -> c % 8
is_continuation(c) == c \in 128..191

IllFormedScalar(v, minimum) ==
  v < minimum \/ v > 1114111 \/ v \in Surrogate

\* The scalar that the lead byte s[p] and n continuation bytes encode.
Utf8Scalar(s, p, n) ==
  LET scalar[k \in 0..n] == IF k = 0 THEN lead_bits(s[p], n)
                            ELSE (scalar[k - 1] * 64) + (s[p + k] % 64)
  IN  scalar[n]

MultiByte(s, p, n) ==
  IF /\ n > 0
     /\ p + n <= Len(s)
     /\ \A k \in 1..n : is_continuation(s[p + k])
     /\ ~IllFormedScalar(Utf8Scalar(s, p, n), utf8_minimum(n))
  THEN Char(n + 1, Utf8Scalar(s, p, n))
  ELSE NoChar
MultiByteChar(s, p) == MultiByte(s, p, continuation_count(s[p]))

kason_string_next(s, p) ==
  CASE s[p] = BACKSLASH -> EscapeChar(s, p)
    [] s[p] \in 128..255 -> MultiByteChar(s, p)
    [] is_control_char(s[p]) \/ s[p] = QUOTE -> NoChar
    [] OTHER -> Char(1, s[p])

kason_string_is_valid(s) ==
  LET validFrom[p \in 1..(Len(s) + 1)] ==
        \/ p = Len(s) + 1
        \/ /\ p <= Len(s)
           /\ \E n \in {kason_string_next(s, p).length} : n > 0 /\ validFrom[p + n]
  IN  validFrom[1]

\* The UTF-8 bytes of a scalar.
kason_utf8_encode(v) ==
  LET tail(n) == 128 + ((v \div n) % 64)
  IN  IF v <= 127 THEN <<v>>
      ELSE IF v <= 2047 THEN <<192 + (v \div 64), tail(1)>>
      ELSE IF v <= 65535 THEN <<224 + (v \div 4096), tail(64), tail(1)>>
      ELSE <<240 + (v \div 262144), tail(4096), tail(64), tail(1)>>

\* The UTF-8 bytes a string slice stands for; ok is FALSE when it is malformed.
Undecodable == [ok |-> FALSE, bytes |-> << >>]
Prepend(bytes, rest) ==
  IF rest.ok THEN [ok |-> TRUE, bytes |-> bytes \o rest.bytes] ELSE Undecodable
Decoded(s) ==
  LET from[p \in 1..(Len(s) + 1)] ==
        CASE p = Len(s) + 1 -> [ok |-> TRUE, bytes |-> << >>]
          [] p <= Len(s) /\ kason_string_next(s, p).length = 0 -> Undecodable
          [] OTHER -> Prepend(kason_utf8_encode(kason_string_next(s, p).value),
                              from[p + kason_string_next(s, p).length])
  IN  from[1]

\* The characters of a string slice, up to one that is malformed, and a
\* character in UTF-16.
Characters(s) ==
  LET from[p \in 1..(Len(s) + 1)] ==
        IF p > Len(s) \/ kason_string_next(s, p).length = 0 THEN << >>
        ELSE <<kason_string_next(s, p).value>>
               \o from[p + kason_string_next(s, p).length]
  IN  from[1]
utf16_units(v) ==
  IF v <= 65535 THEN <<v>>
  ELSE <<55296 + ((v - 65536) \div 1024), 56320 + ((v - 65536) % 1024)>>

\* Comparison is lenient: an unescaped quote or control character is itself.
LooseChar(s, p) ==
  IF is_control_char(s[p]) \/ s[p] = QUOTE THEN Char(1, s[p]) ELSE kason_string_next(s, p)

\* The scalars of a slice up to its end, -1, or to what cannot be read, -2.
TextEnd   == -1
TextError == -2
ScalarAndRest(char, rest) ==
  IF char.length = 0 THEN <<TextError>> ELSE <<char.value>> \o rest
LooseScalars(s) ==
  LET from[p \in 1..(Len(s) + 1)] ==
        IF p > Len(s) THEN <<TextEnd>>
        ELSE ScalarAndRest(LooseChar(s, p), from[p + LooseChar(s, p).length])
  IN  from[1]

\* The first difference decides.
\* Mutant: a malformed string equals whatever it agrees with so far.
DifferenceUnread(v, w) ==
  CASE TextError \in {v, w} -> 0 [] v < w -> -1 [] v > w -> 1 [] OTHER -> 0
Difference(v, w) == CASE v < w -> -1 [] v > w -> 1 [] OTHER -> 0
CompareScalars(v, w) ==
  LET compare[k \in Nat] ==
        IF v[k] # w[k] \/ v[k] < 0 THEN Difference(v[k], w[k]) ELSE compare[k + 1]
  IN  compare[1]
kason_strcmp(s, t) == CompareScalars(LooseScalars(s), LooseScalars(t))

(***************************************************************************)
(* Scalars other than strings.                                             *)
(***************************************************************************)
TEXT_NULL  == <<110, 117, 108, 108>>
TEXT_TRUE  == <<116, 114, 117, 101>>
TEXT_FALSE == <<102, 97, 108, 115, 101>>

At(s, p) == IF p \in 1..Len(s) THEN s[p] ELSE -1

DigitsEnd(s, p) ==
  LET skip[q \in 1..(Len(s) + 1)] ==
        IF is_digit(At(s, q)) THEN skip[q + 1] ELSE q
  IN  skip[p]

\* Each part is the position after it, 0 when it is malformed.
IntegerEnd(s) ==
  LET p == IF At(s, 1) = MINUS THEN 2 ELSE 1
  IN  CASE At(s, p) = ZERO      -> p + 1
        [] At(s, p) \in 49..57  -> DigitsEnd(s, p + 1)
        [] OTHER                -> 0

FractionEnd(s, p) ==
  IF At(s, p) # POINT THEN p
  ELSE IF is_digit(At(s, p + 1)) THEN DigitsEnd(s, p + 2) ELSE 0

SignEnd(s, p) == IF At(s, p) \in {43, MINUS} THEN p + 1 ELSE p
ExponentEnd(s, p) ==
  IF ~is_exponent(At(s, p)) THEN p
  ELSE IF is_digit(At(s, SignEnd(s, p + 1))) THEN DigitsEnd(s, SignEnd(s, p + 1)) ELSE 0

is_valid_number(s) ==
  /\ IntegerEnd(s) > 0
  /\ FractionEnd(s, IntegerEnd(s)) > 0
  /\ ExponentEnd(s, FractionEnd(s, IntegerEnd(s))) = Len(s) + 1

ScalarTypes == {"NUMBER", "NULL", "TRUE", "FALSE"}

\* The type of a complete scalar token, "INVALID" when it is not one.
ScalarType(s) ==
  CASE s = << >> -> "INVALID"
    [] s # << >> /\ (s[1] = MINUS \/ is_digit(s[1])) ->
         IF is_valid_number(s) THEN "NUMBER" ELSE "INVALID"
    [] s = TEXT_NULL  -> "NULL"
    [] s = TEXT_TRUE  -> "TRUE"
    [] s = TEXT_FALSE -> "FALSE"
    [] OTHER -> "INVALID"
=============================================================================
