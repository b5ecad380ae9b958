---------------------------- MODULE KasonStrings ----------------------------
(***************************************************************************)
(* kason_strcpy, kason_strcpy_utf16 and kason_strcpy_utf32, and            *)
(* kason_strlen, which is a copy without a buffer: a slice is read one     *)
(* character at a time to its end, also when the buffer has become full,   *)
(* and each character is stored whole or not at all.                       *)
(***************************************************************************)
EXTENDS KasonText

CONSTANTS
  Slices,     \* string slices, without their quotes
  Sizes       \* buffer sizes in units; NULL for no buffer

NULL == -100
Forms == {"UTF8", "UTF16", "UTF32"}

ASSUME SlicesAssumption == Slices \subseteq Seq(Byte)
ASSUME SizesAssumption == Sizes \subseteq Int

VARIABLES
  text,       \* the slice
  form,       \* which of the three functions was called
  size,       \* of the buffer
  ptr,        \* the next character
  buffer,     \* what was stored in it
  written,
  full,
  result      \* NULL before the call returns

stringVars == <<text, form, size, ptr, buffer, written, full, result>>

\* The units of one character in encoding f.
Units(f, v) ==
  CASE f = "UTF8"  -> kason_utf8_encode(v)
    [] f = "UTF16" -> utf16_units(v)
    [] f = "UTF32" -> <<v>>

Init ==
  /\ text \in Slices /\ form \in Forms /\ size \in Sizes
  /\ ptr = 1 /\ buffer = << >> /\ written = 0 /\ full = FALSE /\ result = NULL

Return(value) == result' = value /\ UNCHANGED <<text, form, size, ptr, buffer, written, full>>

Refuse == result = NULL /\ size # NULL /\ size < 0 /\ Return(-1)

Reading == result = NULL /\ (size = NULL \/ size >= 0) /\ ptr <= Len(text)

\* Mutant: a character may fit after one that did not.
FitsAnyway(units) == Len(units) <= size - written
Fits(units) == ~full /\ Len(units) <= size - written
Count(units) ==
  /\ size = NULL /\ written' = written + Len(units) /\ UNCHANGED <<buffer, full>>
\* Mutant: one unit of a character is stored where two do not fit.
StoreSplit(units) ==
  /\ size # NULL /\ ~full /\ written < size
  /\ buffer' = Append(buffer, Head(units)) /\ written' = written + 1
  /\ UNCHANGED full
Store(units) ==
  /\ size # NULL /\ Fits(units)
  /\ buffer' = buffer \o units /\ written' = written + Len(units) /\ UNCHANGED full
Skip(units) ==
  /\ size # NULL /\ ~Fits(units) /\ full' = TRUE /\ UNCHANGED <<buffer, written>>

Put(char) ==
  /\ char.length > 0 /\ ptr' = ptr + char.length
  /\ \E units \in {Units(form, char.value)} : Count(units) \/ Store(units) \/ Skip(units)
  /\ UNCHANGED <<text, form, size, result>>
kason_strcpy ==
  /\ Reading
  /\ \E char \in {kason_string_next(text, ptr)} :
       Put(char) \/ (char.length = 0 /\ Return(-1))

\* Mutant: the rest is not read when the buffer is full.
FinishEarly ==
  /\ result = NULL /\ (size = NULL \/ size >= 0)
  /\ (ptr > Len(text) \/ full) /\ Return(written)
Finish ==
  /\ result = NULL /\ (size = NULL \/ size >= 0)
  /\ ptr > Len(text) /\ Return(written)

Next == Refuse \/ kason_strcpy \/ Finish
Spec == Init /\ [][Next]_stringVars

-----------------------------------------------------------------------------
\* The units of the first n characters.
UnitsOf(f, scalars, n) ==
  LET units[k \in 0..Len(scalars)] ==
        IF k = 0 THEN << >> ELSE units[k - 1] \o Units(f, scalars[k])
  IN  units[n]

(* A string is refused just when it is malformed, wherever the buffer      *)
(* became full before.                                                     *)
MalformedIsRefused ==
  result # NULL /\ (size = NULL \/ size >= 0) =>
    (result = -1 <=> ~kason_string_is_valid(text))

(* What is stored is the longest prefix of whole characters that fits, and *)
(* the result is its length; without a buffer it is the length of all.     *)
CopyIsLongestPrefix ==
  result >= 0 => \A scalars \in {Characters(text)} :
    IF size = NULL THEN result = Len(UnitsOf(form, scalars, Len(scalars)))
    ELSE /\ result = Len(buffer) /\ result <= size
         /\ \E n \in 0..Len(scalars) :
              /\ buffer = UnitsOf(form, scalars, n)
              /\ n < Len(scalars) => Len(UnitsOf(form, scalars, n + 1)) > size

(* The result of a copy says whether the string is well-formed, and, if so,*)
(* how much of it was stored.                                              *)
CopyIsExact == MalformedIsRefused /\ CopyIsLongestPrefix

(* Two strings are ordered by their scalars, as sequences are, with the    *)
(* end before every scalar and a malformed rest before the end.            *)
Precedes(v, w) ==
  \E k \in DOMAIN v \cap DOMAIN w :
    v[k] < w[k] /\ \A j \in 1..(k - 1) : v[j] = w[j]
OrderOf(v, w) == CASE Precedes(v, w) -> -1 [] Precedes(w, v) -> 1 [] OTHER -> 0
ComparisonIsOrder ==
  ptr = 1 /\ form = "UTF8" /\ size = NULL => \A other \in Slices :
    kason_strcmp(text, other) = OrderOf(LooseScalars(text), LooseScalars(other))
=============================================================================
