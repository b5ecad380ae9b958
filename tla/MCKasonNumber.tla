--------------------------- MODULE MCKasonNumber ---------------------------
(***************************************************************************)
(* Numbers of 8 bits: every text of up to MCLength bytes of MCAlphabet,    *)
(* the numbers around the ends of each range, with fractions and           *)
(* exponents, and doubles with more digits than a significand holds.       *)
(***************************************************************************)
EXTENDS KasonNumberRef

CONSTANTS MCLength, MCAlphabet

Words ==
  LET words[n \in 0..MCLength] ==
        IF n = 0 THEN {<< >>}
        ELSE words[n - 1] \cup {w \o <<c>> : w \in words[n - 1], c \in MCAlphabet}
  IN  words[MCLength]

Decimal(n) ==
  LET digits[m \in Nat] == (IF m < 10 THEN << >> ELSE digits[m \div 10]) \o <<ZERO + (m % 10)>>
  IN  digits[n]
Edges == {62, 63, 64, 65, 126, 127, 128, 129, 249, 250, 254, 255, 256, 257, 1270, 2550, 2559}
Suffixes == {<< >>, <<POINT, 53>>, <<101, 49>>}
EdgeTexts == {sign \o Decimal(n) \o suffix : sign \in {<< >>, <<MINUS>>}, n \in Edges, suffix \in Suffixes}

Fractions == {<<ZERO, POINT, 49, 52, 53>>, <<ZERO, POINT, ZERO, ZERO, 57, 57, 53>>,
              <<49, 53, ZERO, 53, POINT, ZERO, 57>>, <<49, 52, 57, 57>>, <<49, 53, 52, 101, MINUS, 51>>}
Long == <<ZERO, POINT, ZERO, ZERO, ZERO, ZERO, ZERO, ZERO, 49, 101, 54>>
MCTexts == Words \cup EdgeTexts \cup Fractions \cup {Long}
=============================================================================
