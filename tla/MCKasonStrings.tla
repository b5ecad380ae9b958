--------------------------- MODULE MCKasonStrings ---------------------------
(***************************************************************************)
(* Slices of up to MCLength pieces: characters of one to four bytes in     *)
(* UTF-8 and of one and two units in UTF-16, escaped and not, and pieces   *)
(* that are malformed alone or together with what follows.                 *)
(***************************************************************************)
EXTENDS KasonStrings

CONSTANT MCLength

U(d1, d2, d3, d4) == <<BACKSLASH, LETTER_U, d1, d2, d3, d4>>
Pieces ==
  { <<97>>, <<195, 169>>, <<226, 130, 172>>, <<240, 159, 152, 128>>,
    <<BACKSLASH, 110>>, <<BACKSLASH, QUOTE>>, U(48, 48, 101, 57),
    U(100, 56, 51, 100), U(100, 101, 48, 48), <<128>>, <<10>>, <<BACKSLASH>>, <<QUOTE>> }
Strings ==
  LET strings[n \in 0..MCLength] ==
        IF n = 0 THEN {<< >>}
        ELSE strings[n - 1] \cup {s \o t : s \in strings[n - 1], t \in Pieces}
  IN  strings[MCLength]
MCSlices == Strings
  \cup {<<97>> \o U(100, 56, 51, 100) \o U(100, 101, 48, 48) \o t : t \in Pieces}
MCSizes == {NULL} \cup (-1)..5
=============================================================================
