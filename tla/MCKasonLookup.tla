--------------------------- MODULE MCKasonLookup ---------------------------
(***************************************************************************)
(* Keys that collide: two of the same length, first four and last four     *)
(* bytes, and a hash with few values.  Names spell them plainly, with      *)
(* escapes, in UTF-8, or not at all.                                       *)
(***************************************************************************)
EXTENDS KasonLookup

a == <<97>>
long(c) == <<97, 98, 99, 100, c, 101, 102, 103, 104>>     \* abcd?efgh
eacute  == <<195, 169>>
u(x, y) == <<BACKSLASH, LETTER_U, 48, 48, x, y>>

MCKeys == {<< >>, a, <<97, 10>>, eacute, long(88), long(89)}
MCTexts ==
  (MCKeys \ {<<97, 10>>}) \cup
  { u(54, 49), u(101, 57), <<97, BACKSLASH, 110>>, long(90),
    <<97, 98, 99, 100>> \o u(53, 57) \o <<101, 102, 103, 104>>,
    u(54, 49) \o <<98, 99, 100, 88, 101, 102, 103, 104>>, <<99>>,
    <<BACKSLASH, LETTER_U, 100, 56, 48, 48>>, <<195, 40>>, <<BACKSLASH, 120>> }
MCDecode == [t \in MCTexts |-> Decoded(t)]
MCParts == {kason_hash_bytes(k) :
             k \in MCKeys \cup {MCDecode[t].bytes : t \in MCTexts}}
MCMix == [p \in MCParts |-> (p.length + p.first[1] + p.last[3]) % 3]
=============================================================================
