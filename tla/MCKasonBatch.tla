---------------------------- MODULE MCKasonBatch ----------------------------
(***************************************************************************)
(* Documents for the batch parser: up to MCTokens tokens in any order, as  *)
(* they are, in an array and as the value of a member, and documents with  *)
(* nested and empty containers, blanks, duplicates and escaped names.      *)
(***************************************************************************)
EXTENDS KasonBatchRef

CONSTANT MCTokens

Str(t) == <<QUOTE>> \o t \o <<QUOTE>>
Obj(t) == <<OBJECT_START>> \o t \o <<OBJECT_END>>
Arr(t) == <<ARRAY_START>> \o t \o <<ARRAY_END>>
Member(k, v) == Str(k) \o <<COLON>> \o v
And(v, w) == v \o <<COMMA>> \o w

A == <<97>>
EscapedA == <<BACKSLASH, LETTER_U, 48, 48, 54, 49>>
One == <<49>>
Blank == <<32>>
KeyToken == <<QUOTE, 97, QUOTE, COLON>>
Tokens == {KeyToken, <<OBJECT_START>>, <<OBJECT_END>>, <<ARRAY_START>>,
           <<ARRAY_END>>, <<COMMA>>, One, Blank}
TokenStrings ==
  LET strings[n \in 0..MCTokens] ==
        IF n = 0 THEN {<< >>}
        ELSE strings[n - 1] \cup {s \o t : s \in strings[n - 1], t \in Tokens}
  IN  strings[MCTokens]

Values ==
  { One, Str(A), TEXT_TRUE, Arr(<< >>), Arr(Blank), Arr(One), Arr(And(One, Blank \o One \o Blank)),
    Obj(<< >>), Obj(Blank), Obj(Member(A, One)), Arr(Str(<<ARRAY_END>>)),
    Obj(Member(A, Str(<<OBJECT_END>>))), Arr(Arr(One)), Arr(And(Arr(One), Arr(One))),
    Arr(Obj(Member(A, And(One, One)))), Arr(<<97>>), Str(<<BACKSLASH, 120>>) }
Spelled ==
  {Obj(And(Member(k, v), Member(<<98>>, w) \o Blank)) : k \in {A, EscapedA}, v \in Values, w \in {One, Arr(Blank)}}
  \cup {Obj(And(Member(A, v), Member(EscapedA, One))) : v \in Values}
  \cup {Arr(And(v, Blank \o w)) : v, w \in Values}
Deep(n) == [k \in 1..(2 * n) |-> IF k <= n THEN ARRAY_START ELSE ARRAY_END]
DeepValue(n) ==
  [k \in 1..(2 * n + 1) |-> IF k <= n THEN ARRAY_START ELSE IF k = n + 1 THEN 49 ELSE ARRAY_END]
MCDocuments == TokenStrings \cup Spelled
  \cup {Arr(s) : s \in TokenStrings} \cup {Obj(KeyToken \o s) : s \in TokenStrings}
  \cup {Obj(KeyToken \o Deep(n)) : n \in 1..(MAX_NESTING + 3)}
  \cup {Deep(n) : n \in 1..(MAX_NESTING + 3)} \cup {DeepValue(n) : n \in 1..(MAX_NESTING + 3)}
MCKeys == {{A}, {A, <<98>>}}
MCNames == {A, EscapedA, <<99>>}
=============================================================================
