---------------------------- MODULE MCKasonScan ----------------------------
(***************************************************************************)
(* Documents for the action parser: every sequence of up to MCTokens       *)
(* tokens, so that brackets, keys and separators meet in every order, and  *)
(* documents with the spellings of strings, numbers and literals.          *)
(***************************************************************************)
EXTENDS KasonScanRef

CONSTANT MCTokens

Str(t) == <<QUOTE>> \o t \o <<QUOTE>>
Obj(t) == <<OBJECT_START>> \o t \o <<OBJECT_END>>
Arr(t) == <<ARRAY_START>> \o t \o <<ARRAY_END>>
Member(k, v) == Str(k) \o <<COLON>> \o v
And(v, w) == v \o <<COMMA>> \o w

KeyToken == <<QUOTE, 97, QUOTE, COLON>>
Tokens == {KeyToken, <<OBJECT_START>>, <<OBJECT_END>>, <<ARRAY_START>>,
           <<ARRAY_END>>, <<COMMA>>, <<49>>, <<32>>}
TokenStrings ==
  LET strings[n \in 0..MCTokens] ==
        IF n = 0 THEN {<< >>}
        ELSE strings[n - 1] \cup {s \o t : s \in strings[n - 1], t \in Tokens}
  IN  strings[MCTokens]

One == <<49>>
Spelled ==
  { Arr(And(TEXT_TRUE, And(TEXT_FALSE, TEXT_NULL \o <<32>>))),
    Arr(And(<<MINUS, 49, POINT, 53, 101, MINUS, 50>>, Str(<<BACKSLASH, QUOTE>>))),
    Obj(And(Member(<<BACKSLASH, QUOTE>>, Arr(Str(<<195, 169, 97>>))), Member(<< >>, One))),
    Obj(And(Member(<<97>>, Arr(And(One, One))), Member(<<98>>, Obj(Member(<<97>>, One))))),
    Arr(And(Arr(And(One, One)), And(Arr(One), Obj(<< >>)))),
    Str(<< >>) \o <<32>>, <<ZERO>>,
    \* not valid
    <<ZERO, 49>>, Arr(<<MINUS>>), Arr(<<49, POINT>>), TEXT_TRUE \o <<97>>,
    Arr(<<116, 114>>), Arr(<<49, 101>>), Str(<<BACKSLASH>>), Str(<<BACKSLASH, 10>>),
    Str(<<10>>), Str(<<128>>), Str(<<97, BACKSLASH, 120>>), Arr(Str(<<97>>) \o Str(<<97>>)),
    Obj(Str(<<97>>)), Obj(And(Member(<<97>>, One), One)),
    Obj(Member(<<97>>, Arr(And(One, One)) \o <<COMMA>>)), Arr(<<97>>), <<QUOTE, 97>> }

Deep(n) == [k \in 1..(2 * n) |-> IF k <= n THEN ARRAY_START ELSE ARRAY_END]
DeepValue(n) ==
  [k \in 1..(2 * n + 1) |-> IF k <= n THEN ARRAY_START ELSE IF k = n + 1 THEN 49 ELSE ARRAY_END]

MCDocuments == TokenStrings \cup Spelled
  \cup {Arr(s) : s \in TokenStrings} \cup {Obj(KeyToken \o s) : s \in TokenStrings}
  \cup {Deep(n) : n \in 1..(MAX_NESTING + 2)} \cup {DeepValue(n) : n \in 1..(MAX_NESTING + 2)}
=============================================================================
