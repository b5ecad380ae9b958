--------------------------- MODULE MCKasonStream ---------------------------
(***************************************************************************)
(* Documents for the chunked parser.  MCChunks offers every next chunk of  *)
(* every document; MCShortChunks offers every byte string over a small     *)
(* alphabet.                                                               *)
(***************************************************************************)
EXTENDS KasonStreamRef

Str(t) == <<QUOTE>> \o t \o <<QUOTE>>
Obj(t) == <<OBJECT_START>> \o t \o <<OBJECT_END>>
Arr(t) == <<ARRAY_START>> \o t \o <<ARRAY_END>>
Member(k, v) == Str(k) \o <<COLON>> \o v
And(v, w) == v \o <<COMMA>> \o w
Unicode(h) == <<BACKSLASH, LETTER_U>> \o h

SPACE   == <<32>>
A       == <<97>>
EscapedQuote == <<BACKSLASH, QUOTE>>
EAcute  == <<195, 169>>                      \* U+00E9 in UTF-8
Overlong == <<224, 128, 128>>
High    == Unicode(<<100, 56, 51, 100>>)     \* \ud83d
Low     == Unicode(<<100, 69, 48, 48>>)      \* \udE00
Number  == <<45, 49, 46, 53, 101, 50>>       \* -1.5e2

SmallDocuments ==
  { Obj(And(Member(EscapedQuote, Str(A \o EAcute)), Member(<< >>, Number))),
    Arr(And(Obj(Member(A, Arr(Str(<<ARRAY_END>>)))), SPACE \o TEXT_TRUE)),
    Obj(Member(A, Arr(Obj(<< >>)))) \o SPACE,
    Arr(And(<<49, 50>>, Str(A \o A))),
    Str(Unicode(<<48, 48, 101, 57>>)),
    SPACE \o Number,
    Arr(SPACE), Obj(<< >>),
    \* not valid
    Obj(Member(A, <<49>>) \o <<COMMA>>),
    Arr(<<48, 49>>),
    Arr(Obj(<<ARRAY_START, OBJECT_END, ARRAY_END>>)),
    Obj(Str(A) \o SPACE \o <<49>>),
    Obj(<< >>) \o A,
    Str(High \o A), Str(Overlong), Arr(Str(<<BACKSLASH, 120>>)),
    Str(<<10>>), <<48, 49, 32>>, SPACE \o Number \o SPACE \o <<48>> }

SurrogateDocuments ==
  { Str(High \o Low), Arr(Arr(Str(High \o Low))),
    \* not valid
    Arr(Arr(Str(High \o A))), Arr(Arr(Str(Low))),
    Arr(Arr(Str(Overlong))), Arr(Arr(Str(High \o Unicode(<<48, 48, 48, 48>>)))) }

MCDocuments == SmallDocuments \cup SurrogateDocuments

MCChunks(given) ==
  { SubSeq(d, Len(given) + 1, last) :
      <<d, last>> \in { x \in MCDocuments \X (Len(given)..30) :
                          IsPrefix(given, x[1]) /\ x[2] <= Len(x[1]) } }

-----------------------------------------------------------------------------
(***************************************************************************)
(* Every string of up to MCLength bytes over the bytes that matter to the  *)
(* grammar, in chunks of up to two bytes.                                  *)
(***************************************************************************)
MCLength == 5
MCAlphabet == {32, QUOTE, COMMA, 49, COLON, ARRAY_START, ARRAY_END,
               OBJECT_START, OBJECT_END}
MCStrings == { s \o << >> : s \in UNION { [1..n -> MCAlphabet] : n \in 0..MCLength } }
MCShortChunks(given) ==
  UNION { [1..n -> MCAlphabet] :
            n \in 0..(IF MCLength - Len(given) < 2
                      THEN MCLength - Len(given) ELSE 2) }

MCAllDocuments == MCDocuments \cup MCStrings
MCAllChunks(given) == MCChunks(given) \cup MCShortChunks(given)
=============================================================================
