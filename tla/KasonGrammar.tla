---------------------------- MODULE KasonGrammar ----------------------------
(***************************************************************************)
(* A reference grammar over whole documents, without chunks, scratch or    *)
(* states.  Parse reads a shallow JSON text (a container below the root is *)
(* a bracketed run whose strings are valid) and lists the entries of the   *)
(* root.  What the parsers accept and what kason_pack produces are both    *)
(* compared with it.                                                       *)
(***************************************************************************)
EXTENDS KasonText, SequencesExt

\* Something read from a document: its last position and what it is.
Reading == [end : Nat, type : STRING, data : Seq(Byte)]
Bad  == [end |-> 0, type |-> "INVALID", data |-> << >>]

WhitespaceEnd(s, p) ==
  CHOOSE q \in p..(Len(s) + 1) :
    /\ ~is_whitespace(At(s, q))
    /\ \A k \in p..(q - 1) : is_whitespace(s[k])

\* s[q] is a quote that no odd run of backslashes escapes.
IsCloseQuote(s, p, q) ==
  /\ s[q] = QUOTE
  /\ \E n \in 0..(q - p - 1) :
       /\ n % 2 = 0
       /\ \A k \in (q - n)..(q - 1) : s[k] = BACKSLASH
       /\ q - n - 1 = p \/ s[q - n - 1] # BACKSLASH

StringUpTo(last, text) ==
  IF kason_string_is_valid(text)
  THEN [end |-> last, type |-> "STRING", data |-> text]
  ELSE Bad

StringWithin(s, p, closing) ==
  IF closing = {} THEN Bad
  ELSE StringUpTo(Min(closing), SubSeq(s, p + 1, Min(closing) - 1))
StringAt(s, p) ==
  StringWithin(s, p, {q \in (p + 1)..Len(s) : IsCloseQuote(s, p, q)})

\* Where the bracket at p closes, 0 when it does not.
BracketsEnd(s, p) ==
  LET closing[q \in Nat, open \in Seq(Byte)] ==
        CASE q > Len(s)          -> 0
          [] At(s, q) = QUOTE    ->
               CHOOSE e \in {IF string.end = 0 THEN 0
                             ELSE closing[string.end + 1, open] :
                               string \in {StringAt(s, q)}} : TRUE
          [] Opens(At(s, q))     -> closing[q + 1, <<s[q]>> \o open]
          [] Closes(At(s, q))    ->
               CASE ~kason_stream_container_match(Head(open), s[q]) -> 0
                 [] Len(open) = 1 -> q
                 [] OTHER         -> closing[q + 1, Tail(open)]
          [] OTHER               -> closing[q + 1, open]
  IN  closing[p, << >>]

ContainerUpTo(s, p, last) ==
  IF last = 0 THEN Bad
  ELSE [end |-> last, data |-> SubSeq(s, p, last),
        type |-> IF s[p] = OBJECT_START THEN "OBJECT" ELSE "ARRAY"]
ContainerAt(s, p) == ContainerUpTo(s, p, BracketsEnd(s, p))

ScalarUpTo(last, text, type) ==
  IF type = "INVALID" THEN Bad ELSE [end |-> last, type |-> type, data |-> text]

ScalarText(last, text) == ScalarUpTo(last, text, ScalarType(text))
ScalarAt(s, p) ==
  LET last == Min({q \in p..Len(s) :
                     \/ q = Len(s) \/ is_whitespace(s[q + 1])
                     \/ s[q + 1] \in {COMMA, OBJECT_END, ARRAY_END}})
  IN  ScalarText(last, SubSeq(s, p, last))

ValueAt(s, p) ==
  CASE p > Len(s)       -> Bad
    [] At(s, p) = QUOTE -> StringAt(s, p)
    [] Opens(At(s, p))  -> ContainerAt(s, p)
    [] OTHER            -> ScalarAt(s, p)

Whole(s, p) == WhitespaceEnd(s, p) = Len(s) + 1
Rejected == [ok |-> FALSE, entries |-> << >>]

\* A member or an element, and where the next token stands.
Item(s, key, value) ==
  [key |-> key, value |-> value, after |-> WhitespaceEnd(s, value.end + 1)]
NoItem == [key |-> << >>, value |-> Bad, after |-> 0]

ElementAt(s, p) == Item(s, << >>, ValueAt(s, WhitespaceEnd(s, p)))
KeyedMember(s, key, colon) ==
  IF key.end = 0 \/ At(s, colon) # COLON THEN NoItem
  ELSE Item(s, <<key.data>>, ValueAt(s, WhitespaceEnd(s, colon + 1)))
MemberNamed(s, key) == KeyedMember(s, key, WhitespaceEnd(s, key.end + 1))
MemberAt(s, p) ==
  MemberNamed(s, IF At(s, p) = QUOTE THEN StringAt(s, p) ELSE Bad)

ItemAt(s, p, close) ==
  IF close = OBJECT_END THEN MemberAt(s, WhitespaceEnd(s, p)) ELSE ElementAt(s, p)
Complete(key, value) ==
  [key |-> key, type |-> value.type, data |-> value.data, open |-> FALSE]
Read(item) == Complete(item.key, item.value)

\* The entries from start on, where one must stand, up to the end of the root.
EntriesFrom(s, start, close) ==
  LET reading[item \in [key : Seq(Seq(Byte)), value : Reading, after : Nat],
              entries \in Seq([key : Seq(Seq(Byte)), type : STRING,
                              data : Seq(Byte), open : {FALSE}])] ==
        CASE item.value.end = 0 -> Rejected
          [] item.value.end > 0 /\ At(s, item.after) = COMMA ->
               reading[ItemAt(s, item.after + 1, close), Append(entries, Read(item))]
          [] item.value.end > 0 /\ At(s, item.after) = close ->
               [ok |-> Whole(s, item.after + 1), entries |-> Append(entries, Read(item))]
          [] OTHER -> Rejected
  IN  reading[ItemAt(s, start, close), << >>]

ParseEntries(s, p, close) ==
  IF At(s, WhitespaceEnd(s, p)) = close
  THEN [ok |-> Whole(s, WhitespaceEnd(s, p) + 1), entries |-> << >>]
  ELSE EntriesFrom(s, p, close)

ParseValue(s, root) ==
  IF root.end = 0 THEN Rejected
  ELSE [ok |-> Whole(s, root.end + 1),
        entries |-> <<Complete(<< >>, root)>>]

ParseFrom(s, p) ==
  CASE p > Len(s)      -> Rejected
    [] Opens(At(s, p)) ->
         ParseEntries(s, p + 1,
           IF s[p] = OBJECT_START THEN OBJECT_END ELSE ARRAY_END)
    [] OTHER           -> ParseValue(s, ValueAt(s, p))

Parse(s) == ParseFrom(s, WhitespaceEnd(s, 1))
=============================================================================
