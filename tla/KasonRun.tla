------------------------------ MODULE KasonRun ------------------------------
(***************************************************************************)
(* kason_parse_internal, the parser behind kason_parse_selected,           *)
(* kason_parse_container, kason_parse_array, kason_get_value, the deferred *)
(* forms and kason_unpack.  It reports the children of one container; what *)
(* is in a child it finds the end of by counting brackets, and validates   *)
(* by a run of its own over the child, before the child is reported.       *)
(*                                                                         *)
(* A run is a record; a step of it takes a key, a value, a separator or    *)
(* the end.  Accepts runs the same steps without a callback, which is what *)
(* the nested calls with kason_validate_callback do.                       *)
(***************************************************************************)
EXTENDS KasonText, KasonConfig

VARIABLE doc   \* what is parsed

Slice(first, last) == [begin |-> first, end |-> last]
SliceText(slice) == SubSeq(doc, slice.begin, slice.end)
First(positions, otherwise) ==
  CHOOSE p \in positions \cup {otherwise} : \A q \in positions : p <= q
Skip(p, last) == First({q \in p..last : ~is_whitespace(doc[q])}, last + 1)

-----------------------------------------------------------------------------
(***************************************************************************)
(* Tokens.                                                                 *)
(***************************************************************************)
\* The closing quote of a string whose text begins at p; 0: none, a control
\* character, or an escape that is not one.
EscapeLength(p, last) ==
  IF p + 1 <= last /\ is_simple_escape(At(doc, p + 1)) THEN 2
  ELSE IF p + 5 <= last /\ At(doc, p + 1) = LETTER_U /\ HexAt(doc, p + 2) THEN 6 ELSE 0
StringEnd(p, last) ==
  LET end[q \in Nat] ==
        IF q > last \/ is_control_char(At(doc, q)) THEN 0
        ELSE IF doc[q] = QUOTE THEN q
        ELSE IF doc[q] # BACKSLASH THEN end[q + 1]
        ELSE IF EscapeLength(q, last) = 0 THEN 0 ELSE end[q + EscapeLength(q, last)]
  IN  end[p]

\* The ends of the text of a key or string are its quotes.
NeedsValidation(text) == \E k \in DOMAIN text : text[k] = BACKSLASH \/ text[k] >= 128
TextIsRead(text) == NeedsValidation(text) => kason_string_is_valid(text)

\* A child: its descriptor, the position at which it is committed, its count.
Found(type, first, last, at, count) ==
  [type |-> type, begin |-> first, end |-> last, at |-> at, count |-> count]
NotFound == Found("INVALID", 0, 0, 0, 0)

StringValue(p, close) ==
  IF close = 0 \/ ~TextIsRead(SubSeq(doc, p + 1, close - 1)) THEN NotFound
  ELSE Found("STRING", p + 1, close - 1, close, 1)

\* A scalar goes up to a separator, a blank, the end token of the run, or
\* the last byte, which belongs to it unless it is one of the last two.
EndTokens(mode) ==
  CASE mode = "OBJECT" -> {OBJECT_END} [] mode = "ARRAY" -> {ARRAY_END} [] OTHER -> {}
Ends(c, mode) == is_whitespace(c) \/ c \in EndTokens(mode)
ScalarUpTo(p, q, last, mode) ==
  LET final == IF q = p \/ (q = last /\ ~Ends(doc[q], mode)) THEN q ELSE q - 1
  IN  Found(ScalarType(SubSeq(doc, p, final)), p, final, q, 1)
ScalarEnd(p, last, mode) ==
  First({q \in (p + 1)..last : doc[q] = COMMA \/ Ends(doc[q], mode)}, last)
ScalarValue(p, last, mode) == ScalarUpTo(p, ScalarEnd(p, last, mode), last, mode)

\* check_end: where the brackets opened at p close, counted separately, and
\* the separators right below it.
Change(c, opening, closing) == CASE c = opening -> 1 [] c = closing -> -1 [] OTHER -> 0
PastString(q, last) == StringEnd(q + 1, last)
Unclosed == [at |-> 0, separators |-> 0]
Separates(q, arrays, objects) ==
  IF doc[q] = COMMA /\ arrays = 1 /\ objects = 0 THEN 1 ELSE 0
\* A position, the brackets and the braces open there, and the separators.
Counts == [q : Nat, arrays : Int, objects : Int, separators : Nat]
PastByte(at) ==
  [q |-> at.q + 1, arrays |-> at.arrays + Change(doc[at.q], ARRAY_START, ARRAY_END),
   objects |-> at.objects + Change(doc[at.q], OBJECT_START, OBJECT_END),
   separators |-> at.separators + Separates(at.q, at.arrays, at.objects)]
check_end(p, last) ==
  LET array == IF doc[p] = ARRAY_START THEN 1 ELSE 0
      scan[at \in Counts] ==
        IF at.arrays < 0 \/ at.objects < 0 THEN Unclosed
        ELSE IF (IF array = 1 THEN at.arrays ELSE at.objects) = 0
        THEN [at |-> at.q - 1, separators |-> at.separators]
        ELSE IF at.q > last THEN Unclosed
        ELSE IF At(doc, at.q) # QUOTE THEN scan[PastByte(at)]
        ELSE IF PastString(at.q, last) = 0 THEN Unclosed
        ELSE scan[[at EXCEPT !.q = PastString(at.q, last) + 1]]
  IN  scan[[q |-> p + 1, arrays |-> array, objects |-> 1 - array, separators |-> 0]]

ObjectValue(p, close) ==
  IF close.at = 0 THEN NotFound ELSE Found("OBJECT", p, close.at, close.at, 1)
\* The descriptor of an array is its contents without brackets and blanks.
Trimmed(p, at) == CHOOSE q \in p..(at - 1) :
  ~is_whitespace(doc[q]) /\ \A r \in (q + 1)..(at - 1) : is_whitespace(doc[r])
ArrayUpTo(p, final, close) ==
  IF final = p THEN Found("ARRAY", p + 1, p, close.at, 0)
  ELSE IF doc[final] = COMMA THEN NotFound
  ELSE Found("ARRAY", p + 1, final, close.at, close.separators + 1)
ArrayValue(p, close) ==
  IF close.at = 0 THEN NotFound ELSE ArrayUpTo(p, Trimmed(p, close.at), close)

ValueAt(p, last, mode) ==
  IF p > last THEN NotFound
  ELSE IF At(doc, p) = QUOTE THEN StringValue(p, StringEnd(p + 1, last))
  ELSE IF At(doc, p) = OBJECT_START THEN ObjectValue(p, check_end(p, last))
  ELSE IF At(doc, p) = ARRAY_START THEN ArrayValue(p, check_end(p, last))
  ELSE ScalarValue(p, last, mode)

-----------------------------------------------------------------------------
(***************************************************************************)
(* Runs.                                                                   *)
(***************************************************************************)
Modes == {"OBJECT", "ARRAY", "STRING", "GENERIC"}
Run == [mode : Modes, root_array : BOOLEAN, ptr : Int, last : Int, depth : Nat,
        validate : BOOLEAN, key : Seq([begin : Nat, end : Int]),
        has_entries : BOOLEAN,
        state : {"KEY_BEGIN", "VALUE_BEGIN", "PARAM_SEPARATOR", "COMPLETE",
                 "SUCCESS", "ERROR"}]

TooDeep(depth) == depth > MAX_NESTING
Started(mode, root_array, ptr, slice, depth, validate) ==
  [mode |-> mode, root_array |-> root_array, ptr |-> ptr, last |-> slice.end,
   depth |-> depth, validate |-> validate, key |-> << >>, has_entries |-> FALSE,
   state |-> IF TooDeep(depth) \/ ptr > slice.end THEN "ERROR"
             ELSE IF mode = "OBJECT" THEN "KEY_BEGIN" ELSE "VALUE_BEGIN"]
RunArray(slice, depth, validate) ==
  Started("ARRAY", FALSE, slice.begin, slice, depth, validate)
RunFrom(p, slice, depth, validate) ==
  IF At(doc, p) = OBJECT_START THEN Started("OBJECT", FALSE, p + 1, slice, depth, validate)
  ELSE IF At(doc, p) = ARRAY_START THEN Started("ARRAY", TRUE, p, slice, depth, validate)
  ELSE IF At(doc, p) = QUOTE THEN Started("STRING", FALSE, p, slice, depth, validate)
  ELSE Started("GENERIC", FALSE, p, slice, depth, validate)
\* M_AUTO: the first byte decides.
RunAuto(slice, depth, validate) ==
  RunFrom(Skip(slice.begin, slice.end), slice, depth, validate)

Goto(r, state, ptr) == [r EXCEPT !.state = state, !.ptr = ptr]
Ended(r, ok) == [r EXCEPT !.state = IF ok THEN "SUCCESS" ELSE "ERROR"]

KeyRead(r, slice, colon) ==
  IF slice.end = -1 \/ ~TextIsRead(SliceText(slice)) \/ colon > r.last \/ At(doc, colon) # COLON
  THEN Ended(r, FALSE)
  ELSE [Goto(r, "VALUE_BEGIN", colon + 1) EXCEPT !.key = <<slice>>]
KeyUpTo(r, p, close) == KeyRead(r, Slice(p + 1, close - 1), Skip(close + 1, r.last))
\* Mutant: an object may be closed after a separator.
KeyBeginClosing(r, p) ==
  IF p > r.last THEN Ended(r, FALSE)
  ELSE IF At(doc, p) = OBJECT_END THEN Goto(r, "COMPLETE", p + 1)
  ELSE IF At(doc, p) = QUOTE THEN KeyUpTo(r, p, StringEnd(p + 1, r.last))
  ELSE Ended(r, FALSE)
KeyBegin(r, p) ==
  IF p > r.last THEN Ended(r, FALSE)
  ELSE IF At(doc, p) = OBJECT_END /\ ~r.has_entries THEN Goto(r, "COMPLETE", p + 1)
  ELSE IF At(doc, p) = QUOTE THEN KeyUpTo(r, p, StringEnd(p + 1, r.last))
  ELSE Ended(r, FALSE)

AfterSeparator(r) == IF r.mode = "OBJECT" THEN "KEY_BEGIN" ELSE "VALUE_BEGIN"
ParamSeparator(r, p) ==
  IF p > r.last THEN Ended(r, r.mode = "ARRAY")
  ELSE IF At(doc, p) = COMMA THEN Goto(r, AfterSeparator(r), p + 1)
  ELSE IF At(doc, p) = OBJECT_END /\ r.mode = "OBJECT" THEN Goto(r, "COMPLETE", p + 1)
  ELSE Ended(r, FALSE)

\* A step that takes no value.
Advance(r, p) ==
  CASE r.state = "KEY_BEGIN"       -> KeyBegin(r, p)
    [] r.state = "PARAM_SEPARATOR" -> ParamSeparator(r, p)
    [] r.state = "COMPLETE"        -> Ended(r, p > r.last)
Advanced(r) == Advance(r, Skip(r.ptr, r.last))
ValueOf(r) == ValueAt(Skip(r.ptr, r.last), r.last, r.mode)

\* After a value; the byte at which it was committed may be a separator.
CommittedTo(r, value) ==
  CASE r.mode \in {"STRING", "GENERIC"} \/ r.root_array -> "COMPLETE"
    [] r.mode = "OBJECT" /\ value.type # "OBJECT" /\ doc[value.at] = OBJECT_END -> "COMPLETE"
    [] ~r.root_array /\ r.mode \in {"OBJECT", "ARRAY"} /\ doc[value.at] = COMMA ->
         AfterSeparator(r)
    [] OTHER -> "PARAM_SEPARATOR"
Commit(r, value) ==
  [Goto(r, CommittedTo(r, value), value.at + 1) EXCEPT !.has_entries = TRUE, !.key = << >>]

\* The run that validates a value, one level deeper but for the root array.
Validates(r, value) ==
  r.validate /\ (value.type = "OBJECT" \/ (value.type = "ARRAY" /\ value.count > 0))
Nested(r, value) ==
  IF value.type = "ARRAY"
  THEN RunArray(Slice(value.begin, value.end), r.depth + IF r.root_array THEN 0 ELSE 1, TRUE)
  ELSE RunAuto(Slice(value.begin, value.end), r.depth + 1, TRUE)

Accepts[r \in Run] ==
  CASE r.state \in {"SUCCESS", "ERROR"} -> r.state = "SUCCESS"
    [] r.state = "VALUE_BEGIN" ->
         \E value \in {ValueOf(r)} :
           /\ value.type # "INVALID"
           /\ Validates(r, value) => Accepts[Nested(r, value)]
           /\ Accepts[Commit(r, value)]
    [] OTHER -> Accepts[Advanced(r)]
\* Mutant: what is in a container is not validated.
ValidUnseen(r, value) == value.type # "INVALID"
Valid(r, value) ==
  value.type # "INVALID" /\ (Validates(r, value) => Accepts[Nested(r, value)])

IsContainer(value) == value.type \in {"OBJECT", "ARRAY"}

(***************************************************************************)
(* The run of kason_parse_container over a slice that was reported: the    *)
(* contents of an array, with brackets or without.                         *)
(***************************************************************************)
Bracketed(slice) == doc[slice.begin] = ARRAY_START /\ At(doc, slice.end) = ARRAY_END
Success == [RunArray(Slice(1, 0), 0, TRUE) EXCEPT !.state = "SUCCESS"]
\* Mutant: the brackets are left to the run.
ContainerRunBracketed(slice) ==
  IF slice.type = "OBJECT" THEN RunAuto(slice, 0, TRUE)
  ELSE IF slice.begin > slice.end THEN Success ELSE RunArray(slice, 0, TRUE)
ContainerRun(slice) ==
  IF slice.type = "OBJECT" THEN RunAuto(slice, 0, TRUE)
  ELSE IF Bracketed(slice)
  THEN IF slice.begin + 1 = slice.end THEN Success
       ELSE RunArray(Slice(slice.begin + 1, slice.end - 1), 0, TRUE)
  ELSE IF slice.begin > slice.end THEN Success ELSE RunArray(slice, 0, TRUE)
=============================================================================
