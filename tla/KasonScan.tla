----------------------------- MODULE KasonScan -----------------------------
(***************************************************************************)
(* The action parser: kason_parse and kason_parse_range.  It reads a       *)
(* document once, byte by byte and by recursive descent, calls the         *)
(* callback at the begin of a container, at its end and at a primitive,    *)
(* and does with a container what the callback answers: ENTER, CAPTURE,    *)
(* SKIP or BREAK.                                                          *)
(*                                                                         *)
(* The C stack is the sequence of frames `stack`, innermost first: a frame *)
(* is a call of kason_scan_container.  A step is what the code does from   *)
(* one value, key or separator to the next, with the call of the callback  *)
(* in it.  A slice of the range is [begin, end], both inclusive.           *)
(***************************************************************************)
EXTENDS KasonText

CONSTANTS
  Documents,     \* the ranges an application may pass
  Answers,       \* what its callback may return
  MAX_NESTING    \* KaSON_MAX_NESTING

ENTER   == 0     \* also KaSON_CALLBACK_CONTINUE
BREAK   == 1
CAPTURE == 2
SKIP    == 3

ASSUME DocumentsAssumption == Documents \subseteq Seq(Byte)
ASSUME AnswersAssumption == Answers \subseteq Int
ASSUME NestingAssumption == MAX_NESTING \in Nat

VARIABLES
  doc,       \* the bytes from begin to end
  cursor,    \* the next byte to read
  pc,        \* what stands there
  key,       \* slice of the key of the value at the cursor: none or one
  stack,     \* the open containers
  stopped,   \* scan->stopped
  result,    \* of the call, NONE before it returns
  events     \* history: the calls of the callback

scanVars == <<doc, cursor, pc, key, stack, stopped, result, events>>

Slice(first, last) == [begin |-> first, end |-> last]
Text(slice) == SubSeq(doc, slice.begin, slice.end)
CloseOf(type) == IF type = "OBJECT" THEN OBJECT_END ELSE ARRAY_END
TypeAt(p) == IF doc[p] = OBJECT_START THEN "OBJECT" ELSE "ARRAY"

-----------------------------------------------------------------------------
\* The smallest position of a set, past the end when there is none.
First(positions) ==
  CHOOSE p \in positions \cup {Len(doc) + 1} : \A q \in positions : p <= q

kason_scan_has(p) == p <= Len(doc)
kason_scan_whitespace(p) == First({q \in p..Len(doc) : ~is_whitespace(doc[q])})

\* The closing quote of the string that opens at p, 0 when it is malformed.
\* A control character behind a backslash is left to kason_string_is_valid.
NeedsValidation(text) == \E k \in DOMAIN text : text[k] = BACKSLASH \/ text[k] >= 128
TextIsRead(text) == NeedsValidation(text) => kason_string_is_valid(text)
StringIsRead(p, q) ==
  kason_scan_has(q) /\ doc[q] = QUOTE /\ TextIsRead(SubSeq(doc, p + 1, q - 1))
\* Mutant: a quote ends the string whatever stands before it.
kason_scan_string_unescaped(p) ==
  LET q == First({r \in (p + 1)..Len(doc) : doc[r] = QUOTE \/ is_control_char(doc[r])})
  IN  IF StringIsRead(p, q) THEN q ELSE 0
kason_scan_string(p) ==
  LET escape[q \in Nat] == q > p + 1 /\ doc[q - 1] = BACKSLASH /\ ~escape[q - 1]
      q == First({r \in (p + 1)..Len(doc) :
                    ~escape[r] /\ (doc[r] = QUOTE \/ is_control_char(doc[r]))})
  IN  IF StringIsRead(p, q) THEN q ELSE 0

\* The last byte of the number or literal at p, 0 when it is malformed.  What
\* follows it is not looked at.
NumberEnd(s) == ExponentEnd(s, FractionEnd(s, IntegerEnd(s)))
EndingAt(p, next) == IF next = 0 THEN 0 ELSE p + next - 2
kason_scan_number(p) == EndingAt(p, NumberEnd(SubSeq(doc, p, Len(doc))))

Spells(p, literal) ==
  /\ p + Len(literal) - 1 <= Len(doc)
  /\ SubSeq(doc, p, p + Len(literal) - 1) = literal
kason_scan_literal(p) ==
  CASE Spells(p, TEXT_TRUE)  -> [type |-> "TRUE", end |-> p + 3]
    [] Spells(p, TEXT_FALSE) -> [type |-> "FALSE", end |-> p + 4]
    [] Spells(p, TEXT_NULL)  -> [type |-> "NULL", end |-> p + 3]
    [] OTHER                 -> [type |-> "INVALID", end |-> 0]

\* The primitive at p: its type, its slice and its last byte, 0 on an error.
Malformed == [type |-> "INVALID", begin |-> 0, end |-> 0, last |-> 0]
Token(type, first, final, last) ==
  IF last = 0 THEN Malformed
  ELSE [type |-> type, begin |-> first, end |-> final, last |-> last]
StringToken(p, q) == Token("STRING", p + 1, q - 1, q)
LiteralToken(p, literal) == Token(literal.type, p, literal.end, literal.end)
NumberToken(p, q) == Token("NUMBER", p, q, q)
Primitive(p) ==
  CASE ~kason_scan_has(p)      -> Malformed
    [] At(doc, p) = QUOTE      -> StringToken(p, kason_scan_string(p))
    [] At(doc, p) = MINUS \/ is_digit(At(doc, p)) ->
                                  NumberToken(p, kason_scan_number(p))
    [] OTHER                   -> LiteralToken(p, kason_scan_literal(p))

-----------------------------------------------------------------------------
(***************************************************************************)
(* The callback, and the ways a step ends.                                 *)
(***************************************************************************)
Event(event, type, of, first, last, count, answer) ==
  [event |-> event, type |-> type, key |-> of, begin |-> first, end |-> last,
   count |-> count, answer |-> answer]

kason_scan_emit(event) ==
  /\ events' = Append(events, event)
  /\ stopped' = (event.answer = BREAK)
Silent == UNCHANGED <<events, stopped>>

Return(code) == result' = code /\ pc' = "done" /\ UNCHANGED <<cursor, key, stack>>
Fail == Return("ERROR")
FailSilently == Fail /\ Silent

\* The children of the innermost container are reported.
\* Mutant: only the root's children are reported.
EnteredRoot == stack # << >> => (Len(stack) = 1 /\ Head(stack).action = ENTER)
Entered == stack # << >> => (Head(stack).emit /\ Head(stack).action = ENTER)

Frame(type, opening, of, emit, action) ==
  [type |-> type, opening |-> opening, key |-> of, emit |-> emit,
   action |-> action, count |-> 0]
\* Mutant: children are counted only when they are reported.
CountedReported(frame) ==
  IF frame.action = ENTER THEN [frame EXCEPT !.count = @ + 1] ELSE frame
Counted(frame) == [frame EXCEPT !.count = @ + 1]

\* A value ends at position last: its container, if any, goes on.
ValueDone(last, rest) ==
  /\ cursor' = kason_scan_whitespace(last + 1)
  /\ key' = << >> /\ UNCHANGED result
  /\ IF rest = << >> THEN pc' = "trailing" /\ stack' = << >>
                     ELSE pc' = "after" /\ stack' = <<Counted(Head(rest))>> \o Tail(rest)

-----------------------------------------------------------------------------
\* kason_parse and kason_parse_range, up to the first value.
Call(withCallback) ==
  /\ pc = "idle" /\ cursor' = kason_scan_whitespace(1)
  /\ UNCHANGED <<doc, key, stack, stopped, events>>
  /\ IF doc # << >> /\ withCallback
     THEN pc' = "value" /\ UNCHANGED result
     ELSE /\ pc' = "done"
          /\ result' = IF doc = << >> THEN "ERROR" ELSE "NULL_CALLBACK"

\* Mutant: a level too many.
TooDeepByOne == Len(stack) > MAX_NESTING + 1
TooDeep == Len(stack) > MAX_NESTING
Nested ==
  pc = "value" /\ kason_scan_has(cursor) /\ Opens(doc[cursor]) /\ ~TooDeep
Push(emit, action) ==
  /\ stack' = <<Frame(TypeAt(cursor), cursor, key, emit, action)>> \o stack
  /\ cursor' = kason_scan_whitespace(cursor + 1)
  /\ pc' = "first" /\ key' = << >> /\ UNCHANGED result

Begin(answer) ==
  /\ Nested /\ Entered
  /\ kason_scan_emit(Event("BEGIN", TypeAt(cursor), key, cursor, 0, 0, answer))
  /\ CASE answer = BREAK                    -> Return("SUCCESS")
       [] answer \in {ENTER, CAPTURE, SKIP} -> Push(TRUE, answer)
       [] OTHER                             -> Fail
  /\ UNCHANGED doc
BeginSilently ==
  /\ Nested /\ ~Entered
  /\ Push(FALSE, SKIP) /\ Silent /\ UNCHANGED doc

\* The closing bracket, of an empty container or after a child.
AtClose ==
  /\ pc \in {"first", "after"} /\ kason_scan_has(cursor)
  /\ doc[cursor] = CloseOf(Head(stack).type)
\* Mutant: a skipped container has its end reported.
ReportedSkipped(frame) == frame.emit
Reported(frame) == frame.emit /\ frame.action # SKIP
EndEvent(frame, answer) ==
  Event("END", frame.type, frame.key,
        IF frame.action = CAPTURE THEN frame.opening ELSE cursor, cursor,
        IF frame.type = "ARRAY" THEN frame.count ELSE 1, answer)
End(answer) ==
  /\ AtClose /\ Reported(Head(stack))
  /\ kason_scan_emit(EndEvent(Head(stack), answer))
  /\ CASE answer = BREAK -> Return("SUCCESS")
       [] answer = ENTER -> ValueDone(cursor, Tail(stack))
       [] OTHER          -> Fail
  /\ UNCHANGED doc
EndSilently ==
  /\ AtClose /\ ~Reported(Head(stack))
  /\ ValueDone(cursor, Tail(stack)) /\ Silent /\ UNCHANGED doc

\* The head of the loop over the children: an object's child has a key.
Keyed == Head(stack).type = "OBJECT"
AtItem == pc \in {"first", "item"} /\ ~AtClose
MemberAt(slice, colon) ==
  IF slice.end < slice.begin - 1 \/ At(doc, colon) # COLON THEN Fail
  ELSE /\ key' = <<slice>> /\ cursor' = kason_scan_whitespace(colon + 1)
       /\ pc' = "value" /\ UNCHANGED <<stack, result>>
MemberKey(closing) ==
  MemberAt(Slice(cursor + 1, closing - 1), kason_scan_whitespace(closing + 1))
Item ==
  /\ AtItem /\ Silent /\ UNCHANGED doc
  /\ CASE ~kason_scan_has(cursor) \/ (Keyed /\ doc[cursor] # QUOTE) -> Fail
       [] kason_scan_has(cursor) /\ Keyed /\ doc[cursor] = QUOTE ->
            MemberKey(kason_scan_string(cursor))
       [] kason_scan_has(cursor) /\ ~Keyed ->
            pc' = "value" /\ UNCHANGED <<cursor, key, stack, result>>

\* Mutant: the end of the range is not seen where a value is missing.
NoValueUnseen == pc = "value" /\ TooDeep /\ FailSilently /\ UNCHANGED doc
NoValue ==
  /\ pc = "value" /\ (TooDeep \/ ~kason_scan_has(cursor))
  /\ FailSilently /\ UNCHANGED doc
AtPrimitive ==
  pc = "value" /\ ~TooDeep /\ kason_scan_has(cursor) /\ ~Opens(doc[cursor])
BadPrimitive(token) ==
  AtPrimitive /\ token.last = 0 /\ FailSilently /\ UNCHANGED doc
Value(token, answer) ==
  /\ AtPrimitive /\ token.last > 0 /\ Entered
  /\ kason_scan_emit(Event("VALUE", token.type, key, token.begin, token.end, 1, answer))
  /\ CASE answer = BREAK -> Return("SUCCESS")
       [] answer = ENTER -> ValueDone(token.last, stack)
       [] OTHER          -> Fail
  /\ UNCHANGED doc
ValueSilently(token) ==
  /\ AtPrimitive /\ token.last > 0 /\ ~Entered
  /\ ValueDone(token.last, stack) /\ Silent /\ UNCHANGED doc
kason_scan_primitive(token) ==
  \/ BadPrimitive(token) \/ ValueSilently(token)
  \/ \E answer \in Answers : Value(token, answer)

\* After a child: a separator and another child, or the end of the container.
Another(next) == kason_scan_has(next) /\ doc[next] # CloseOf(Head(stack).type)
Separator ==
  /\ pc = "after" /\ ~AtClose /\ Silent /\ UNCHANGED doc
  /\ LET next == kason_scan_whitespace(cursor + 1)
     IN  IF At(doc, cursor) = COMMA /\ Another(next)
         THEN cursor' = next /\ pc' = "item" /\ UNCHANGED <<key, stack, result>>
         ELSE Fail

Trailing ==
  /\ pc = "trailing" /\ Silent /\ UNCHANGED doc
  /\ Return(IF kason_scan_has(cursor) THEN "ERROR" ELSE "SUCCESS")

-----------------------------------------------------------------------------
Init ==
  /\ doc \in Documents /\ cursor = 1 /\ pc = "idle" /\ key = << >> /\ stack = << >>
  /\ stopped = FALSE /\ result = "NONE" /\ events = << >>

Scan ==
  \/ \E answer \in Answers : Begin(answer) \/ End(answer)
  \/ BeginSilently \/ EndSilently \/ NoValue
  \/ AtPrimitive /\ \E token \in {Primitive(cursor)} : kason_scan_primitive(token)
  \/ Item \/ Separator \/ Trailing
Next == Scan \/ \E withCallback \in BOOLEAN : Call(withCallback)

Spec == Init /\ [][Next]_scanVars
\* The call runs in the caller's thread, and the callback returns.
FairSpec == Spec /\ WF_scanVars(Scan)

-----------------------------------------------------------------------------
(***************************************************************************)
(* What the callback knows of the C stack.  The containers whose end it    *)
(* will not be told lie on top.  A frame counts a child when the scan of   *)
(* the child has returned, the callback when the child is reported, so     *)
(* that the frames below the innermost one are one behind; what a captured *)
(* container counts is not reported before its end.                        *)
(***************************************************************************)
HidesTop(frames, n) ==
  /\ \A k \in 1..n : ~Reported(frames[k])
  /\ \A k \in (n + 1)..Len(frames) : Reported(frames[k])
Hidden(frames) == CHOOSE n \in 0..Len(frames) : HidesTop(frames, n)
OpenOf(frame, behind) ==
  [type |-> frame.type, key |-> frame.key, action |-> frame.action,
   begin |-> frame.opening,
   children |-> IF frame.action = CAPTURE THEN 0 ELSE frame.count + behind]
KnownOf(frames, n) ==
  [k \in 1..(Len(frames) - n) |-> OpenOf(frames[k + n], IF k + n = 1 THEN 0 ELSE 1)]
Known == KnownOf(stack, Hidden(stack))

Traversal == INSTANCE KasonTraversal WITH open <- Known, over <- pc = "done"

(* The calls of the callback are a traversal of one document: nothing is   *)
(* reported from inside a captured or skipped container, nothing after     *)
(* BREAK, begins and ends are paired, and the end of an entered array      *)
(* counts the children that were reported.                                 *)
IsTraversal == Traversal!Spec

(* However deep a document nests, the C stack holds one call for each open *)
(* container, and at most MAX_NESTING + 1 of them.                         *)
StackIsBounded == Len(stack) <= MAX_NESTING + 1
=============================================================================
