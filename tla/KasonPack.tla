----------------------------- MODULE KasonPack -----------------------------
(***************************************************************************)
(* kason_pack: a struct that a schema describes is written as a JSON       *)
(* object, one call of the writer after the other, until one of them       *)
(* fails.  The recursion over nested structs is the stack frames; todo are *)
(* the calls that come before it can go on.                                *)
(***************************************************************************)
EXTENDS KasonWriter, KasonSchema, SequencesExt

CONSTANT Roots   \* what may be packed: a schema and a struct each

ASSUME RootsAssumption ==
  \A root \in Roots :
    \E schema \in Schemas : \E object \in Instances[schema] : root = <<schema, object>>
ASSUME BytesAssumption == Byte \subseteq Bytes
\* Every schema that is packed has been initialised.
ASSUME SchemasAssumption == \A schema \in Schemas : kason_schema_init(schema, Schemas)

VARIABLES
  call,         \* of kason_pack: idle (none, or one that was rejected),
                \* packing or done
  job,          \* what it packs, and its flags
  frames,       \* one for each kason_schema_pack_object, the innermost first
  todo,         \* calls to be made before the innermost goes on
  error,        \* the kason_schema_error
  result,       \* what kason_pack returned
  counted       \* history: the text a counter was given for this job

packVars == <<call, job, frames, todo, error, result, counted>>
allVars  == <<writerVars, packVars>>

-----------------------------------------------------------------------------
(***************************************************************************)
(* Numbers.                                                                *)
(***************************************************************************)
kason_schema_unsigned_text[n \in Nat] ==
  IF n < 10 THEN <<ZERO + n>>
  ELSE Append(kason_schema_unsigned_text[n \div 10], ZERO + (n % 10))
kason_writer_signed(v) ==
  IF v < 0 THEN <<MINUS>> \o kason_schema_unsigned_text[-(v + 1) + 1]
  ELSE kason_schema_unsigned_text[v]

-----------------------------------------------------------------------------
(***************************************************************************)
(* What one call does: write a token, or fail, and then with or without a  *)
(* word to the writer.                                                     *)
(***************************************************************************)
Put(text)   == [does |-> "write", text |-> text, code |-> "SUCCESS"]
Spoil(code) == [does |-> "condemn", text |-> << >>, code |-> code]
Stop(code)  == [does |-> "stop", text |-> << >>, code |-> code]

HexDigit(n) == IF n < 10 THEN ZERO + n ELSE 87 + n
ShortEscapes == <<8, 12, 10, 13, 9>>
ShortLetters == <<98, 102, 110, 114, 116>>
\* Mutant: only quotes are escaped.
MustEscapeQuote(c) == c < 32 \/ c = QUOTE
MustEscape(c) == c < 32 \/ c \in {QUOTE, BACKSLASH}
EscapeText(c) ==
  CASE c \in {QUOTE, BACKSLASH} -> <<BACKSLASH, c>>
    [] \E k \in 1..5 : ShortEscapes[k] = c ->
         <<BACKSLASH, ShortLetters[CHOOSE k \in 1..5 : ShortEscapes[k] = c]>>
    [] OTHER ->
         <<BACKSLASH, LETTER_U, ZERO, ZERO, HexDigit(c \div 16), HexDigit(c % 16)>>

kason_writer_json_string(s) ==
  LET calls[p \in 1..(Len(s) + 1)] ==
        IF p > Len(s) THEN <<Put(<<QUOTE>>)>>
        ELSE IF MustEscape(s[p]) THEN <<Put(EscapeText(s[p]))>> \o calls[p + 1]
        ELSE IF kason_schema_utf8_sequence(s, p) = 0 THEN <<Spoil("TYPE")>>
        ELSE <<Put(SubSeq(s, p, p + kason_schema_utf8_sequence(s, p) - 1))>>
               \o calls[p + kason_schema_utf8_sequence(s, p)]
  IN  <<Put(<<QUOTE>>)>> \o calls[1]

kason_writer_json_scalar(v) ==
  CASE MustEscape(v) -> Put(EscapeText(v))
    [] v \in Surrogate \/ v > 1114111 -> Spoil("TYPE")
    [] OTHER -> Put(kason_utf8_encode(v))

Quoted(scalars) ==
  <<Put(<<QUOTE>>)>>
    \o [p \in DOMAIN scalars |-> kason_writer_json_scalar(scalars[p])]
    \o <<Put(<<QUOTE>>)>>

\* The scalars of valid UTF-16.
Scalars16(s) ==
  LET scalars[p \in 1..(Len(s) + 1)] ==
        IF p > Len(s) THEN << >>
        ELSE IF s[p] \in HighSurrogate
             THEN <<65536 + ((s[p] - 55296) * 1024) + (s[p + 1] - 56320)>> \o scalars[p + 2]
        ELSE <<s[p]>> \o scalars[p + 1]
  IN  scalars[1]

kason_writer_json_string_u16(s) ==
  IF Terminated(s) /\ kason_schema_utf16_valid(Text(s))
  THEN Quoted(Scalars16(Text(s))) ELSE <<Spoil("TYPE")>>
kason_writer_json_string_u32(s) ==
  IF Terminated(s) /\ kason_schema_utf32_valid(Text(s))
  THEN Quoted(Text(s)) ELSE <<Spoil("TYPE")>>

kason_schema_pack_scalar(type, v) ==
  CASE type = "BOOL" ->
         <<IF v = 1 THEN Put(TEXT_TRUE)
           ELSE IF v = 0 THEN Put(TEXT_FALSE) ELSE Stop("TYPE")>>
    [] type \in {"INT", "INT64"} -> <<Put(kason_writer_signed(v))>>
    [] type \in {"U32", "U64"} -> <<Put(kason_schema_unsigned_text[v])>>
    [] type = "DOUBLE"   -> <<IF v = << >> THEN Spoil("TYPE") ELSE Put(v)>>
    [] type = "STRING"   -> IF Terminated(v) THEN kason_writer_json_string(Text(v))
                            ELSE <<Stop("STRING_CAPACITY")>>
    [] type = "STRING_U16" -> kason_writer_json_string_u16(v)
    [] type = "STRING_U32" -> kason_writer_json_string_u32(v)

-----------------------------------------------------------------------------
(***************************************************************************)
(* Structs that are equal, and values that are a field's default.          *)
(***************************************************************************)
ScalarsEqual(type, left, right) ==
  IF type \in StringTypes
  THEN Terminated(left) /\ Terminated(right) /\ Text(left) = Text(right)
  ELSE left = right

\* Two structs of one schema.
PairsAt == {at \in Schemas \X Structs \X Structs \X Nat :
              {at[2], at[3]} \subseteq Instances[at[1]]}
kason_schema_objects_equal[at \in PairsAt] ==
  /\ at[4] < MAX_NESTING
  /\ \A i \in DOMAIN Fields[at[1]] :
       LET field == Fields[at[1]][i]
           l == Objects[at[2]][i]
           r == Objects[at[3]][i]
       IN  /\ field.array => l.count = r.count /\ l.count <= field.capacity
           /\ \A p \in DOMAIN Elements(field, l) :
                LET le == Elements(field, l)[p]  re == Elements(field, r)[p]
                IN  IF field.type = "STRUCT"
                    THEN kason_schema_objects_equal[<<field.child, le, re, at[4] + 1>>]
                    ELSE ScalarsEqual(field.type, le, re)

\* The == of C: the two zeros are equal, and what is not finite is no default.
Zeros == {<<ZERO>>, <<MINUS, ZERO>>}
SameDouble(l, r) == l = r \/ {l, r} = Zeros

kason_schema_field_is_default(field, v, level) ==
  /\ field.policy = "DEFAULT"
  /\ CASE field.array -> v.count = 0
       [] ~field.array /\ field.type = "STRUCT" ->
            kason_schema_objects_equal[<<field.child, v, field.default, level + 1>>]
       [] ~field.array /\ field.type \in StringTypes ->
            Terminated(v) /\ Text(v) = field.default
       [] ~field.array /\ field.type = "DOUBLE" -> SameDouble(v, field.default)
       [] OTHER -> v = field.default

-----------------------------------------------------------------------------
(***************************************************************************)
(* The walk over a struct.  item is the next item of the array that is     *)
(* being packed, NotInArray when there is none.                            *)
(***************************************************************************)
NotInArray  == -1

Frame(schema, object) ==
  [schema |-> schema, object |-> object, field |-> 1, item |-> NotInArray,
   emitted |-> FALSE]

top   == frames[1]
depth == Len(frames) - 1
Field == Fields[top.schema][top.field]
Value == Objects[top.object][top.field]

Placed(calls, place) == [p \in DOMAIN calls |-> [call |-> calls[p], at |-> place]]
AtField(calls, index) ==
  Placed(calls, Place(<<top.schema, top.field>>, index, depth))
AtObject(text, d) ==
  Placed(<<IF d >= MAX_NESTING THEN Stop("NESTING") ELSE Put(text)>>,
         Place(NoField, -1, d))

Comma(needed) == IF needed THEN <<Put(<<COMMA>>)>> ELSE << >>
\* Mutant: a comma also when all the fields before were left out.
NameAfterComma ==
  Comma(top.field > 1) \o kason_writer_json_string(Field.key) \o <<Put(<<COLON>>)>>
Name ==
  Comma(top.emitted) \o kason_writer_json_string(Field.key) \o <<Put(<<COLON>>)>>

Below(frame)  == <<frame>> \o Tail(frames)
PastField     == Below([top EXCEPT !.field = @ + 1, !.item = NotInArray,
                                   !.emitted = TRUE])
PastItem      == Below([top EXCEPT !.item = @ + 1])

GoOn == call = "packing" /\ todo = << >> /\ frames # << >>
Step(calls, stack) ==
  /\ todo' = calls /\ frames' = stack
  /\ UNCHANGED <<writerVars, call, job, error, result, counted>>

InFields == GoOn /\ top.item = NotInArray /\ top.field <= Len(Fields[top.schema])
InItems  == GoOn /\ top.item # NotInArray
LeftOut  == job.omit /\ kason_schema_field_is_default(Field, Value, depth)

\* Mutant: the loop does not go on.
SkipFieldAgain ==
  /\ InFields /\ LeftOut
  /\ Step(<< >>, frames)
SkipField ==
  /\ InFields /\ LeftOut
  /\ Step(<< >>, Below([top EXCEPT !.field = @ + 1]))

PackScalar ==
  /\ InFields /\ ~LeftOut /\ ~Field.array /\ Field.type # "STRUCT"
  /\ Step(AtField(Name \o kason_schema_pack_scalar(Field.type, Value), -1),
          PastField)

PackStruct ==
  /\ InFields /\ ~LeftOut /\ ~Field.array /\ Field.type = "STRUCT"
  /\ Step(AtField(Name, -1) \o AtObject(<<OBJECT_START>>, depth + 1),
          <<Frame(Field.child, Value)>> \o PastField)

PackArray ==
  /\ InFields /\ ~LeftOut /\ Field.array
  /\ Step(AtField(Name, -1) \o
            IF Value.count > Field.capacity
            THEN AtField(<<Stop("ARRAY_CAPACITY")>>, Value.count)
            ELSE AtField(<<Put(<<ARRAY_START>>)>>, -1),
          Below([top EXCEPT !.item = 0]))

PackItem ==
  /\ InItems /\ top.item < Value.count /\ Field.type # "STRUCT"
  /\ Step(AtField(Comma(top.item > 0)
                    \o kason_schema_pack_scalar(Field.type, Value.items[top.item + 1]),
                  top.item),
          PastItem)

PackItemStruct ==
  /\ InItems /\ top.item < Value.count /\ Field.type = "STRUCT"
  /\ Step(AtField(Comma(top.item > 0), top.item)
            \o AtObject(<<OBJECT_START>>, depth + 1),
          <<Frame(Field.child, Value.items[top.item + 1])>> \o PastItem)

LeaveArray ==
  /\ InItems /\ top.item = Value.count
  /\ Step(AtField(<<Put(<<ARRAY_END>>)>>, -1), PastField)

LeaveObject ==
  /\ GoOn /\ top.item = NotInArray /\ top.field > Len(Fields[top.schema])
  /\ Step(AtObject(<<OBJECT_END>>, depth), Tail(frames))

-----------------------------------------------------------------------------
\* kason_pack returns, through every frame that is left.
Return(code, at) ==
  /\ call' = "done" /\ result' = code
  /\ error' = kason_schema_set_error(error, code, at)
  /\ frames' = << >> /\ todo' = << >>
  /\ counted' = IF writer.mode = "COUNTER" /\ code = "SUCCESS"
                THEN [job |-> job, text |-> written] ELSE counted
  /\ UNCHANGED job

Next1 == Head(todo).call
Making(does) == call = "packing" /\ todo # << >> /\ Next1.does = does

Emit ==
  /\ Making("write") /\ Write(Next1.text)
  /\ IF answer' = "SUCCESS"
     THEN todo' = Tail(todo)
          /\ UNCHANGED <<call, job, frames, error, result, counted>>
     ELSE Return(answer', Head(todo).at)

MeetBadText ==
  /\ Making("condemn") /\ Condemn(Next1.code) /\ Return(Next1.code, Head(todo).at)

MeetBadValue ==
  /\ Making("stop") /\ Return(Next1.code, Head(todo).at) /\ UNCHANGED writerVars

\* Mutant: the scratch is not flushed.
FinishWithoutFlush ==
  /\ call = "packing" /\ todo = << >> /\ frames = << >>
  /\ Return("SUCCESS", Place(NoField, -1, 0)) /\ UNCHANGED writerVars
Finish ==
  /\ call = "packing" /\ todo = << >> /\ frames = << >>
  /\ Flush /\ Return(answer', Place(NoField, -1, 0))

NoJob   == [root |-> << >>, omit |-> FALSE]
NoCount == [job |-> NoJob, text |-> << >>]

kason_pack(root, omit) ==
  /\ call # "packing" /\ call' = "packing"
  /\ Reset
  /\ job' = [root |-> root, omit |-> omit]
  /\ frames' = <<Frame(root[1], root[2])>>
  /\ todo' = AtObject(<<OBJECT_START>>, 0)
  /\ counted' = IF counted.job = job' THEN counted ELSE NoCount
  /\ error' = NoError /\ result' = "SUCCESS"

\* A schema that kason_schema_init has not accepted, or unknown flags: the
\* writer is not even reset.
RejectSchema ==
  /\ call # "packing" /\ call' = "idle"
  /\ result' = "INVALID_SCHEMA"
  /\ error' = [NoError EXCEPT !.code = "INVALID_SCHEMA"]
  /\ UNCHANGED <<writerVars, job, frames, todo, counted>>

\* The application takes another writer.
Renew ==
  /\ call # "packing" /\ call' = "idle" /\ Initialise
  /\ error' = NoError /\ result' = "SUCCESS"
  /\ UNCHANGED <<job, frames, todo, counted>>

PackInit ==
  /\ Init
  /\ call = "idle" /\ job = NoJob /\ frames = << >> /\ todo = << >>
  /\ error = NoError /\ result = "SUCCESS"
  /\ counted = NoCount

PackStep ==
  \/ SkipField \/ PackScalar \/ PackStruct \/ PackArray \/ PackItem
  \/ PackItemStruct \/ LeaveArray \/ LeaveObject
  \/ Emit \/ MeetBadText \/ MeetBadValue \/ Finish

PackNext ==
  \/ PackStep \/ Renew \/ RejectSchema
  \/ \E root \in Roots, omit \in BOOLEAN : kason_pack(root, omit)

PackSpec == PackInit /\ [][PackNext]_allVars
FairPackSpec == PackSpec /\ WF_allVars(PackStep)

-----------------------------------------------------------------------------
\* What the sink was given.
Produced ==
  CASE writer.mode = "BUFFER"   -> sink.buffer
    [] writer.mode = "CALLBACK" -> sink.delivered
    [] writer.mode = "COUNTER"  -> written

(* The length a counter gave is the one that decides: a buffer with more   *)
(* room takes the document, any other fails for want of room.              *)
RoomDecides ==
  (call = "done" /\ writer.mode = "BUFFER" /\ counted.job = job) =>
    result = IF writer.capacity > Len(counted.text) THEN "SUCCESS"
             ELSE "WRITER_CAPACITY"

(* Every sink gets the document a counter has counted, or, when packing    *)
(* fails, a beginning of it.                                               *)
SinksAgree ==
  (call = "done" /\ counted.job = job) =>
    /\ IsPrefix(Produced, counted.text)
    /\ result = "SUCCESS" => Produced = counted.text

(* A counter predicts what any other sink will do and be given.            *)
CounterPredicts == RoomDecides /\ SinksAgree

(* Unless its sink fails, kason_pack succeeds with exactly the structs     *)
(* that kason_schema_object_valid accepts, though it looks at a value only *)
(* when its turn comes, has conversions of its own, and may leave out what *)
(* equals a default.                                                       *)
ValidStructsPack ==
  (call = "done" /\ result \notin {"WRITER_CAPACITY", "WRITER_CALLBACK"}) =>
    (result = "SUCCESS" <=>
       kason_schema_object_valid[<<job.root[1], job.root[2], 0>>])
=============================================================================
