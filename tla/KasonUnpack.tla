---------------------------- MODULE KasonUnpack ----------------------------
(***************************************************************************)
(* kason_schema_init and kason_unpack.  A document is parsed by KasonRun   *)
(* with the keys of a schema, and each member that is selected is stored   *)
(* in its field; a field that is an array or a struct is unpacked by a     *)
(* parse of its own, within the callback, before the one around it goes    *)
(* on.  The innermost is first in frames.                                  *)
(*                                                                         *)
(* The memory of the struct is a function from the places that have been   *)
(* written: the path of a field, of an item of an array, or, at 0, of an   *)
(* array's count.                                                          *)
(***************************************************************************)
EXTENDS KasonVerdict, KasonSchema, SequencesExt

CONSTANTS
  Documents,   \* what an application may receive, and
  Later,       \* receive next
  Setups,      \* sequences of the schemas it initialises
  Roots,       \* the schemas it unpacks with
  MASK_BITS,   \* of found and required_mask (64)
  SIGNIFICANT, CAP, DBL_EXP,   \* of doubles, as in KasonNumber
  MaxCalls     \* bound: documents received

ASSUME MaskAssumption == MAX_FIELDS \in Nat /\ MASK_BITS = MAX_FIELDS
ASSUME WidthsAssumption == 
  {UINT64_MAX, INT64_MAX, UINT32_MAX, INT_MAX, SIGNIFICANT, CAP, DBL_EXP} \subseteq Nat
ASSUME DocumentsAssumption == Documents \cup Later \subseteq Seq(Byte)
ASSUME SetupsAssumption == Setups \subseteq Seq(Schemas) /\ Roots \subseteq Schemas
\* The provers know 2^n only by its name.
ASSUME PowersAssumption ==
  /\ \A n \in 0..MASK_BITS : 2^n \in Nat \ {0}
  /\ 2^0 = 1 /\ \A n \in 0..(MASK_BITS - 1) : 2^(n + 1) = 2 * 2^n

VARIABLES
  setup,         \* schemas still to be initialised
  initialized,
  call,          \* of kason_unpack: idle, unpacking or done
  calls,         \* documents received
  job,           \* the schema and the flags
  frames,
  output,        \* the memory of the struct
  error,         \* the kason_schema_error
  result         \* what kason_unpack returned

callVars   == <<job, frames, output, error, result>>
unpackVars == <<doc, setup, initialized, call, calls, callVars>>

-----------------------------------------------------------------------------
(***************************************************************************)
(* Memory.                                                                 *)
(***************************************************************************)
Written(memory, cells) ==
  [p \in DOMAIN memory \cup DOMAIN cells |-> IF p \in DOMAIN cells THEN cells[p] ELSE memory[p]]
Cell(path, v) == [p \in {path} |-> v]
\* A path is a sequence of the numbers of fields and of items.
Under(path, paths) == {path \o q : q \in paths \cap Seq(Nat)}

\* The places of a struct, and what another one holds there.
CellPaths[schema \in Schemas] ==
  LET Of(field) == IF field.type = "STRUCT" THEN CellPaths[field.child] ELSE {<< >>}
      Places(i, field) ==
        IF field.array
        THEN {<<i, 0>>} \cup UNION {Under(<<i, k>>, Of(field)) : k \in 1..field.capacity}
        ELSE Under(<<i>>, Of(field))
  IN  UNION {Places(i, Fields[schema][i]) : i \in DOMAIN Fields[schema]}
CellsAt == {at \in Schemas \X Structs \X Seq(Nat) :
              at[2] \in Instances[at[1]] /\ at[3] \in CellPaths[at[1]]}
CellOf[at \in CellsAt] ==
  LET path  == at[3]
      field == Fields[at[1]][path[1]]
      v     == Objects[at[2]][path[1]]
      In(element, rest) ==
        IF field.type = "STRUCT" THEN CellOf[<<field.child, element, rest>>] ELSE element
  IN  IF ~field.array THEN In(v, Tail(path))
      ELSE IF path[2] = 0 THEN v.count
      ELSE In(v.items[path[2]], Tail(Tail(path)))

\* kason_schema_store_default and kason_schema_apply_defaults.
HasDefault(field) == field.policy = "DEFAULT"
DefaultPaths(i, field) ==
  CASE field.array -> {<<i, 0>>}
    [] ~field.array /\ field.type = "STRUCT" -> Under(<<i>>, CellPaths[field.child])
    [] OTHER -> {<<i>>}
DefaultAt(field, rest) ==
  IF field.array THEN 0
  ELSE IF field.type = "STRUCT" THEN CellOf[<<field.child, field.default, rest>>]
  ELSE IF field.type \in StringTypes THEN Append(field.default, 0)
  ELSE field.default
DefaultsOf(schema) == {i \in DOMAIN Fields[schema] : HasDefault(Fields[schema][i])}
Below(path, p) == SubSeq(p, Len(path) + 1, Len(p))
Defaults(schema, path) ==
  [p \in UNION {Under(path, DefaultPaths(i, Fields[schema][i])) : i \in DefaultsOf(schema)} |->
     DefaultAt(Fields[schema][Head(Below(path, p))], Tail(Below(path, p)))]

-----------------------------------------------------------------------------
(***************************************************************************)
(* Masks.                                                                  *)
(***************************************************************************)
Bit(i) == 2^(i - 1)
Has(mask, i) == (mask \div Bit(i)) % 2 = 1
Mask(fields) == MapThenSumSet(Bit, fields)
required_mask(schema) ==
  Mask({i \in DOMAIN Fields[schema] : Fields[schema][i].policy = "REQUIRED"})
\* Mutant: the shift by the width of the mask is the shift by 0 of a processor.
CompleteByShift(schema) == 2^(Len(Fields[schema]) % MASK_BITS) - 1
complete_mask(schema) ==
  IF Len(Fields[schema]) = MAX_FIELDS THEN 2^MASK_BITS - 1
  ELSE 2^Len(Fields[schema]) - 1
\* Mutant: a field with a default is required too.
MissingAny(schema, found) == {i \in DOMAIN Fields[schema] : ~Has(found, i)}
missing(schema, found) ==
  {i \in DOMAIN Fields[schema] : Has(required_mask(schema), i) /\ ~Has(found, i)}

-----------------------------------------------------------------------------
(***************************************************************************)
(* kason_schema_store_scalar.  The conversion of a member that is parsed   *)
(* has the result of kason_value_to_* (ConversionsAgree of KasonNumberRef).*)
(* A double that is stored is its text; what strtod gives without ERANGE   *)
(* is finite.                                                              *)
(***************************************************************************)
Number == INSTANCE KasonNumber WITH
  Texts <- {}, text <- << >>, kind <- "DOUBLE",
  ptr <- 1, state <- "NONE", accumulator <- << >>, cached <- << >>, exact <- 0

Stored(v)     == [code |-> "SUCCESS", cell |-> <<v>>]
Refused(code) == [code |-> code, cell |-> << >>]

kason_schema_conversion_error(conversion) ==
  IF conversion.result = "RANGE" THEN "RANGE" ELSE "TYPE"
NumberStored(type, conversion) ==
  CASE conversion.result # "SUCCESS" -> Refused(kason_schema_conversion_error(conversion))
    [] conversion.result = "SUCCESS" /\ type = "U32" /\ conversion.value > UINT32_MAX ->
         Refused("RANGE")
    [] OTHER -> Stored(conversion.value)
Conversion(type, text) ==
  CASE type = "INT"   -> Number!kason_value_to_int(text)
    [] type = "INT64" -> Number!kason_value_to("SIGNED", text)
    [] OTHER          -> Number!kason_value_to("UNSIGNED", text)

\* Mutant: a double out of range is stored as what strtod gives for it.
DoubleStoredAnyway(text, conversion) == Stored(text)
DoubleStored(text, conversion) ==
  IF conversion.result = "SUCCESS" THEN Stored(text)
  ELSE Refused(kason_schema_conversion_error(conversion))

Units(type, text) ==
  CASE type = "STRING"     -> Decoded(text).bytes
    [] type = "STRING_U16" ->
         FlattenSeq([k \in DOMAIN Characters(text) |-> utf16_units(Characters(text)[k])])
    [] OTHER               -> Characters(text)
\* Mutant: there is no room for the NUL.
UnitsStoredFull(size, units) ==
  IF Len(units) > size THEN Refused("STRING_CAPACITY") ELSE Stored(Append(units, 0))
UnitsStored(size, units) ==
  CASE Len(units) >= size -> Refused("STRING_CAPACITY")
    [] Len(units) < size /\ ~NoNul(units) -> [code |-> "TYPE", cell |-> <<units>>]
    [] OTHER -> Stored(Append(units, 0))

ScalarTypeOf(type) ==
  CASE type = "BOOL" -> {"TRUE", "FALSE"} [] type \in StringTypes -> {"STRING"}
    [] OTHER -> {"NUMBER"}
kason_schema_store_scalar(field, value) ==
  CASE value.type \notin ScalarTypeOf(field.type) -> Refused("TYPE")
    [] value.type \in {"TRUE", "FALSE"} /\ field.type = "BOOL" ->
         Stored(IF value.type = "TRUE" THEN 1 ELSE 0)
    [] value.type = "STRING" /\ field.type \in StringTypes ->
         UnitsStored(field.size, Units(field.type, SliceText(value)))
    [] value.type = "NUMBER" /\ field.type = "DOUBLE" ->
         DoubleStored(SliceText(value), Number!kason_value_to_double(SliceText(value)))
    [] OTHER -> NumberStored(field.type, Conversion(field.type, SliceText(value)))

-----------------------------------------------------------------------------
(***************************************************************************)
(* One call of kason_unpack_range_internal or of kason_unpack_array.       *)
(***************************************************************************)
NotInArray == 0
Frame(schema, path, depth, array, run) ==
  [schema |-> schema, path |-> path, depth |-> depth, array |-> array, run |-> run,
   found |-> 0, count |-> 0, field |-> 0, value |-> NotFound]
top == frames[1]
InArray(frame) == frame.array # NotInArray
FieldOf(frame) == Fields[frame.schema][frame.field]

Return(code, at) ==
  /\ call' = "done" /\ result' = code /\ frames' = << >>
  /\ error' = kason_schema_set_error(error, code, at)
Goes(stack) == frames' = stack /\ UNCHANGED <<call, error, result>>
AtField(frame, index) == Place(<<frame.schema, frame.field>>, index, frame.depth)
Index(frame) == IF InArray(frame) THEN frame.count ELSE -1

\* A frame goes on after the value at which it stands.
Decode(frame, found) ==
  [frame EXCEPT !.found = found,
     !.run = IF job.flags = "RELAXED" /\ found = complete_mask(frame.schema)
             THEN Ended(frame.run, TRUE) ELSE Commit(frame.run, frame.value)]
PastValue(frame) ==
  IF InArray(frame)
  THEN [frame EXCEPT !.count = @ + 1, !.run = Commit(frame.run, frame.value)]
  ELSE Decode(frame, frame.found + Bit(frame.field))
PathOf(frame) ==
  frame.path \o (IF InArray(frame) THEN <<frame.array, frame.count + 1>> ELSE <<frame.field>>)

\* Mutant: what was stored before is kept.
EnterObjectStale(schema, path, slice, depth, below, memory) ==
  /\ output' = memory
  /\ Goes(<<Frame(schema, path, depth, NotInArray, RunAuto(slice, 0, TRUE))>> \o below)
EnterObject(schema, path, slice, depth, below, memory) ==
  /\ output' = Written(memory, Defaults(schema, path))
  /\ Goes(<<Frame(schema, path, depth, NotInArray, RunAuto(slice, 0, TRUE))>> \o below)
RejectObject(schema, slice, depth) ==
  CASE depth >= MAX_NESTING -> "NESTING"
    [] depth < MAX_NESTING /\ (schema \notin initialized \/ job'.flags = "UNKNOWN") ->
         "INVALID_SCHEMA"
    [] OTHER -> IF At(doc, Skip(slice.begin, slice.end)) = OBJECT_START THEN "SUCCESS" ELSE "TYPE"
kason_unpack_range_internal(schema, path, slice, depth, below, memory) ==
  \E code \in {RejectObject(schema, slice, depth)} :
    \/ code = "SUCCESS" /\ EnterObject(schema, path, slice, depth, below, memory)
    \/ code # "SUCCESS" /\ output' = memory /\ Return(code, Place(NoField, -1, depth))

StoreScalar(frame, field) ==
  \E stored \in {kason_schema_store_scalar(field, frame.value)} :
    /\ output' = IF stored.cell = << >> THEN output
                 ELSE Written(output, Cell(PathOf(frame), Head(stored.cell)))
    /\ IF stored.code = "SUCCESS" THEN Goes(<<PastValue(frame)>> \o Tail(frames))
       ELSE Return(stored.code, AtField(frame, Index(frame)))
StoreStruct(frame, field) ==
  IF frame.value.type = "OBJECT"
  THEN kason_unpack_range_internal(field.child, PathOf(frame),
         Slice(frame.value.begin, frame.value.end), frame.depth + 1,
         <<frame>> \o Tail(frames), output)
  ELSE Return("TYPE", AtField(frame, Index(frame))) /\ UNCHANGED output
StoreArray(frame) ==
  IF frame.value.type = "ARRAY"
  THEN /\ Goes(<<Frame(frame.schema, frame.path, frame.depth, frame.field,
                       ContainerRun(frame.value)), frame>> \o Tail(frames))
       /\ UNCHANGED output
  ELSE Return("TYPE", AtField(frame, -1)) /\ UNCHANGED output
Store(frame, field) ==
  IF field.array /\ ~InArray(frame) THEN StoreArray(frame)
  ELSE IF field.type = "STRUCT" THEN StoreStruct(frame, field) ELSE StoreScalar(frame, field)

\* kason_unpack_array_callback.
Item(frame) ==
  IF frame.count >= FieldOf(frame).capacity
  THEN Return("ARRAY_CAPACITY", AtField(frame, frame.count)) /\ UNCHANGED output
  ELSE Store(frame, FieldOf(frame))

\* kason_unpack_callback.
Selected ==
  {i \in DOMAIN Fields[top.schema] :
     Fields[top.schema][i].key = Decoded(SliceText(Head(top.run.key))).bytes}
\* Mutant: the first value of a field is replaced by the last.
MemberAgain(frame) == Store(frame, FieldOf(frame))
Member(frame) ==
  IF Has(frame.found, frame.field)
  THEN Return("DUPLICATE_FIELD", AtField(frame, -1)) /\ UNCHANGED output
  ELSE Store(frame, FieldOf(frame))

-----------------------------------------------------------------------------
(***************************************************************************)
(* Steps.                                                                  *)
(***************************************************************************)
Unpacking == call = "unpacking" /\ UNCHANGED <<doc, setup, initialized, calls, job>>
Running(states) == Unpacking /\ top.run.state \in states
RunGoes(run) == Goes(<<[top EXCEPT !.run = run]>> \o Tail(frames)) /\ UNCHANGED output
\* The innermost frame at a value, and at the field it is for.
Standing(value, i) == [top EXCEPT !.value = value, !.field = i]

Take ==
  /\ Running({"KEY_BEGIN", "PARAM_SEPARATOR", "COMPLETE"}) /\ RunGoes(Advanced(top.run))
BadValue ==
  /\ Running({"VALUE_BEGIN"}) /\ ~Valid(top.run, ValueOf(top.run))
  /\ RunGoes(Ended(top.run, FALSE))
TakeItem ==
  /\ Running({"VALUE_BEGIN"}) /\ InArray(top)
  /\ \E value \in {ValueOf(top.run)} : Valid(top.run, value) /\ Item(Standing(value, top.array))
TakeMember ==
  /\ Running({"VALUE_BEGIN"}) /\ ~InArray(top)
  /\ \E value \in {ValueOf(top.run)} :
       /\ Valid(top.run, value)
       /\ \E i \in Selected : Member(Standing(value, i))
IgnoreMember ==
  /\ Running({"VALUE_BEGIN"}) /\ ~InArray(top) /\ Selected = {}
  /\ \E value \in {ValueOf(top.run)} :
       Valid(top.run, value) /\ RunGoes(Commit(top.run, value))

FailParse ==
  /\ Running({"ERROR"}) /\ UNCHANGED output
  /\ Return("ERROR", IF InArray(top) THEN Place(<<top.schema, top.array>>, -1, top.depth)
                     ELSE Place(NoField, -1, top.depth))
LeaveArray ==
  /\ Running({"SUCCESS"}) /\ InArray(top)
  /\ output' = Written(output, Cell(top.path \o <<top.array, 0>>, top.count))
  /\ Goes(<<PastValue(frames[2])>> \o Tail(Tail(frames)))
MissField ==
  /\ Running({"SUCCESS"}) /\ ~InArray(top) /\ missing(top.schema, top.found) # {}
  /\ Return("MISSING_FIELD",
            Place(<<top.schema, Min(missing(top.schema, top.found))>>, -1, top.depth))
  /\ UNCHANGED output
LeaveObject ==
  /\ Running({"SUCCESS"}) /\ ~InArray(top) /\ missing(top.schema, top.found) = {}
  /\ IF Len(frames) = 1 THEN Return("SUCCESS", Place(NoField, -1, 0))
     ELSE Goes(<<PastValue(frames[2])>> \o Tail(Tail(frames)))
  /\ UNCHANGED output
UnpackStep ==
  \/ Take \/ BadValue \/ TakeItem \/ TakeMember \/ IgnoreMember
  \/ FailParse \/ LeaveArray \/ MissField \/ LeaveObject

-----------------------------------------------------------------------------
(***************************************************************************)
(* The application.                                                        *)
(***************************************************************************)
NoJob == [schema |-> "", flags |-> "STRICT"]
Init ==
  /\ doc = << >> /\ setup \in Setups /\ initialized = {}
  /\ call = "idle" /\ calls = 0 /\ job = NoJob /\ frames = << >>
  /\ output = << >> /\ error = NoError /\ result = "SUCCESS"

InitSchema ==
  /\ setup # << >> /\ setup' = Tail(setup)
  /\ initialized' = IF kason_schema_init(Head(setup), initialized)
                    THEN initialized \cup {Head(setup)} ELSE initialized \ {Head(setup)}
  /\ UNCHANGED <<doc, call, calls, callVars>>
Receive ==
  /\ setup = << >> /\ call # "unpacking" /\ calls < MaxCalls
  /\ doc' \in IF calls = 0 THEN Documents ELSE Later
  /\ call' = "idle" /\ calls' = calls + 1
  /\ UNCHANGED <<setup, initialized, callVars>>

\* The struct that the application has, or another one.
Memory(schema) == IF schema = job.schema THEN output ELSE << >>
kason_unpack(schema, flags) ==
  /\ job' = [schema |-> schema, flags |-> flags]
  /\ \E slice \in {Slice(1, Len(doc))} :
       IF RejectObject(schema, slice, 0) = "SUCCESS"
       THEN /\ frames' = <<Frame(schema, << >>, 0, NotInArray, RunAuto(slice, 0, TRUE))>>
            /\ output' = Written(Memory(schema), Defaults(schema, << >>))
            /\ call' = "unpacking" /\ error' = NoError /\ result' = "SUCCESS"
       ELSE /\ frames' = << >> /\ output' = Memory(schema) /\ call' = "done"
            /\ result' = RejectObject(schema, slice, 0)
            /\ error' = kason_schema_set_error(NoError, result', Place(NoField, -1, 0))
Unpack ==
  /\ call = "idle" /\ calls > 0
  /\ \E schema \in Roots, flags \in {"STRICT", "RELAXED", "UNKNOWN"} : kason_unpack(schema, flags)
  /\ UNCHANGED <<doc, setup, initialized, calls>>

Next == UnpackStep \/ InitSchema \/ Receive \/ Unpack
Spec == Init /\ [][Next]_unpackVars

-----------------------------------------------------------------------------
(***************************************************************************)
(* What may be in the memory.                                              *)
(***************************************************************************)
\* The field that a place belongs to.
PlacesAt == {at \in Schemas \X Seq(Nat) : at[2] \in CellPaths[at[1]]}
FieldAt[at \in PlacesAt] ==
  LET field == Fields[at[1]][at[2][1]]
      rest  == IF field.array THEN Tail(Tail(at[2])) ELSE Tail(at[2])
  IN  IF field.type = "STRUCT" /\ rest # << >> THEN FieldAt[<<field.child, rest>>] ELSE field

IsCount(path) == path[Len(path)] = 0
ItemPath(path, k) == Append(Front(path), k)
\* Whether a value has room at a place, and whether it may be read there.
CellFits(field, path, v) ==
  ~IsCount(path) =>
    IF field.type \in StringTypes THEN Len(v) <= field.size ELSE InRange(field.type, v)
CountIsSafe(field, path, n) ==
  /\ n <= field.capacity
  /\ field.type # "STRUCT" => \A k \in 1..n : ItemPath(path, k) \in DOMAIN output
CellIsSafe(field, path, v) ==
  /\ IsCount(path) => CountIsSafe(field, path, v)
  /\ ~IsCount(path) /\ field.type \in StringTypes => Terminated(v)
\* A place is in use unless it is in an item behind the count of an array.
Counter(path, k) == Append(SubSeq(path, 1, k - 1), 0)
InUse(path) ==
  \A k \in DOMAIN path :
    Counter(path, k) \in DOMAIN output => path[k] <= output[Counter(path, k)]

(* Whatever the document and however the unpack ends, what is written lies *)
(* in the struct, has room where it is, and a number has its width; and    *)
(* where an array is used, up to its count, a string has its NUL and a     *)
(* count is that of items which were written.  What is behind a count may  *)
(* be anything, since a default is copied with it.                         *)
MemoryIsSafe ==
  \A path \in DOMAIN output :
    /\ path \in CellPaths[job.schema]
    /\ CellFits(FieldAt[<<job.schema, path>>], path, output[path])
    /\ InUse(path) => CellIsSafe(FieldAt[<<job.schema, path>>], path, output[path])
=============================================================================
