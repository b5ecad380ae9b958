---------------------------- MODULE KasonSchema ----------------------------
(***************************************************************************)
(* Schemas, and the structs they describe.                                 *)
(*                                                                         *)
(* A schema is a sequence of fields.  The memory of a struct is a sequence *)
(* of values, one for each field: a number, the units of a string buffer   *)
(* with its NUL, another struct, or a count and as many items as an array  *)
(* has room for.  A double is the text that snprintf gives for it, << >>   *)
(* when it is not finite.                                                  *)
(***************************************************************************)
EXTENDS KasonText, KasonConfig

CONSTANTS
  Fields,       \* the fields of each schema
  Slots,        \* the number of slots of its lookup table
  MAX_FIELDS,   \* KaSON_SCHEMA_MAX_FIELDS
  Objects,      \* the values of structs: defaults, and what may be packed
  Instances,    \* which of them are structs of a schema
  UINT64_MAX, INT64_MAX, UINT32_MAX, INT_MAX

Schemas == DOMAIN Fields
Structs == DOMAIN Objects
StringTypes == {"STRING", "STRING_U16", "STRING_U32"}
IntegerTypes == {"BOOL", "INT", "INT64", "U32", "U64"}
Types == StringTypes \cup IntegerTypes \cup {"DOUBLE", "STRUCT"}

-----------------------------------------------------------------------------
(***************************************************************************)
(* What the types of C let a struct hold.  A buffer need not have a NUL, a *)
(* bool is an int, and a count may be any size.                            *)
(***************************************************************************)
InRange(type, v) ==
  CASE type = "INT"      -> v \in (-INT_MAX - 1)..INT_MAX
    [] type = "INT64"    -> v \in (-INT64_MAX - 1)..INT64_MAX
    [] type = "U32"      -> v \in 0..UINT32_MAX
    [] type = "U64"      -> v \in 0..UINT64_MAX
    [] OTHER             -> TRUE
Unit(type) ==
  IF type = "STRING" THEN Byte
  ELSE IF type = "STRING_U16" THEN 0..65535 ELSE Nat
ElementTyped(field, v) ==
  CASE field.type = "STRUCT" -> v \in Instances[field.child]
    [] field.type \in StringTypes -> v \in Seq(Unit(field.type)) /\ Len(v) <= field.size
    [] field.type = "DOUBLE" -> v \in Seq(Byte)
    [] field.type \in IntegerTypes -> v \in Int /\ InRange(field.type, v)
ValueTyped(field, v) ==
  IF field.array
  THEN /\ v.count \in Nat /\ DOMAIN v.items = 1..field.capacity
       /\ \A p \in 1..field.capacity : ElementTyped(field, v.items[p])
  ELSE ElementTyped(field, v)
FieldTyped(field) ==
  /\ field.key \in Seq(Byte) /\ field.type \in Types /\ field.array \in BOOLEAN
  /\ field.capacity \in Nat /\ field.size \in Nat /\ field.policy \in {"REQUIRED", "DEFAULT"}
  /\ field.type = "STRUCT" => field.child \in Schemas
  /\ field.type = "STRUCT" /\ field.policy = "DEFAULT" /\ ~field.array =>
       field.default \in Instances[field.child]
  /\ field.type \in StringTypes /\ field.policy = "DEFAULT" /\ ~field.array =>
       field.default \in Seq(Unit(field.type))

ASSUME FieldsAssumption ==
  \A schema \in Schemas :
    /\ Fields[schema] \in Seq({Fields[schema][i] : i \in DOMAIN Fields[schema]})
    /\ \A i \in DOMAIN Fields[schema] : FieldTyped(Fields[schema][i])
ASSUME ObjectsAssumption ==
  /\ Instances \in [Schemas -> SUBSET Structs]
  /\ \A schema \in Schemas : \A object \in Instances[schema] :
       \A i \in DOMAIN Fields[schema] :
         ValueTyped(Fields[schema][i], Objects[object][i])

-----------------------------------------------------------------------------
(***************************************************************************)
(* Strings.                                                                *)
(***************************************************************************)
Terminated(s) == \E p \in DOMAIN s : s[p] = 0
FirstNul(s) == CHOOSE p \in DOMAIN s : s[p] = 0 /\ \A q \in 1..(p - 1) : s[q] # 0
Text(s) == SubSeq(s, 1, FirstNul(s) - 1)

\* The length of the character at p, 0 when it is malformed.
kason_schema_utf8_sequence(s, p) ==
  IF s[p] < 128 THEN 1 ELSE MultiByteChar(s, p).length

kason_schema_utf8_valid(s) ==
  LET validFrom[p \in 1..(Len(s) + 1)] ==
        \/ p = Len(s) + 1
        \/ /\ kason_schema_utf8_sequence(s, p) > 0
           /\ validFrom[p + kason_schema_utf8_sequence(s, p)]
  IN  validFrom[1]

kason_schema_utf16_valid(s) ==
  \A p \in DOMAIN s :
    /\ s[p] # 0
    /\ s[p] \in HighSurrogate => p < Len(s) /\ s[p + 1] \in LowSurrogate
    /\ s[p] \in LowSurrogate => p > 1 /\ s[p - 1] \in HighSurrogate

kason_schema_utf32_valid(s) ==
  \A p \in DOMAIN s : s[p] # 0 /\ s[p] <= 1114111 /\ s[p] \notin Surrogate

TextValid(type, s) ==
  CASE type = "STRING"     -> kason_schema_utf8_valid(s)
    [] type = "STRING_U16" -> kason_schema_utf16_valid(s)
    [] type = "STRING_U32" -> kason_schema_utf32_valid(s)

-----------------------------------------------------------------------------
(***************************************************************************)
(* Structs.                                                                *)
(***************************************************************************)
Elements(field, v) == IF field.array THEN [p \in 1..v.count |-> v.items[p]] ELSE <<v>>
\* Mutant: any int is taken for a bool.
AnyBoolValid(type, v) ==
  CASE type = "DOUBLE"         -> v # << >>
    [] type \in StringTypes  -> Terminated(v) /\ TextValid(type, Text(v))
    [] OTHER                 -> TRUE
ScalarValid(type, v) ==
  CASE type = "BOOL"         -> v \in {0, 1}
    [] type = "DOUBLE"       -> v # << >>
    [] type \in StringTypes  -> Terminated(v) /\ TextValid(type, Text(v))
    [] OTHER                 -> TRUE

\* A schema, one of its structs and a level of nesting.
StructsAt == {at \in Schemas \X Structs \X Nat : at[2] \in Instances[at[1]]}
kason_schema_object_valid[at \in StructsAt] ==
  /\ at[3] < MAX_NESTING
  /\ \A i \in DOMAIN Fields[at[1]] :
       LET field == Fields[at[1]][i]
           value == Objects[at[2]][i]
       IN  /\ field.array => value.count <= field.capacity
           /\ \A p \in DOMAIN Elements(field, value) :
                LET element == Elements(field, value)[p]
                IN  IF field.type = "STRUCT"
                    THEN kason_schema_object_valid[<<field.child, element, at[3] + 1>>]
                    ELSE ScalarValid(field.type, element)

-----------------------------------------------------------------------------
(***************************************************************************)
(* kason_schema_init.  The macros that define a field give it an offset    *)
(* and a size inside of its struct.                                        *)
(***************************************************************************)
\* Mutant: the NUL of a default is forgotten.
FitsWithoutNul(field) == Len(field.default) <= field.size
DefaultFits(field) == Len(field.default) < field.size
NoNul(s) == \A p \in DOMAIN s : s[p] # 0
kason_schema_validate_default(field) ==
  (field.policy = "DEFAULT" /\ ~field.array) =>
    CASE field.type = "STRUCT" ->
           kason_schema_object_valid[<<field.child, field.default, 0>>]
      [] field.type \in StringTypes ->
           DefaultFits(field) /\ NoNul(field.default) /\ TextValid(field.type, field.default)
      [] OTHER -> ScalarValid(field.type, field.default) /\ InRange(field.type, field.default)

\* ready: the schemas that are initialised.
kason_schema_validate_field(field, ready) ==
  /\ kason_schema_utf8_valid(field.key)
  /\ field.type = "STRUCT" => field.child \in ready
  /\ field.type \in StringTypes => field.size > 0
  /\ field.array => field.capacity > 0
  /\ kason_schema_validate_default(field)

DistinctKeys(fields) ==
  \A i, j \in DOMAIN fields : i # j => fields[i].key # fields[j].key
kason_schema_init(schema, ready) ==
  /\ Len(Fields[schema]) \in 1..MAX_FIELDS /\ Slots[schema] >= Len(Fields[schema])
  /\ DistinctKeys(Fields[schema])
  /\ \A i \in DOMAIN Fields[schema] :
       kason_schema_validate_field(Fields[schema][i], ready \ {schema})

-----------------------------------------------------------------------------
(***************************************************************************)
(* Errors.                                                                 *)
(***************************************************************************)
NoField == << >>
NoError == [code |-> "SUCCESS", field |-> NoField, index |-> -1, depth |-> 0]
\* The place kason_schema_set_error is told of.
Place(field, index, d) == [field |-> field, index |-> index, depth |-> d]
\* Only the first error is recorded.
kason_schema_set_error(error, code, at) ==
  IF error.code = "SUCCESS" /\ code # "SUCCESS"
  THEN [code |-> code, field |-> at.field, index |-> at.index, depth |-> at.depth]
  ELSE error
=============================================================================
