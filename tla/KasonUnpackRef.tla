-------------------------- MODULE KasonUnpackRef --------------------------
(***************************************************************************)
(* Unpacking against the reference grammar: what a document says of each   *)
(* field of a schema, and what is wrong when it does not fit.              *)
(***************************************************************************)
EXTENDS KasonUnpack

Paper == INSTANCE KasonNumberRef WITH
  Texts <- {}, text <- << >>, kind <- "DOUBLE",
  ptr <- 1, state <- "NONE", accumulator <- << >>, cached <- << >>, exact <- 0

Finished == call = "done"
Object(text) == At(text, Grammar!WhitespaceEnd(text, 1)) = OBJECT_START

-----------------------------------------------------------------------------
(***************************************************************************)
(* What an object says.  A relaxed unpack hears the members up to the one  *)
(* with which every field has been said.                                   *)
(***************************************************************************)
For(field, members) ==
  SelectSeq(members, LAMBDA m : Decoded(Head(m.key)).bytes = field.key)
AllSaid(schema, members) ==
  \A i \in DOMAIN Fields[schema] : For(Fields[schema][i], members) # << >>
HeardOf(schema, members) ==
  LET enough == {k \in DOMAIN members : AllSaid(schema, SubSeq(members, 1, k))}
  IN  IF job.flags = "STRICT" \/ enough = {} THEN members ELSE SubSeq(members, 1, Min(enough))
Heard(schema, text) == HeardOf(schema, Grammar!Parse(text).entries)
ItemsSaid(field, member) ==
  CASE ~field.array -> <<member>>
    [] field.array /\ member.type = "ARRAY" -> Grammar!Parse(member.data).entries
    [] OTHER -> << >>

\* The codes with which a value may be refused; none when it fits.
OfType(field, value, otherwise) ==
  IF value.type \in ScalarTypeOf(field.type) THEN otherwise ELSE {"TYPE"}
TextFaults(field, units) ==
  (IF Len(units) >= field.size THEN {"STRING_CAPACITY"} ELSE {})
    \cup (IF NoNul(units) THEN {} ELSE {"TYPE"})
Limits(type) ==
  CASE type = "INT"   -> (-INT_MAX - 1)..INT_MAX
    [] type = "INT64" -> (-INT64_MAX - 1)..INT64_MAX
    [] type = "U32"   -> 0..UINT32_MAX
    [] type = "U64"   -> 0..UINT64_MAX
Unsigned == {"U32", "U64"}
IntegerFaults(type, text) ==
  IF ~Paper!IsInteger(text) THEN {"TYPE", "RANGE"}
  ELSE IF Paper!IntegerOf(text) \in Limits(type) /\ (type \in Unsigned => text[1] # MINUS)
       THEN {} ELSE {"RANGE"}
\* Of a double whose counts of digits stay below CAP.
DoubleFaults(text) == IF Paper!DoubleOf(text).result = "SUCCESS" THEN {} ELSE {"RANGE"}
Faults(field, value) ==
  CASE field.type = "STRUCT" -> IF value.type = "OBJECT" THEN {} ELSE {"TYPE"}
    [] field.type \in StringTypes ->
         OfType(field, value, TextFaults(field, Units(field.type, value.data)))
    [] field.type = "BOOL" -> OfType(field, value, {})
    [] field.type = "DOUBLE" -> OfType(field, value, DoubleFaults(value.data))
    [] OTHER -> OfType(field, value, IntegerFaults(field.type, value.data))

\* Whether an object fits a schema.
Counted(field, said) ==
  field.array => said.type = "ARRAY" /\ Len(ItemsSaid(field, said)) <= field.capacity
Fits[schema \in Schemas, text \in Seq(Byte), depth \in Nat] ==
  LET ElementFits(field, value) ==
        /\ Faults(field, value) = {}
        /\ field.type = "STRUCT" => Fits[field.child, value.data, depth + 1]
      FieldFits(field, said) ==
        /\ Len(said) <= 1 /\ (said = << >> => field.policy = "DEFAULT")
        /\ said # << >> => /\ Counted(field, Head(said))
                           /\ \A values \in {ItemsSaid(field, Head(said))} :
                                \A k \in DOMAIN values : ElementFits(field, values[k])
  IN  /\ depth < MAX_NESTING /\ schema \in initialized
      /\ \A members \in {Heard(schema, text)} :
           \A i \in DOMAIN Fields[schema] :
             FieldFits(Fields[schema][i], For(Fields[schema][i], members))

\* What a scalar says, and whether the struct at a path says what an object does.
Meaning(type, value) ==
  CASE type = "BOOL" -> IF value.type = "TRUE" THEN 1 ELSE 0
    [] type \in StringTypes -> Append(Units(type, value.data), 0)
    [] type = "DOUBLE" -> value.data
    [] OTHER -> Paper!IntegerOf(value.data)
HoldsAt(path, v) == path \in DOMAIN output /\ output[path] = v
Says[schema \in Schemas, text \in Seq(Byte), path \in Seq(Nat)] ==
  LET ElementIs(field, value, at) ==
        IF field.type = "STRUCT" THEN Says[field.child, value.data, at]
        ELSE HoldsAt(at, Meaning(field.type, value))
      ArrayIs(i, field, values) ==
        /\ HoldsAt(path \o <<i, 0>>, Len(values))
        /\ \A k \in DOMAIN values : ElementIs(field, values[k], path \o <<i, k>>)
      IsDefault(i, field) ==
        \A p \in DefaultPaths(i, field) : HoldsAt(path \o p, DefaultAt(field, Tail(p)))
      FieldIs(i, field, said) ==
        CASE said = << >> -> IsDefault(i, field)
          [] said # << >> /\ field.array -> ArrayIs(i, field, ItemsSaid(field, Head(said)))
          [] OTHER -> ElementIs(field, Head(said), path \o <<i>>)
  IN  \A members \in {Heard(schema, text)} :
        \A i \in DOMAIN Fields[schema] :
          FieldIs(i, Fields[schema][i], For(Fields[schema][i], members))

-----------------------------------------------------------------------------
Sound(text) == Accepted(DocumentOf(text).values) /\ Object(text)
FitsSchema(text) == Fits[job.schema, text, 0]
Known == job.flags # "UNKNOWN"

\* A document that is cut after a value and closed, with every field in it.
Cut(k) == SubSeq(doc, 1, k) \o <<OBJECT_END>>
Complete(text) == AllSaid(job.schema, Grammar!Parse(text).entries)
ReadUpTo(k) == Sound(Cut(k)) /\ Complete(Cut(k)) /\ FitsSchema(Cut(k))
Relaxes(From(_)) == job.flags = "RELAXED" /\ \E k \in DOMAIN doc : ReadUpTo(k) /\ From(k)
\* The value ends here, whatever the parser sees behind it.
ValueEnds(k) ==
  \/ doc[k] \in {QUOTE, OBJECT_END, ARRAY_END}
  \/ k + 1 < Len(doc) /\ (doc[k + 1] = COMMA \/ Ends(doc[k + 1], "OBJECT"))

\* No array is directly within an array.
NoMatrix(values) ==
  \A outer, inner \in values :
    ~(/\ outer.type = "ARRAY" /\ inner.type = "ARRAY" /\ inner.level = outer.level + 1
      /\ inner.begin > outer.begin /\ inner.end < outer.end)

(* A document is unpacked just when it is one, and fits the schema: each   *)
(* field at most once, the required ones, with their types, ranges and     *)
(* capacities.  A relaxed unpack stops at the value with which a beginning *)
(* of the document, if it were closed, would be that, with every field in  *)
(* it and in the struct.                                                   *)
VerdictIsExact ==
  Finished /\ Known => \A values \in {DocumentOf(doc).values} :
    NoMatrix(values) =>
      IF Sound(doc) /\ FitsSchema(doc) THEN result = "SUCCESS"
      ELSE /\ result = "SUCCESS" => Relaxes(LAMBDA k : Says[job.schema, Cut(k), << >>])
           /\ Relaxes(ValueEnds) => result = "SUCCESS"

(* After a success every place of every field holds what the document says *)
(* or the default, whatever an unpack before it left there.                *)
StructIsDocument ==
  Finished /\ result = "SUCCESS" /\ Sound(doc) /\ NoMatrix(DocumentOf(doc).values) =>
    Says[job.schema, doc, << >>]

-----------------------------------------------------------------------------
(***************************************************************************)
(* Errors.                                                                 *)
(***************************************************************************)
\* The objects of a document that are unpacked, with their schemas and depths.
Visited[schema \in Schemas, text \in Seq(Byte), depth \in Nat] ==
  LET Inside(field, values) ==
        UNION {Visited[field.child, values[k].data, depth + 1] :
                 k \in {j \in DOMAIN values : values[j].type = "OBJECT"}}
      InField(field, said) ==
        IF field.type # "STRUCT" \/ said = << >> THEN {}
        ELSE Inside(field, ItemsSaid(field, Head(said)))
  IN  {[schema |-> schema, text |-> text, depth |-> depth]}
        \cup UNION {InField(Fields[schema][i], For(Fields[schema][i], Grammar!Parse(text).entries)) :
                      i \in DOMAIN Fields[schema]}

\* What is wrong with a field of which this was said.
ItemFault(field, values, k) == k \in DOMAIN values /\ error.code \in Faults(field, values[k])
Blames(field, said) ==
  CASE error.code = "MISSING_FIELD"   -> field.policy = "REQUIRED" /\ said = << >>
    [] error.code = "DUPLICATE_FIELD" -> Len(said) > 1
    [] error.code = "ARRAY_CAPACITY" ->
         error.index = field.capacity /\ Len(ItemsSaid(field, Head(said))) > field.capacity
    [] error.code = "TYPE" /\ field.array /\ error.index = -1 -> Head(said).type # "ARRAY"
    [] OTHER ->
         ItemFault(field, ItemsSaid(field, Head(said)), IF field.array THEN error.index + 1 ELSE 1)
BlamesObject(object) ==
  /\ object.depth = error.depth /\ object.schema = error.field[1]
  /\ \E field \in {Fields[object.schema][error.field[2]]} :
       Blames(field, For(field, Grammar!Parse(object.text).entries))
BlamesNoField ==
  CASE error.code = "NESTING" ->
         /\ error.depth = MAX_NESTING
         /\ \E object \in Visited[job.schema, doc, 0] : object.depth = MAX_NESTING
    [] error.code = "INVALID_SCHEMA" -> ~Known \/ job.schema \notin initialized
    [] error.code = "TYPE" -> error.depth = 0 /\ ~Object(doc)
    [] OTHER -> FALSE

(* The error is the one returned, and when the document is one, the error  *)
(* names a field, an item and a depth where it does not fit the schema in  *)
(* just that way.                                                          *)
ErrorIsTrue ==
  Finished /\ result # "SUCCESS" =>
    /\ error.code = result
    /\ \A values \in {DocumentOf(doc).values} : Accepted(values) /\ NoMatrix(values) =>
         IF error.field = NoField THEN BlamesNoField
         ELSE \E object \in Visited[job.schema, doc, 0] : BlamesObject(object)
=============================================================================
