---------------------------- MODULE KasonPackRef ----------------------------
(***************************************************************************)
(* What kason_pack promises, read off its output: the text is a document   *)
(* of the grammar and says what the struct holds.                          *)
(***************************************************************************)
EXTENDS KasonPack, KasonGrammar

Number(s) ==
  LET digits == IF s[1] = MINUS THEN Tail(s) ELSE s
      horner[p \in 0..Len(digits)] ==
        IF p = 0 THEN 0 ELSE (10 * horner[p - 1]) + (digits[p] - ZERO)
  IN  IF s[1] = MINUS THEN -horner[Len(digits)] ELSE horner[Len(digits)]

\* An entry of a document says v.
ScalarReads(type, v, entry) ==
  CASE type = "BOOL" -> entry.type = IF v = 1 THEN "TRUE" ELSE "FALSE"
    [] type \in {"INT", "INT64", "U32", "U64"} ->
         entry.type = "NUMBER" /\ Number(entry.data) = v
    [] type = "DOUBLE" -> entry.type = "NUMBER" /\ entry.data = v
    [] type = "STRING" ->
         entry.type = "STRING" /\ Decoded(entry.data) = [ok |-> TRUE, bytes |-> Text(v)]
    [] type = "STRING_U16" ->
         entry.type = "STRING" /\ Characters(entry.data) = Scalars16(Text(v))
    [] type = "STRING_U32" ->
         entry.type = "STRING" /\ Characters(entry.data) = Text(v)

\* Two values mean the same: buffers may differ behind their NUL.
RECURSIVE SameValue(_, _, _)
SameValue(field, l, r) ==
  CASE field.array ->
         /\ l.count = r.count
         /\ \A p \in 1..l.count :
              SameValue([field EXCEPT !.array = FALSE], l.items[p], r.items[p])
    [] ~field.array /\ field.type = "STRUCT" ->
         \A i \in DOMAIN Fields[field.child] :
           SameValue(Fields[field.child][i], Objects[l][i], Objects[r][i])
    [] ~field.array /\ field.type \in StringTypes ->
         Terminated(l) /\ Terminated(r) /\ Text(l) = Text(r)
    [] OTHER -> l = r

IsDefault(field, v) ==
  /\ field.policy = "DEFAULT"
  /\ CASE field.array -> v.count = 0
       [] ~field.array /\ field.type \in StringTypes ->
            Terminated(v) /\ Text(v) = field.default
       [] ~field.array /\ field.type = "DOUBLE" -> SameDouble(v, field.default)
       [] OTHER -> SameValue(field, v, field.default)

\* The fields that must be in the text, in order.
Shown(schema, object, omit) ==
  SelectSeq([i \in DOMAIN Fields[schema] |-> i],
            LAMBDA i : ~(omit /\ IsDefault(Fields[schema][i], Objects[object][i])))

RECURSIVE StructReads(_, _, _, _)
ValueReads(field, v, entry, omit) ==
  IF field.type = "STRUCT"
  THEN entry.type = "OBJECT" /\ StructReads(field.child, v, entry.data, omit)
  ELSE ScalarReads(field.type, v, entry)
ArrayReads(field, v, entry, omit) ==
  /\ entry.type = "ARRAY"
  /\ \E read \in {Parse(entry.data)} :
       /\ read.ok /\ Len(read.entries) = v.count
       /\ \A p \in 1..v.count : ValueReads(field, v.items[p], read.entries[p], omit)

StructReads(schema, object, text, omit) ==
  \E read \in {Parse(text)}, shown \in {Shown(schema, object, omit)} :
    /\ read.ok /\ Len(read.entries) = Len(shown)
    /\ \A p \in DOMAIN shown :
         LET field == Fields[schema][shown[p]]
             v     == Objects[object][shown[p]]
             entry == read.entries[p]
         IN  /\ entry.key # << >>
             /\ Decoded(entry.key[1]) = [ok |-> TRUE, bytes |-> field.key]
             /\ IF field.array THEN ArrayReads(field, v, entry, omit)
                ELSE ValueReads(field, v, entry, omit)

(* What was packed with success is a JSON object that reads back as the    *)
(* struct: the fields in the order of the schema, without those that hold  *)
(* their default when these are left out, and every value intact.          *)
PackedReadsBack ==
  (call = "done" /\ result = "SUCCESS") =>
    StructReads(job.root[1], job.root[2], Produced, job.omit)

(* Every call of kason_pack returns.                                       *)
PackReturns == call = "packing" ~> call = "done"
=============================================================================
