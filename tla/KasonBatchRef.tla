--------------------------- MODULE KasonBatchRef ---------------------------
(***************************************************************************)
(* The batch parser against the reference grammar.                         *)
(***************************************************************************)
EXTENDS KasonBatch, FiniteSets

Document == DocumentOf(doc)
Stopped == \E k \in DOMAIN reports : reports[k].answer = BREAK
Done(kind) == Idle /\ call.kind = kind

(* The verdict of the selected parser on an object, an array or a string   *)
(* is the grammar's, whatever is selected: the parts nobody asked for are  *)
(* validated too.                                                          *)
RootGoverns == At(doc, Skip(1, Len(doc))) \in {OBJECT_START, ARRAY_START, QUOTE}
SelectedVerdict ==
  Done("SELECTED") /\ ~Stopped /\ RootGoverns =>
    (run.state = "SUCCESS" <=> Accepted(Document.values))

-----------------------------------------------------------------------------
\* The children of a container of a valid document, in order, as reports.
Inside(value, container) ==
  /\ value.begin > container.begin /\ value.end < container.end
  /\ value.level = container.level + 1
InOrder(values) ==
  [k \in 1..Cardinality(values) |->
     CHOOSE v \in values : Cardinality({w \in values : w.begin < v.begin}) = k - 1]
ChildrenOf(container, values) == InOrder({v \in values : Inside(v, container)})
Blanks(first, last) == \A p \in first..last : is_whitespace(doc[p])
\* A report describes a value: a string without its quotes, an array without
\* its brackets and the blanks before the last one.
Describes(report, value) ==
  /\ report.type = value.type
  /\ CASE value.type = "ARRAY" ->
            /\ report.begin = value.begin + 1 /\ Blanks(report.end + 1, value.end - 1)
            /\ report.end >= report.begin => ~is_whitespace(doc[report.end])
            /\ report.count = value.children
       [] value.type = "STRING" ->
            report.begin = value.begin + 1 /\ report.end = value.end - 1
       [] OTHER -> report.begin = value.begin /\ report.end = value.end
AllDescribe(children) ==
  /\ Len(reports) <= Len(children)
  /\ \A k \in DOMAIN reports : Describes(reports[k], children[k])

\* The members of the root whose names, in order, decode to a selected key.
NamesOf(entries) == [k \in DOMAIN entries |-> Decoded(Head(entries[k].key)).bytes]
NamesIn(text) == NamesOf(Grammar!Parse(text).entries)
Root(values) == CHOOSE value \in values : value.level = 0
SelectedOf(members, names) ==
  InOrder({members[k] : k \in {j \in DOMAIN names : names[j] \in call.keys}})

(* The members that are reported are those whose names decode to a key of  *)
(* the table, in the document's order, with their duplicates, each with    *)
(* its own name, slice and count; all of them when the document is valid.  *)
SelectedReports ==
  Done("SELECTED") => \A values \in {Document.values} :
    (Accepted(values) /\ Root(values).type = "OBJECT") =>
      \A names \in {NamesIn(doc)} :
      \A chosen \in {SelectedOf(ChildrenOf(Root(values), values), names)} :
        /\ AllDescribe(chosen)
        /\ ~Stopped => Len(reports) = Len(chosen)
        /\ \A k \in DOMAIN reports :
             Decoded(SliceText(Head(reports[k].key))).bytes \in call.keys

(* A container that is reported has been validated to its end, although    *)
(* the document may turn out malformed further on; not so in a deferred    *)
(* parse.                                                                  *)
Enclosed(report) ==
  IF report.type = "ARRAY" THEN <<ARRAY_START>> \o SliceText(report) \o <<ARRAY_END>>
                           ELSE SliceText(report)
ReportedIsValid ==
  Idle /\ call.kind # "DEFERRED" => \A k \in DOMAIN reports :
    IsContainer(reports[k]) =>
      DocumentOf(Enclosed(reports[k])).end > 0

-----------------------------------------------------------------------------
\* The container that a slice stands for.
StandsFor(slice, value) ==
  /\ value.type = slice.type
  /\ IF slice.whole THEN slice.begin = value.begin /\ slice.end = value.end
     ELSE slice.begin = value.begin + 1 /\ slice.end < value.end /\ Blanks(slice.end + 1, value.end - 1)
\* Neither an array of blanks nor contents that look like an array.
Plain(slice) ==
  slice.type = "ARRAY" =>
    IF slice.whole THEN slice.end = slice.begin + 1 \/ ~Blanks(slice.begin + 1, slice.end - 1)
    ELSE slice.begin > slice.end \/ ~Bracketed(slice)

\* What was parsed stands for a container, whose children were reported.
ReportsChildren(values) ==
  \A value \in values : StandsFor(call.slice, value) =>
    \A children \in {ChildrenOf(value, values)} :
      /\ run.state = "SUCCESS" /\ AllDescribe(children)
      /\ ~Stopped => Len(reports) = Len(children)

(* kason_parse_container reports the children of a captured container, and *)
(* no others, from a slice with its brackets or without.                   *)
ContainerReportsChildren ==
  Done("CONTAINER") /\ Plain(call.slice) =>
    \A values \in {Document.values} : Accepted(values) => ReportsChildren(values)

(* kason_parse_array stores the first elements of an array, up to the      *)
(* capacity, when it is passed the contents of one with elements, as a     *)
(* callback is told them (ArrayValue) and as the tests pass them.  Passed  *)
(* an array with its brackets, the slice that kason.h:379 asks for, it     *)
(* stores the array itself as the only element: the code departs there     *)
(* from its documentation.                                                 *)
Least(m, n) == IF m < n THEN m ELSE n
StoresElements(values) ==
  \A value \in values : StandsFor(call.slice, value) /\ value.children > 0 =>
    /\ Stored = Least(call.capacity, value.children)
    /\ AllDescribe(ChildrenOf(value, values))
StoresItself(values) ==
  \A value \in values : StandsFor(call.slice, value) =>
    Stored = Least(call.capacity, 1) /\ AllDescribe(<<value>>)
ArrayIsStored ==
  Done("ARRAY") => \A values \in {Document.values} : Accepted(values) =>
    IF call.slice.whole THEN StoresItself(values) ELSE StoresElements(values)

(* kason_get_value finds the first member whose name means the key.        *)
FindsFirst(members, names) ==
  LET meant == {k \in DOMAIN names : names[k] = Decoded(call.name).bytes}
  IN  IF meant = {} THEN FoundValue = 0
      ELSE /\ FoundValue = 1
           /\ Describes(reports[1], members[CHOOSE k \in meant : \A j \in meant : k <= j])
ValueIsFound ==
  Done("VALUE") => \A values \in {Document.values} : Accepted(values) =>
    \A value \in values :
      (value.type = "OBJECT" /\ SliceText(value) = SliceText(call.slice)
         /\ value.begin = call.slice.begin) =>
        \A names \in {NamesIn(SliceText(call.slice))} : FindsFirst(ChildrenOf(value, values), names)
=============================================================================
