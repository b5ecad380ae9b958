----------------------------- MODULE KasonBatch -----------------------------
(***************************************************************************)
(* The calls that run KasonRun over a document: kason_parse_selected,      *)
(* kason_parse_container, kason_parse_array, kason_get_value and the       *)
(* deferred forms, with the callback of each, and the slices that an       *)
(* application keeps from one call for the next.                           *)
(***************************************************************************)
EXTENDS KasonVerdict

CONSTANTS
  Documents,     \* what an application may pass
  Keys,          \* sets of decoded keys a lookup table may hold
  Names,         \* texts of the names it may look up
  Answers,       \* what its callback may return
  Capacities,    \* of its array for kason_parse_array
  MaxCalls       \* bound: calls for one document

CONTINUE == 0
BREAK    == 1

ASSUME DocumentsAssumption == Documents \subseteq Seq(Byte)
ASSUME AnswersAssumption == Answers \subseteq Int
ASSUME CapacitiesAssumption == Capacities \subseteq Nat

VARIABLES
  calls,     \* number of calls so far
  call,      \* the call in progress or the last one
  run,       \* of it
  reports,   \* of it, or what it stored
  slices     \* descriptors of containers that the application holds; whole:
             \* brackets included (of no matter to the code)

batchVars == <<doc, calls, call, run, reports, slices>>

-----------------------------------------------------------------------------
(***************************************************************************)
(* Calls.                                                                  *)
(***************************************************************************)
NoCall == [kind |-> "NONE", slice |-> [type |-> "INVALID", begin |-> 1, end |-> 0, whole |-> TRUE],
           keys |-> {}, name |-> << >>, capacity |-> 0]
Whole == [type |-> "INVALID", begin |-> 1, end |-> Len(doc), whole |-> TRUE]
Idle == run.state \in {"SUCCESS", "ERROR"}

Begin(kind, slice, start) ==
  /\ Idle /\ calls < MaxCalls
  /\ calls' = calls + 1 /\ reports' = << >> /\ run' = start
  /\ UNCHANGED <<doc, slices>>
Called(kind, slice) == [NoCall EXCEPT !.kind = kind, !.slice = slice]

kason_parse_selected(keys) ==
  /\ Begin("SELECTED", Whole, RunAuto(Whole, 0, TRUE))
  /\ call' = [Called("SELECTED", Whole) EXCEPT !.keys = keys]
kason_parse_deferred_containers ==
  /\ Begin("DEFERRED", Whole, RunAuto(Whole, 0, FALSE))
  /\ call' = Called("DEFERRED", Whole)

kason_parse_container(slice) ==
  /\ Begin("CONTAINER", slice, ContainerRun(slice))
  /\ call' = Called("CONTAINER", slice)
DeferredRun(slice, depth) ==
  CASE slice.type = "OBJECT" -> RunAuto(slice, depth, FALSE)
    [] slice.type = "ARRAY" ->
         IF slice.begin > slice.end THEN Success ELSE RunArray(slice, depth, FALSE)
kason_parse_container_deferred(slice, depth) ==
  /\ Begin("DEFERRED", slice, DeferredRun(slice, depth))
  /\ call' = Called("DEFERRED", slice)

kason_parse_array(slice, capacity) ==
  /\ Begin("ARRAY", slice, RunArray(slice, 0, TRUE))
  /\ call' = [Called("ARRAY", slice) EXCEPT !.capacity = capacity]
kason_get_value(slice, name) ==
  /\ Begin("VALUE", slice, RunAuto(slice, 0, TRUE))
  /\ call' = [Called("VALUE", slice) EXCEPT !.name = name]

\* What the callback of the call is told, or keeps.
\* Mutant: names are compared as they are spelled.
MatchesSpelled(key) == SliceText(key) \in call.keys
Matches(key) == Decoded(SliceText(key)).bytes \in call.keys
\* Mutant: an element too many is stored.
RoomForOneMore == Len(reports) <= call.capacity
Room == Len(reports) < call.capacity
\* Mutant: the search compares spellings.
SameNameSpelled(key) == SliceText(key) = call.name
SameName(key) == kason_strcmp(call.name, SliceText(key)) = 0
Reported ==
  CASE call.kind = "SELECTED" -> run.key # << >> /\ Matches(Head(run.key))
    [] call.kind = "VALUE"    -> run.key # << >> /\ SameName(Head(run.key))
    [] call.kind = "ARRAY"    -> Room
    [] OTHER                  -> TRUE
Answer(answer) ==
  CASE call.kind = "VALUE" -> answer = IF Reported THEN BREAK ELSE CONTINUE
    [] call.kind = "ARRAY" -> answer = CONTINUE
    [] OTHER               -> ~Reported => answer = CONTINUE

Descriptor(value) ==
  [type |-> value.type, begin |-> value.begin, end |-> value.end,
   whole |-> value.type = "OBJECT"]
Report(value, answer) ==
  [key |-> run.key, type |-> value.type, begin |-> value.begin, end |-> value.end,
   count |-> value.count, answer |-> answer]

Value(value, answer) ==
  /\ Valid(run, value) /\ Answer(answer)
  /\ run' = IF answer = BREAK THEN Ended(run, TRUE) ELSE Commit(run, value)
  /\ reports' = IF Reported THEN Append(reports, Report(value, answer)) ELSE reports
  /\ slices' = IF Reported /\ IsContainer(value) THEN slices \cup {Descriptor(value)}
                                                  ELSE slices
BadValue(value) ==
  /\ ~Valid(run, value) /\ run' = Ended(run, FALSE) /\ UNCHANGED <<reports, slices>>
TakeValue ==
  /\ run.state = "VALUE_BEGIN" /\ UNCHANGED <<doc, calls, call>>
  /\ \E value \in {ValueOf(run)} :
       BadValue(value) \/ \E answer \in Answers : Value(value, answer)
Take ==
  /\ run.state \in {"KEY_BEGIN", "PARAM_SEPARATOR", "COMPLETE"}
  /\ run' = Advanced(run) /\ UNCHANGED <<doc, calls, call, reports, slices>>

\* kason_parse_array and kason_get_value.
Stored == IF run.state = "SUCCESS" THEN Len(reports) ELSE -256
FoundValue == IF run.state = "SUCCESS" THEN Len(reports) ELSE 0

-----------------------------------------------------------------------------
\* The application may have captured any container with kason_parse.
Captures(values) ==
  {[type |-> value.type, begin |-> value.begin, end |-> value.end, whole |-> TRUE] :
     value \in {v \in values : IsContainer(v)}}
Init ==
  /\ doc \in Documents /\ calls = 0 /\ call = NoCall /\ run = Success
  /\ reports = << >>
  /\ slices = Captures(Grammar!DocumentWithin(doc, MAX_NESTING).values)

Parse == TakeValue \/ Take
Call ==
  \/ \E keys \in Keys : kason_parse_selected(keys)
  \/ kason_parse_deferred_containers
  \/ \E slice \in slices :
       \/ kason_parse_container(slice)
       \/ \E depth \in 0..MAX_NESTING : kason_parse_container_deferred(slice, depth)
       \/ \E capacity \in Capacities : slice.type = "ARRAY" /\ kason_parse_array(slice, capacity)
  \/ \E name \in Names, slice \in {Whole} \cup {s \in slices : s.type = "OBJECT"} :
       kason_get_value(slice, name)
Next == Parse \/ Call
Spec == Init /\ [][Next]_batchVars
=============================================================================
