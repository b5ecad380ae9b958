--------------------------- MODULE KasonTraversal ---------------------------
(***************************************************************************)
(* What the callback of the action parser may rely on, whatever the        *)
(* document is and whatever it answers: one root, children only inside     *)
(* containers it entered, an end for each container it entered or captured *)
(* and for no other, with the type and the key of its begin, and the end   *)
(* of an entered array counts the children that were reported.  After      *)
(* BREAK, or an answer that an event does not allow, nothing more is       *)
(* reported.                                                               *)
(***************************************************************************)
EXTENDS Integers, Sequences

CONSTANTS ENTER, BREAK, CAPTURE

VARIABLES
  events,    \* all the reports, with the answers
  open,      \* the containers entered or captured and not ended, innermost first
  over       \* nothing more is reported

traversalVars == <<events, open, over>>

Types == {"OBJECT", "ARRAY"}
ChildAllowed ==
  IF open = << >> THEN events = << >> ELSE Head(open).action = ENTER
\* A child has a key just when its container is an object.
KeyAllowed(key) ==
  Len(key) = IF open # << >> /\ Head(open).type = "OBJECT" THEN 1 ELSE 0
WithChild ==
  IF open = << >> THEN << >>
  ELSE <<[Head(open) EXCEPT !.children = @ + 1]>> \o Tail(open)

Report(event) == ~over /\ events' = Append(events, event)

Begin(event) ==
  /\ Report(event) /\ ChildAllowed /\ KeyAllowed(event.key)
  /\ event.event = "BEGIN" /\ event.type \in Types
  /\ event.count = 0
  /\ \/ /\ event.answer \in {ENTER, CAPTURE} /\ UNCHANGED over
        /\ open' = <<[type |-> event.type, key |-> event.key,
                      action |-> event.answer, begin |-> event.begin,
                      children |-> 0]>> \o WithChild
     \/ /\ event.answer \notin {ENTER, CAPTURE}
        /\ open' = WithChild /\ UNCHANGED over
     \/ over' = TRUE /\ UNCHANGED open

Value(event) ==
  /\ Report(event) /\ ChildAllowed /\ KeyAllowed(event.key)
  /\ event.event = "VALUE" /\ event.type \notin Types
  /\ event.count = 1
  /\ \/ event.answer = ENTER /\ open' = WithChild /\ UNCHANGED over
     \/ event.answer # ENTER /\ over' = TRUE /\ UNCHANGED open

End(event) ==
  /\ Report(event) /\ open # << >>
  /\ event.event = "END"
  /\ event.type = Head(open).type /\ event.key = Head(open).key
  /\ event.begin = IF Head(open).action = CAPTURE THEN Head(open).begin ELSE event.end
  /\ (event.type = "ARRAY" /\ Head(open).action = ENTER) =>
       event.count = Head(open).children
  /\ \/ event.answer = ENTER /\ open' = Tail(open) /\ UNCHANGED over
     \/ event.answer # ENTER /\ over' = TRUE /\ UNCHANGED open

Stop == over' = TRUE /\ UNCHANGED <<events, open>>

Init == events = << >> /\ open = << >> /\ over = FALSE
Next ==
  \/ Stop
  \/ events' # events /\ LET event == events'[Len(events')]
                         IN  Begin(event) \/ Value(event) \/ End(event)
Spec == Init /\ [][Next]_traversalVars
=============================================================================
