---------------------------- MODULE KasonScanRef ----------------------------
(***************************************************************************)
(* The action parser against the reference grammar.                        *)
(***************************************************************************)
EXTENDS KasonScan

Grammar == INSTANCE KasonDocument

Document == Grammar!DocumentWithin(doc, MAX_NESTING)
LegalAnswers ==
  \A k \in DOMAIN events :
    events[k].answer \in IF events[k].event = "BEGIN" THEN {ENTER, CAPTURE, SKIP, BREAK}
                                                      ELSE {ENTER, BREAK}

(* The verdict on a document is the grammar's, and does not depend on      *)
(* which of its containers were entered, captured or skipped.              *)
VerdictIsGrammars ==
  pc = "done" /\ result # "NULL_CALLBACK" /\ ~stopped /\ LegalAnswers =>
    (result = "SUCCESS" <=> Document.end > 0)

(* What is reported of a valid document is true of it: type, slice, and    *)
(* the number of children of an array, at its end.                         *)
Reports(event, value) ==
  /\ event.type = value.type
  /\ CASE event.event = "BEGIN" -> event.begin = value.begin
       [] event.event = "VALUE" /\ event.type = "STRING" ->
            event.begin = value.begin + 1 /\ event.end = value.end - 1
       [] event.event = "VALUE" /\ event.type # "STRING" ->
            event.begin = value.begin /\ event.end = value.end
       [] event.event = "END" ->
            /\ event.end = value.end /\ event.begin \in {value.begin, value.end}
            /\ event.type = "ARRAY" => event.count = value.children
ReportsAreTrue ==
  pc = "done" => \A values \in {Document.values} :
    values # {} => \A k \in DOMAIN events : \E value \in values : Reports(events[k], value)

\* The container was begun and its children are not reported.
Closed(value) ==
  \E k \in DOMAIN events :
    /\ events[k].event = "BEGIN" /\ events[k].begin = value.begin
    /\ events[k].answer \in {CAPTURE, SKIP}
Within(value, container) ==
  value.begin > container.begin /\ value.end < container.end

(* A document that is read to its end has had every value reported but     *)
(* those inside a container that was captured or skipped.                  *)
NothingIsMissed ==
  (result = "SUCCESS" /\ ~stopped) => \A values \in {Document.values} :
    \A value \in values :
      \/ \E k \in DOMAIN events :
           events[k].event # "END" /\ Reports(events[k], value)
      \/ \E container \in values : Within(value, container) /\ Closed(container)

(* What is reported and what is not are settled by the document and by the *)
(* answers.                                                                *)
ReportsAreExact == ReportsAreTrue /\ NothingIsMissed

(* Every call returns. *)
CallReturns == pc # "idle" ~> pc = "done"
=============================================================================
