---------------------------- MODULE KasonEvents ----------------------------
(***************************************************************************)
(* What a kason_stream_callback may count on, with no word about how the   *)
(* document is read: the entries of the root arrive one after the other; a *)
(* container begins with its opening bracket, grows by parts that are not  *)
(* empty and ends with the bracket that closes its type; nothing else      *)
(* arrives while it is open; and nothing at all after the callback has     *)
(* answered KaSON_CALLBACK_BREAK, until the stream is reset.               *)
(***************************************************************************)
EXTENDS KasonText

VARIABLES out,       \* the entries received so far, see Entry
          silent     \* the callback has answered BREAK

eventVars == <<out, silent>>

Opening(type) == IF type = "OBJECT" THEN OBJECT_START ELSE ARRAY_START
Closing(type) == IF type = "OBJECT" THEN OBJECT_END ELSE ARRAY_END
ContainerTypes == {"OBJECT", "ARRAY"}
PrimitiveTypes == {"STRING"} \cup ScalarTypes
Keys == Seq(Seq(Byte))

ContainerOpen == out # << >> /\ out[Len(out)].open

\* One more entry has arrived.
Arrives(types, open) ==
  /\ ~silent /\ ~ContainerOpen
  /\ Len(out') = Len(out) + 1
  /\ LET entry == out'[Len(out) + 1]
     IN  /\ out' = Append(out, entry)
         /\ entry.key \in Keys /\ entry.type \in types
         /\ entry.data \in Seq(Byte) /\ entry.open = open

\* The entry that is open has grown by some bytes.
Grows(open) ==
  /\ ~silent /\ ContainerOpen
  /\ Len(out') = Len(out)
  /\ LET old == out[Len(out)]
         new == out'[Len(out)]
     IN  /\ out' = [out EXCEPT ![Len(out)] = new]
         /\ new = [old EXCEPT !.data = new.data, !.open = open]
         /\ Len(new.data) > Len(old.data)
         /\ SubSeq(new.data, 1, Len(old.data)) = old.data

Init == out = << >> /\ silent = FALSE

\* KaSON_STREAM_EVENT_VALUE
Value ==
  /\ Arrives(PrimitiveTypes, FALSE)
  /\ silent' \in BOOLEAN

\* KaSON_STREAM_EVENT_CONTAINER_BEGIN
Begin ==
  /\ Arrives(ContainerTypes, TRUE)
  /\ LET entry == out'[Len(out')] IN entry.data = <<Opening(entry.type)>>
  /\ silent' \in BOOLEAN

\* KaSON_STREAM_EVENT_CONTAINER_PART
Part ==
  /\ Grows(TRUE)
  /\ silent' \in BOOLEAN

\* KaSON_STREAM_EVENT_CONTAINER_END, with the part that precedes it
End ==
  /\ Grows(FALSE)
  /\ LET entry == out'[Len(out')]
     IN  entry.data[Len(entry.data)] = Closing(entry.type)
  /\ silent' \in BOOLEAN

\* kason_stream_reset
Restart == out' = << >> /\ silent' = FALSE

Next == Value \/ Begin \/ Part \/ End \/ Restart

Spec == Init /\ [][Next]_eventVars
=============================================================================
