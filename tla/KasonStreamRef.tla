--------------------------- MODULE KasonStreamRef ---------------------------
(***************************************************************************)
(* What the chunked parser promises, said of whole documents: it reports   *)
(* the entries that the grammar of KasonGrammar reads, and no others.      *)
(***************************************************************************)
EXTENDS KasonStream, KasonGrammar

CONSTANT Documents      \* complete documents, valid and not

Parsed == [d \in Documents |-> Parse(d)]
ValidDocuments == {d \in Documents : Parsed[d].ok}
EntriesOf(d) == Parsed[d].entries

\* What has been received is the beginning of entries.
Begins(received, entries) ==
  /\ Len(received) <= Len(entries)
  /\ \A k \in 1..Len(received) :
       LET r == received[k]  e == entries[k]
       IN  IF r.open
           THEN /\ k = Len(received) /\ r.key = e.key /\ r.type = e.type
                /\ IsPrefix(r.data, e.data)
           ELSE r = e

(* However a valid document is cut into chunks, the callback receives its  *)
(* entries, in order, each with the document's own bytes and key.          *)
ReportsDocument ==
  phase = "idle" =>
    \A d \in ValidDocuments :
      (IF ended THEN fed = d ELSE IsPrefix(fed, d)) => Begins(out, EntriesOf(d))

(* No chunking makes the parser refuse a valid document: feed reports no   *)
(* error inside it, and finish reports none after the whole of it.         *)
AcceptsValid ==
  (phase = "idle" /\ result = "ERROR") =>
    \A d \in ValidDocuments :
      IsPrefix(fed, d) => ended /\ Len(fed) < Len(d)

\* The deepest nesting of brackets in a container.
Nesting(s) ==
  LET deepest[p \in Nat, open \in Nat] ==
        LET rest == CASE At(s, p) = QUOTE -> deepest[StringAt(s, p).end + 1, open]
                      [] Opens(At(s, p))  -> deepest[p + 1, open + 1]
                      [] Closes(At(s, p)) -> deepest[p + 1, open - 1]
                      [] OTHER            -> deepest[p + 1, open]
        IN  IF p > Len(s) \/ rest < open THEN open ELSE rest
  IN  deepest[1, 0]

\* What an entry can ask of the scratch, wherever the chunks end.
ScratchNeeded(e) ==
  LET key == IF e.key = << >> THEN 0 ELSE Len(e.key[1])
  IN  IF e.type \in {"OBJECT", "ARRAY"}
      THEN LET depth == Nesting(e.data)
           IN  IF depth > key THEN depth ELSE key
      ELSE key + Len(e.data)

(* A valid document fails for lack of scratch only when one of its entries *)
(* does not fit: tokens of earlier entries never take any room.            *)
FullOnlyWhenNeeded ==
  (phase = "idle" /\ result = "BUFFER_FULL") =>
    \A d \in ValidDocuments :
      IsPrefix(fed, d) => \E k \in 1..Len(EntriesOf(d)) :
                            ScratchNeeded(EntriesOf(d)[k]) > ScratchSize - 1

(* A document that completes is valid, and all its entries were reported.  *)
CompletesOnlyValid ==
  (phase = "idle" /\ Active /\ state = "COMPLETE") =>
    Parse(fed) = [ok |-> TRUE, entries |-> out]

(* However it is cut, a document is accepted exactly when the grammar does. *)
VerdictIsGrammars == AcceptsValid /\ CompletesOnlyValid
=============================================================================
