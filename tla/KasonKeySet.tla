---------------------------- MODULE KasonKeySet ----------------------------
(***************************************************************************)
(* What a kason_lookup_table promises, with no word about hashes and       *)
(* slots: a bounded set of keys, and for the text of a member's name the   *)
(* key of the set that the text spells, if there is one.                   *)
(***************************************************************************)
EXTENDS KasonText, FiniteSets

CONSTANTS Capacity, Keys, Texts, Decode

VARIABLES keys,     \* the keys of the table
          answer    \* of the last call, and what it was given

keySetVars == <<keys, answer>>

Answer(given, result, key) == [given |-> given, result |-> result, key |-> key]

Init == keys = {} /\ answer = Answer(<< >>, "SUCCESS", << >>)

Clear == keys' = {} /\ answer' = Answer(<< >>, "SUCCESS", << >>)

Add(k) ==
  /\ k \notin keys /\ Cardinality(keys) < Capacity
  /\ keys' = keys \cup {k} /\ answer' = Answer(k, "SUCCESS", << >>)

Refuse(k) ==
  /\ k \in keys \/ Cardinality(keys) >= Capacity
  /\ keys' = keys /\ answer' = Answer(k, "ERROR", << >>)

Malformed(t) ==
  /\ ~Decode[t].ok
  /\ keys' = keys /\ answer' = Answer(t, "ERROR", << >>)

Found(t) ==
  /\ Decode[t].ok /\ Decode[t].bytes \in keys
  /\ keys' = keys /\ answer' = Answer(t, "FOUND", Decode[t].bytes)

NotFound(t) ==
  /\ Decode[t].ok /\ Decode[t].bytes \notin keys
  /\ keys' = keys /\ answer' = Answer(t, "NONE", << >>)

Next ==
  \/ Clear
  \/ \E k \in Keys : Add(k) \/ Refuse(k)
  \/ \E t \in Texts : Malformed(t) \/ Found(t) \/ NotFound(t)

Spec == Init /\ [][Next]_keySetVars
=============================================================================
