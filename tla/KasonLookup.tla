---------------------------- MODULE KasonLookup ----------------------------
(***************************************************************************)
(* kason_lookup_table: open addressing over slots the application owns.    *)
(* Keys are added decoded; the selected parser looks up the text of each   *)
(* member's name, still escaped, as soon as it reaches its closing quote,  *)
(* and hashes it in one of two ways: a plain text as it stands, any other  *)
(* one character at a time while it is decoded.                            *)
(*                                                                         *)
(* Decode[t] is what the text t decodes to.  Mix is kason_hash_parts: any  *)
(* function of the first four bytes, the last four and the length.         *)
(***************************************************************************)
EXTENDS KasonText, FiniteSets

CONSTANTS
  Capacity,   \* number of slots
  Keys,       \* keys the application may add
  Texts,      \* names that may stand in a document, without their quotes
  Decode,     \* what each name decodes to
  Mix         \* kason_hash_parts

\* The number of slots is at least one (kason_lookup_table_init).
ASSUME CapacityAssumption == Capacity \in Nat /\ Capacity > 0

-----------------------------------------------------------------------------
(***************************************************************************)
(* Hashing.  Four bytes are packed little-endian into a word, which is the *)
(* same as keeping them in order and putting 0 for a byte that is missing. *)
(***************************************************************************)
Pack(bytes, n) == [j \in 0..3 |-> IF j < n THEN bytes[j] ELSE 0]
Parts(first, last, length) == [first |-> first, last |-> last, length |-> length]
FromZero(k) == [j \in 0..(Len(k) - 1) |-> k[j + 1]]

kason_hash_bytes(k) ==
  IF Len(k) >= 4
  THEN Parts(Pack([j \in 0..3 |-> k[j + 1]], 4),
             Pack([j \in 0..3 |-> k[Len(k) - 3 + j]], 4), Len(k))
  ELSE Parts(Pack(FromZero(k), Len(k)), Pack(FromZero(k), Len(k)), Len(k))

\* kason_hash_sample after the bytes of d: the first four, and a ring in which
\* byte p is at p & 3 until byte p + 4 takes its place.
Latest(S) == CHOOSE p \in S : \A q \in S : q <= p
Ring(d) ==
  [j \in 0..3 |-> LET at == {p \in 0..(Len(d) - 1) : p % 4 = j}
                  IN  IF at = {} THEN 0 ELSE d[Latest(at) + 1]]
SampleLength(d) == IF Len(d) < 4 THEN Len(d) ELSE 4

kason_hash_sample_finish(d) ==
  LET first_index == Len(d) - SampleLength(d)
  IN  Parts(Pack(FromZero(d), SampleLength(d)),
            Pack([j \in 0..3 |-> Ring(d)[(first_index + j) % 4]], SampleLength(d)),
            Len(d))

-----------------------------------------------------------------------------
(***************************************************************************)
(* The text of a name.                                                     *)
(***************************************************************************)
\* No escape and no byte that is not ASCII: key_needs_validation stays FALSE.
Plain(t) == \A p \in 1..Len(t) : t[p] # BACKSLASH /\ t[p] < 128

TextParts(t) == IF Plain(t) THEN kason_hash_bytes(t)
                            ELSE kason_hash_sample_finish(Decode[t].bytes)
TextLength(t) == IF Plain(t) THEN Len(t) ELSE Len(Decode[t].bytes)
\* Mutant: hash and length decide.
EqualsUnchecked(t, k) == TRUE
kason_decoded_key_equals(t, k) ==
  IF Plain(t) THEN t = k ELSE Decode[t].ok /\ Decode[t].bytes = k

Known == Keys \cup {Decode[t].bytes : t \in {u \in Texts : Decode[u].ok}}

\* Keys are strings of bytes, and so are the names and what they decode to;
\* a name without escapes decodes to itself.
ASSUME KeysAssumption == Keys \subseteq Seq(Byte)
ASSUME DecodeAssumption ==
  \A t \in Texts :
    /\ t \in Seq(Byte)
    /\ Decode[t].ok \in BOOLEAN
    /\ Decode[t].ok => Decode[t].bytes \in Seq(Byte)
    /\ Plain(t) => Decode[t] = [ok |-> TRUE, bytes |-> t]
\* kason_hash_parts is a function into the words.
ASSUME MixAssumption == Mix \in [{kason_hash_bytes(k) : k \in Known} -> Nat]

-----------------------------------------------------------------------------
VARIABLES
  slots,      \* the slots in use, a function from their indices to descriptors
  count,      \* table->count
  answer      \* of the last call, and what it was given

vars == <<slots, count, answer>>

Answer(given, result, key) == [given |-> given, result |-> result, key |-> key]
Descriptor(k) == [value |-> k, hash |-> Mix[kason_hash_bytes(k)]]
Indices == 0..(Capacity - 1)

\* The slot looked at after n others, starting where hash points.
Probe(hash, n) ==
  LET index == (hash % Capacity) + n
  IN  IF index < Capacity THEN index ELSE index - Capacity

First(S) == CHOOSE n \in S : \A m \in S : n <= m

-----------------------------------------------------------------------------
\* kason_lookup_table_init
TableInit ==
  /\ slots' = << >> /\ count' = 0
  /\ answer' = Answer(<< >>, "SUCCESS", << >>)

\* Where kason_lookup_table_add stops: a free slot, or the key itself.
AddStops(k) ==
  {n \in Indices :
     LET j == Probe(Mix[kason_hash_bytes(k)], n)
     IN  j \in DOMAIN slots => slots[j] = Descriptor(k)}
\* Mutant: any free slot will do.
AddAtFirstFree(k) == First({j \in 0..Capacity : j \notin DOMAIN slots})
AddAt(k) == Probe(Mix[kason_hash_bytes(k)], First(AddStops(k)))
CanAdd(k) ==
  count < Capacity /\ AddStops(k) # {} /\ AddAt(k) \notin DOMAIN slots

Occupied(j, d) ==
  [x \in DOMAIN slots \cup {j} |-> IF x = j THEN d ELSE slots[x]]

Add(k) ==
  /\ CanAdd(k)
  /\ slots' = Occupied(AddAt(k), Descriptor(k))
  /\ count' = count + 1
  /\ answer' = Answer(k, "SUCCESS", << >>)

\* The table is full, or the key is there already.
Refuse(k) ==
  /\ ~CanAdd(k)
  /\ answer' = Answer(k, "ERROR", << >>)
  /\ UNCHANGED <<slots, count>>

\* Where kason_lookup_find stops: a free slot, or a descriptor that fits.
FindStops(t) ==
  {n \in Indices :
     LET j == Probe(Mix[TextParts(t)], n)
     IN  j \in DOMAIN slots =>
           /\ slots[j].hash = Mix[TextParts(t)]
           /\ Len(slots[j].value) = TextLength(t)
           /\ kason_decoded_key_equals(t, slots[j].value)}
FindAt(t) == Probe(Mix[TextParts(t)], First(FindStops(t)))
Finds(t) == FindStops(t) # {} /\ FindAt(t) \in DOMAIN slots

\* The parser at the closing quote of a name.
Malformed(t) ==
  /\ ~Plain(t) /\ ~Decode[t].ok
  /\ answer' = Answer(t, "ERROR", << >>)
  /\ UNCHANGED <<slots, count>>

Select(t) ==
  /\ Plain(t) \/ Decode[t].ok
  /\ answer' = IF Finds(t) THEN Answer(t, "FOUND", slots[FindAt(t)].value)
                           ELSE Answer(t, "NONE", << >>)
  /\ UNCHANGED <<slots, count>>

Init == slots = << >> /\ count = 0 /\ answer = Answer(<< >>, "SUCCESS", << >>)

Next ==
  \/ TableInit
  \/ \E k \in Keys : Add(k) \/ Refuse(k)
  \/ \E t \in Texts : Malformed(t) \/ Select(t)

Spec == Init /\ [][Next]_vars

-----------------------------------------------------------------------------
(* Every variable has its type; the slots in use are slots of the table.   *)
TypeOK ==
  /\ DOMAIN slots \subseteq Indices
  /\ slots \in [DOMAIN slots -> [value : Keys, hash : Nat]]
  /\ count \in 0..Capacity
  /\ answer \in [given : Seq(Byte), key : Seq(Byte),
                 result : {"SUCCESS", "ERROR", "FOUND", "NONE"}]

(* A search for a stored key reaches its slot: from the slot its hash      *)
(* points to, every slot on the way is in use, by another key.             *)
KeysInReach ==
  \A j \in DOMAIN slots :
    \E n \in Indices :
      /\ j = Probe(slots[j].hash, n)
      /\ \A m \in 0..(n - 1) :
           /\ Probe(slots[j].hash, m) \in DOMAIN slots
           /\ slots[Probe(slots[j].hash, m)].value # slots[j].value

keys == {slots[j].value : j \in DOMAIN slots}
KeySet == INSTANCE KasonKeySet
(* The table is a bounded set of keys, and a name of the document selects  *)
(* the key it spells, however it is escaped and whatever the hashes are.   *)
IsKeySet == KeySet!Spec
=============================================================================
