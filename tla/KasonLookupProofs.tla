------------------------- MODULE KasonLookupProofs -------------------------
(***************************************************************************)
(* Proofs about the lookup table, for every capacity, set of keys, hash    *)
(* function and set of names.  The invariant IInv says that each slot in   *)
(* use holds a key under its own hash, each key once, that a search for a  *)
(* stored key reaches it, and that count counts.  Two facts carry the      *)
(* rest: the two ways of hashing agree (SampleAgrees, TextAgrees), and so  *)
(* the search for a name stops where an addition of its key would          *)
(* (FindStopsWhereAddWould).                                               *)
(***************************************************************************)
EXTENDS KasonLookup, FiniteSetTheorems, WellFoundedInduction, TLAPS

(* A set of numbers that is bounded and not empty has a least one.         *)
LEMMA Least ==
  ASSUME NEW S \in SUBSET Nat, S # {}
  PROVE  First(S) \in S /\ \A m \in S : First(S) <= m
<1> DEFINE Below == {0..n : n \in S}
           R == StrictSubsetOrdering(Nat)
<1>1. Below \subseteq FiniteSubsetsOf(Nat) /\ Below # {}
  <2>1. \A n \in S : IsFiniteSet(0..n) /\ 0..n \subseteq Nat
    BY FS_Interval
  <2> QED BY <2>1 DEF FiniteSubsetsOf
<1>2. PICK x \in Below : \A y \in Below : ~(<<y, x>> \in R)
  <2>1. IsWellFoundedOn(R, FiniteSubsetsOf(Nat))
    BY FS_StrictSubsetOrderingWellFounded
  <2> HIDE DEF R, Below
  <2> QED BY <2>1, <1>1, WFMin
<1>3. PICK n \in S : x = 0..n
  OBVIOUS
<1>4. ASSUME NEW m \in S PROVE n <= m
  <2>1. SUFFICES ASSUME m < n PROVE FALSE
    OBVIOUS
  <2>2. 0..m \in Below /\ 0..m \in SUBSET Nat /\ 0..n \in SUBSET Nat
    OBVIOUS
  <2>3. 0..m \subseteq 0..n /\ n \in 0..n /\ n \notin 0..m
    BY <2>1
  <2>4. <<0..m, 0..n>> \in R
    BY <2>2, <2>3 DEF StrictSubsetOrdering
  <2> QED BY <2>2, <2>4, <1>2, <1>3
<1> QED BY <1>4 DEF First

(* kason_hash_sample, which sees a key one byte at a time while it is      *)
(* decoded, gives what kason_hash_bytes gives for the whole key.           *)
LEMMA SampleAgrees ==
  ASSUME NEW d \in Seq(Byte)
  PROVE  kason_hash_sample_finish(d) = kason_hash_bytes(d)
<1>1. Len(d) \in Nat /\ DOMAIN d = 1..Len(d)
  OBVIOUS
<1>2. CASE Len(d) < 4
  <2>1. SampleLength(d) = Len(d)
    BY <1>2 DEF SampleLength
  <2>2. ASSUME NEW j \in 0..3, j < Len(d)
        PROVE  Ring(d)[j] = FromZero(d)[j]
    <3> DEFINE at == {p \in 0..(Len(d) - 1) : p % 4 = j}
    <3>1. at = {j}
      BY <1>1, <1>2, <2>2
    <3>2. Latest(at) = j
      BY <3>1 DEF Latest
    <3> QED BY <3>1, <3>2, <1>1, <2>2 DEF Ring, FromZero
  <2>3. \A j \in 0..3 : (0 + j) % 4 = j
    OBVIOUS
  <2>4. Pack([j \in 0..3 |-> Ring(d)[(0 + j) % 4]], Len(d))
          = Pack(FromZero(d), Len(d))
    BY <2>2, <2>3 DEF Pack
  <2> QED BY <2>1, <2>4, <1>1, <1>2 DEF kason_hash_sample_finish, kason_hash_bytes
<1>3. CASE Len(d) >= 4
  <2>1. SampleLength(d) = 4
    BY <1>1, <1>3 DEF SampleLength
  <2>2. ASSUME NEW j \in 0..3
        PROVE  Ring(d)[(Len(d) - 4 + j) % 4] = d[Len(d) - 3 + j]
    <3> DEFINE r == (Len(d) - 4 + j) % 4
               at == {p \in 0..(Len(d) - 1) : p % 4 = r}
    <3>1. r \in 0..3
      BY <1>1, <1>3
    <3>2. Len(d) - 4 + j \in at
      BY <1>1, <1>3
    <3>3. \A p \in at : p <= Len(d) - 4 + j
      BY <1>1, <1>3
    <3>4. Latest(at) = Len(d) - 4 + j
      <4> HIDE DEF at
      <4>1. \A p \in at : p \in Int
        BY DEF at
      <4> QED BY <3>2, <3>3, <4>1, <1>1 DEF Latest
    <3>5. Ring(d)[r] = d[Latest(at) + 1]
      <4> HIDE DEF r
      <4> QED BY <3>1, <3>2 DEF Ring
    <3> QED BY <3>4, <3>5, <1>1
  <2>3. Pack([j \in 0..3 |-> Ring(d)[(Len(d) - 4 + j) % 4]], 4)
          = Pack([j \in 0..3 |-> d[Len(d) - 3 + j]], 4)
    BY <2>2 DEF Pack
  <2>4. Pack(FromZero(d), 4) = Pack([j \in 0..3 |-> d[j + 1]], 4)
    BY <1>1, <1>3 DEF Pack, FromZero
  <2> QED BY <2>1, <2>3, <2>4, <1>1, <1>3
          DEF kason_hash_sample_finish, kason_hash_bytes
<1> QED BY <1>1, <1>2, <1>3

-----------------------------------------------------------------------------
(* The hash of a key, or of a decoded name, is a number.                   *)
LEMMA HashType ==
  ASSUME NEW k \in Known
  PROVE  Mix[kason_hash_bytes(k)] \in Nat
BY MixAssumption

(* What a name decodes to is a string of bytes that has a hash.            *)
LEMMA DecodedIsKnown ==
  ASSUME NEW t \in Texts, Decode[t].ok
  PROVE  Decode[t].bytes \in Known /\ Decode[t].bytes \in Seq(Byte)
BY DecodeAssumption DEF Known

(* Plain or not, the text of a name has the hash and the length of what it *)
(* decodes to, and is equal to that key only.                              *)
LEMMA TextAgrees ==
  ASSUME NEW t \in Texts, Decode[t].ok
  PROVE  /\ TextParts(t) = kason_hash_bytes(Decode[t].bytes)
         /\ TextLength(t) = Len(Decode[t].bytes)
         /\ \A k : kason_decoded_key_equals(t, k) <=> k = Decode[t].bytes
<1>1. CASE Plain(t)
  <2>1. Decode[t].bytes = t
    <3>1. Decode[t] = [ok |-> TRUE, bytes |-> t]
      BY <1>1, DecodeAssumption, Zenon
    <3> QED BY <3>1
  <2> QED BY <1>1, <2>1 DEF TextParts, TextLength, kason_decoded_key_equals
<1>2. CASE ~Plain(t)
  BY <1>2, DecodedIsKnown, SampleAgrees
     DEF TextParts, TextLength, kason_decoded_key_equals
<1> QED BY <1>1, <1>2

(* Probing stays in the table and comes to every slot of it.               *)
LEMMA ProbeInTable ==
  ASSUME NEW hash \in Nat
  PROVE  /\ \A n \in Indices : Probe(hash, n) \in Indices
         /\ \A j \in Indices : \E n \in Indices : Probe(hash, n) = j
<1> DEFINE b == hash % Capacity
<1>1. b \in 0..(Capacity - 1)
  BY CapacityAssumption
<1>2. \A n \in Int :
        Probe(hash, n) = IF b + n < Capacity THEN b + n ELSE b + n - Capacity
  BY <1>1, CapacityAssumption DEF Probe
<1> HIDE DEF b
<1>3. ASSUME NEW n \in Indices PROVE Probe(hash, n) \in Indices
  BY <1>1, <1>2, CapacityAssumption DEF Indices
<1>4. ASSUME NEW j \in Indices
      PROVE  \E n \in Indices : Probe(hash, n) = j
  <2>1. CASE b <= j
    <3>1. j - b \in Indices /\ Probe(hash, j - b) = j
      BY <1>1, <1>2, <2>1, CapacityAssumption DEF Indices
    <3> QED BY <3>1
  <2>2. CASE j < b
    <3>1. j - b + Capacity \in Indices /\ Probe(hash, j - b + Capacity) = j
      BY <1>1, <1>2, <2>2, CapacityAssumption DEF Indices
    <3> QED BY <3>1
  <2> QED BY <1>1, <2>1, <2>2, CapacityAssumption DEF Indices
<1> QED BY <1>3, <1>4

-----------------------------------------------------------------------------
\* Each slot in use holds a key under its own hash.
Hashed == \A j \in DOMAIN slots : slots[j] = Descriptor(slots[j].value)
\* No key is in two slots.
Distinct ==
  \A i, j \in DOMAIN slots : slots[i].value = slots[j].value => i = j
\* As many slots in use, and as many keys, as count says.
Counted ==
  /\ IsFiniteSet(DOMAIN slots) /\ Cardinality(DOMAIN slots) = count
  /\ IsFiniteSet(keys) /\ Cardinality(keys) = count

IInv == TypeOK /\ Hashed /\ KeysInReach /\ Distinct /\ Counted

(* kason_lookup_find stops where kason_lookup_table_add would.             *)
LEMMA FindStopsWhereAddWould ==
  ASSUME Hashed, NEW t \in Texts, Decode[t].ok
  PROVE  FindStops(t) = AddStops(Decode[t].bytes)
<1> DEFINE d == Decode[t].bytes
<1>1. ASSUME NEW j \in DOMAIN slots
      PROVE  (/\ slots[j].hash = Mix[TextParts(t)]
              /\ Len(slots[j].value) = TextLength(t)
              /\ kason_decoded_key_equals(t, slots[j].value))
             <=> slots[j] = Descriptor(d)
  BY TextAgrees DEF Hashed, Descriptor
<1>2. Mix[TextParts(t)] = Mix[kason_hash_bytes(d)]
  BY TextAgrees
<1> QED BY <1>1, <1>2 DEF FindStops, AddStops

(* The search for a stored key stops at its slot and at no other.          *)
LEMMA StoredIsReached ==
  ASSUME IInv, NEW j \in DOMAIN slots, NEW d, d = slots[j].value
  PROVE  AddStops(d) # {} /\ AddAt(d) = j
<1> DEFINE h == Mix[kason_hash_bytes(d)]
<1>1. slots[j] = Descriptor(d) /\ slots[j].hash = h
  BY DEF IInv, Hashed, Descriptor
<1>2. PICK n \in Indices :
        /\ j = Probe(h, n)
        /\ \A m \in 0..(n - 1) : /\ Probe(h, m) \in DOMAIN slots
                                 /\ slots[Probe(h, m)].value # d
  <2>1. KeysInReach
    BY DEF IInv
  <2>2. PICK n \in Indices :
          /\ j = Probe(slots[j].hash, n)
          /\ \A m \in 0..(n - 1) :
               /\ Probe(slots[j].hash, m) \in DOMAIN slots
               /\ slots[Probe(slots[j].hash, m)].value # slots[j].value
    BY <2>1 DEF KeysInReach
  <2> HIDE DEF h
  <2> QED BY <2>2, <1>1
<1>3. n \in AddStops(d)
  BY <1>1, <1>2 DEF AddStops
<1>4. ASSUME NEW m \in AddStops(d) PROVE n <= m
  <2>1. SUFFICES ASSUME m < n PROVE FALSE
    BY CapacityAssumption DEF AddStops, Indices
  <2>2. m \in 0..(n - 1)
    BY <2>1 DEF AddStops, Indices
  <2>3. slots[Probe(h, m)] = Descriptor(d)
    BY <1>2, <2>2 DEF AddStops
  <2>4. slots[Probe(h, m)].value = d
    BY <2>3 DEF Descriptor
  <2> QED BY <1>2, <2>2, <2>4
<1>5. AddStops(d) \in SUBSET Nat /\ n \in Nat
  BY CapacityAssumption DEF AddStops, Indices
<1>6. First(AddStops(d)) = n
  <2>1. /\ First(AddStops(d)) \in AddStops(d)
        /\ First(AddStops(d)) <= n
    BY <1>3, <1>5, Least
  <2> QED BY <1>4, <1>5, <2>1
<1> QED BY <1>2, <1>3, <1>6 DEF AddAt

(* The search for an absent key stops, if it does, at a free slot, and all *)
(* the slots before it are in use.                                         *)
LEMMA AbsentIsFree ==
  ASSUME TypeOK, NEW d \in Known, d \notin keys, AddStops(d) # {}
  PROVE  /\ AddAt(d) \in Indices /\ AddAt(d) \notin DOMAIN slots
         /\ First(AddStops(d)) \in Indices
         /\ \A m \in 0..(First(AddStops(d)) - 1) :
              Probe(Mix[kason_hash_bytes(d)], m) \in DOMAIN slots
<1> DEFINE h == Mix[kason_hash_bytes(d)]
           n == First(AddStops(d))
<1>1. AddStops(d) \in SUBSET Nat /\ AddStops(d) \in SUBSET Indices
  BY CapacityAssumption DEF AddStops, Indices
<1>2. n \in AddStops(d) /\ \A m \in AddStops(d) : n <= m
  BY <1>1, Least
<1>3. AddAt(d) \notin DOMAIN slots
  BY <1>2 DEF AddStops, AddAt, keys, Descriptor
<1>4. AddAt(d) \in Indices
  BY <1>1, <1>2, HashType, ProbeInTable DEF AddAt
<1>5. ASSUME NEW m \in 0..(n - 1) PROVE Probe(h, m) \in DOMAIN slots
  <2>1. m \in Indices /\ ~(n <= m)
    BY <1>1, <1>2, CapacityAssumption DEF Indices
  <2> QED BY <1>2, <2>1 DEF AddStops
<1> QED BY <1>1, <1>2, <1>3, <1>4, <1>5

(* While there is room, a search stops.                                    *)
LEMMA RoomIsFound ==
  ASSUME TypeOK, Counted, count < Capacity, NEW d \in Known
  PROVE  AddStops(d) # {}
<1> DEFINE h == Mix[kason_hash_bytes(d)]
<1>1. PICK j \in Indices : j \notin DOMAIN slots
  <2>1. SUFFICES ASSUME DOMAIN slots = Indices PROVE FALSE
    BY DEF TypeOK
  <2>2. Cardinality(Indices) = Capacity
    BY CapacityAssumption, FS_Interval DEF Indices
  <2> QED BY <2>1, <2>2, CapacityAssumption DEF Counted, TypeOK
<1>2. PICK n \in Indices : Probe(h, n) = j
  BY HashType, ProbeInTable
<1> QED BY <1>1, <1>2 DEF AddStops

(* A key is added exactly when it is new and there is room.                *)
LEMMA AddIsAllowed ==
  ASSUME IInv, NEW k \in Keys
  PROVE  CanAdd(k) <=> k \notin keys /\ Cardinality(keys) < Capacity
<1>1. k \in Known
  BY DEF Known
<1>2. ASSUME k \in keys PROVE ~CanAdd(k)
  <2>1. PICK j \in DOMAIN slots : k = slots[j].value
    BY <1>2 DEF keys
  <2> QED BY <2>1, StoredIsReached DEF CanAdd
<1>3. ASSUME k \notin keys, count < Capacity PROVE CanAdd(k)
  BY <1>1, <1>3, RoomIsFound, AbsentIsFree DEF IInv, CanAdd
<1>4. Cardinality(keys) = count
  BY DEF IInv, Counted
<1> QED BY <1>2, <1>3, <1>4 DEF CanAdd

(* A search by the text of a name finds the key it decodes to, exactly     *)
(* when that key is there.                                                 *)
LEMMA FindsTheKey ==
  ASSUME IInv, NEW t \in Texts, Decode[t].ok
  PROVE  /\ Finds(t) <=> Decode[t].bytes \in keys
         /\ Finds(t) => slots[FindAt(t)].value = Decode[t].bytes
<1> DEFINE d == Decode[t].bytes
<1>1. FindStops(t) = AddStops(d) /\ FindAt(t) = AddAt(d)
  BY FindStopsWhereAddWould, TextAgrees DEF IInv, FindAt, AddAt
<1>2. CASE d \in keys
  <2>1. PICK j \in DOMAIN slots : d = slots[j].value
    BY <1>2 DEF keys
  <2>2. AddStops(d) # {} /\ AddAt(d) = j
    BY <2>1, StoredIsReached
  <2> QED BY <1>1, <1>2, <2>1, <2>2 DEF Finds
<1>3. CASE d \notin keys
  <2>1. d \in Known
    BY DecodedIsKnown
  <2> QED BY <1>1, <1>3, <2>1, AbsentIsFree DEF Finds, IInv
<1> QED BY <1>2, <1>3

(* The invariant holds at first.                                           *)
LEMMA InitIInv == Init => IInv
<1> SUFFICES ASSUME Init PROVE IInv
  OBVIOUS
<1> USE DEF Init
<1>1. DOMAIN slots = {} /\ keys = {}
  BY DEF keys
<1>2. << >> \in Seq(Byte)
  OBVIOUS
<1>3. TypeOK
  BY <1>1, <1>2, CapacityAssumption DEF TypeOK, Answer
<1>4. Counted
  BY <1>1, FS_EmptySet DEF Counted
<1> QED BY <1>1, <1>3, <1>4 DEF IInv, Hashed, KeysInReach, Distinct

(* kason_lookup_table_init establishes the invariant again.                *)
LEMMA EmptyTable ==
  ASSUME IInv, TableInit PROVE IInv'
<1> USE DEF TableInit
<1>1. DOMAIN slots' = {} /\ keys' = {}
  BY DEF keys
<1>2. << >> \in Seq(Byte)
  OBVIOUS
<1>3. TypeOK'
  BY <1>1, <1>2, CapacityAssumption DEF TypeOK, Answer
<1>4. Counted'
  BY <1>1, FS_EmptySet DEF Counted
<1> QED BY <1>1, <1>3, <1>4 DEF IInv, Hashed, KeysInReach, Distinct

(* A call that leaves the table alone keeps the invariant.                 *)
LEMMA TableUnchanged ==
  ASSUME IInv, UNCHANGED <<slots, count>>,
         answer' \in [given : Seq(Byte), key : Seq(Byte),
                      result : {"SUCCESS", "ERROR", "FOUND", "NONE"}]
  PROVE  IInv' /\ keys' = keys
<1>1. keys' = keys
  BY DEF keys
<1>2. TypeOK'
  BY DEF IInv, TypeOK
<1>3. Hashed' /\ KeysInReach' /\ Distinct'
  BY DEF IInv, Hashed, KeysInReach, Distinct
<1>4. Counted'
  BY <1>1 DEF IInv, Counted
<1> QED BY <1>1, <1>2, <1>3, <1>4 DEF IInv

(* A successful addition keeps the invariant and adds that key only.       *)
LEMMA OneMore ==
  ASSUME IInv, NEW k \in Keys, Add(k)
  PROVE  IInv' /\ keys' = keys \cup {k}
<1> DEFINE j == AddAt(k)
           h == Mix[kason_hash_bytes(k)]
           n == First(AddStops(k))
<1>1. k \in Known /\ h \in Nat /\ k \in Seq(Byte)
  BY HashType, KeysAssumption DEF Known
<1>2. k \notin keys /\ count < Capacity /\ AddStops(k) # {}
  BY AddIsAllowed DEF Add, CanAdd
<1>3. /\ j \in Indices /\ j \notin DOMAIN slots
      /\ n \in Indices /\ j = Probe(h, n)
      /\ \A m \in 0..(n - 1) : Probe(h, m) \in DOMAIN slots
  BY <1>1, <1>2, AbsentIsFree DEF IInv, AddAt
<1> HIDE DEF j, n
<1>4. slots' = Occupied(j, Descriptor(k)) /\ count' = count + 1
      /\ answer' = Answer(k, "SUCCESS", << >>)
  BY DEF Add, j
<1>5. /\ DOMAIN slots' = DOMAIN slots \cup {j}
      /\ slots'[j] = Descriptor(k)
      /\ \A x \in DOMAIN slots : slots'[x] = slots[x]
  BY <1>3, <1>4 DEF Occupied
<1>6. keys' = keys \cup {k}
  BY <1>5 DEF keys, Descriptor
<1>7. TypeOK'
  <2>1. DOMAIN slots' \subseteq Indices
    BY <1>3, <1>5 DEF IInv, TypeOK
  <2>2. slots' \in [DOMAIN slots' -> [value : Keys, hash : Nat]]
    <3>1. Descriptor(k) \in [value : Keys, hash : Nat]
      BY <1>1 DEF Descriptor
    <3>2. \A x \in DOMAIN slots' : slots'[x] \in [value : Keys, hash : Nat]
      BY <1>5, <3>1 DEF IInv, TypeOK
    <3>3. slots' = [x \in DOMAIN slots' |-> slots'[x]]
      BY <1>4 DEF Occupied
    <3> QED BY <3>2, <3>3
  <2>3. count' \in 0..Capacity
    BY <1>2, <1>4, CapacityAssumption DEF IInv, TypeOK
  <2>4. << >> \in Seq(Byte)
    OBVIOUS
  <2> QED BY <1>1, <1>4, <2>1, <2>2, <2>3, <2>4 DEF TypeOK, Answer
<1>8. Hashed'
  BY <1>5 DEF IInv, Hashed, Descriptor
<1>9. KeysInReach'
  <2>1. ASSUME NEW x \in DOMAIN slots
        PROVE  \E p \in Indices :
                 /\ x = Probe(slots'[x].hash, p)
                 /\ \A m \in 0..(p - 1) :
                      /\ Probe(slots'[x].hash, m) \in DOMAIN slots'
                      /\ slots'[Probe(slots'[x].hash, m)].value # slots'[x].value
    <3>1. KeysInReach /\ slots'[x] = slots[x]
      BY <1>5 DEF IInv
    <3>2. PICK p \in Indices :
            /\ x = Probe(slots[x].hash, p)
            /\ \A m \in 0..(p - 1) :
                 /\ Probe(slots[x].hash, m) \in DOMAIN slots
                 /\ slots[Probe(slots[x].hash, m)].value # slots[x].value
      BY <3>1 DEF KeysInReach
    <3> QED BY <1>5, <3>1, <3>2
  <2>2. /\ slots'[j].hash = h /\ slots'[j].value = k
        /\ \A x \in DOMAIN slots : slots'[x].value # k
    BY <1>2, <1>5 DEF keys, Descriptor
  <2>3. \A m \in 0..(n - 1) :
          /\ Probe(h, m) \in DOMAIN slots'
          /\ slots'[Probe(h, m)].value # k
    BY <1>3, <1>5, <2>2
  <2>4. \E p \in Indices :
          /\ j = Probe(slots'[j].hash, p)
          /\ \A m \in 0..(p - 1) :
               /\ Probe(slots'[j].hash, m) \in DOMAIN slots'
               /\ slots'[Probe(slots'[j].hash, m)].value # slots'[j].value
    <3> HIDE DEF h
    <3> QED BY <1>3, <2>2, <2>3
  <2>5. \A x \in DOMAIN slots' : x \in DOMAIN slots \/ x = j
    BY <1>5
  <2> QED BY <2>1, <2>4, <2>5 DEF KeysInReach
<1>10. Distinct'
  <2>1. \A x \in DOMAIN slots : slots'[x].value # slots'[j].value
    BY <1>2, <1>5 DEF keys, Descriptor
  <2> QED BY <1>5, <2>1 DEF IInv, Distinct
<1>11. Counted'
  <2>1. /\ IsFiniteSet(DOMAIN slots') /\ Cardinality(DOMAIN slots') = count + 1
        /\ IsFiniteSet(keys') /\ Cardinality(keys') = count + 1
    BY <1>2, <1>3, <1>5, <1>6, FS_AddElement DEF IInv, Counted
  <2> QED BY <1>4, <2>1 DEF Counted
<1> QED BY <1>6, <1>7, <1>8, <1>9, <1>10, <1>11 DEF IInv

(* The cardinality the abstract set speaks of is the one of this module.   *)
LEMMA SameCardinality == \A S : KeySet!Cardinality(S) = Cardinality(S)
BY DEF KeySet!Cardinality, Cardinality

(* What a lookup answers.                                                  *)
LEMMA AnswerType ==
  ASSUME NEW given \in Seq(Byte), NEW key \in Seq(Byte),
         NEW result \in {"SUCCESS", "ERROR", "FOUND", "NONE"}
  PROVE  Answer(given, result, key)
           \in [given : Seq(Byte), key : Seq(Byte),
                result : {"SUCCESS", "ERROR", "FOUND", "NONE"}]
BY DEF Answer

(* A call that the table refuses leaves it as it was.                      *)
LEMMA RefuseStep ==
  ASSUME IInv, NEW k \in Keys, Refuse(k)
  PROVE  IInv' /\ KeySet!Refuse(k)
<1>1. k \in Seq(Byte) /\ << >> \in Seq(Byte)
  BY KeysAssumption
<1>2. answer' = Answer(k, "ERROR", << >>)
  BY DEF Refuse
<1>3. IInv' /\ keys' = keys
  <2>1. answer' \in [given : Seq(Byte), key : Seq(Byte),
                     result : {"SUCCESS", "ERROR", "FOUND", "NONE"}]
    BY <1>1, <1>2, AnswerType
  <2>2. UNCHANGED <<slots, count>>
    BY DEF Refuse
  <2> QED BY <2>1, <2>2, TableUnchanged
<1>4. k \in keys \/ Cardinality(keys) >= Capacity
  <2>1. Cardinality(keys) \in Nat /\ Capacity \in Nat
    BY CapacityAssumption DEF IInv, Counted, TypeOK
  <2> QED BY <2>1, AddIsAllowed DEF Refuse
<1> QED BY <1>2, <1>3, <1>4, SameCardinality
        DEF KeySet!Refuse, KeySet!Answer, Answer

(* A name that does not decode is an error.                                *)
LEMMA MalformedStep ==
  ASSUME IInv, NEW t \in Texts, Malformed(t)
  PROVE  IInv' /\ KeySet!Malformed(t)
<1>1. t \in Seq(Byte) /\ << >> \in Seq(Byte)
  <2>1. t \in Seq(Byte)
    BY DecodeAssumption, Zenon
  <2> QED BY <2>1
<1>2. answer' = Answer(t, "ERROR", << >>) /\ ~Decode[t].ok
  BY DEF Malformed
<1>3. IInv' /\ keys' = keys
  <2>1. answer' \in [given : Seq(Byte), key : Seq(Byte),
                     result : {"SUCCESS", "ERROR", "FOUND", "NONE"}]
    BY <1>1, <1>2, AnswerType
  <2>2. UNCHANGED <<slots, count>>
    BY DEF Malformed
  <2> QED BY <2>1, <2>2, TableUnchanged
<1> QED BY <1>2, <1>3 DEF KeySet!Malformed, KeySet!Answer, Answer

(* Any other name selects the key it spells, or none.                      *)
LEMMA SelectStep ==
  ASSUME IInv, NEW t \in Texts, Select(t)
  PROVE  IInv' /\ (KeySet!Found(t) \/ KeySet!NotFound(t))
<1>1. Decode[t].ok
  <2>1. CASE Plain(t)
    <3>1. Decode[t] = [ok |-> TRUE, bytes |-> t]
      BY <2>1, DecodeAssumption, Zenon
    <3> QED BY <3>1
  <2> QED BY <2>1 DEF Select
<1>2. /\ t \in Seq(Byte) /\ << >> \in Seq(Byte)
      /\ Decode[t].bytes \in Seq(Byte)
  <2>1. t \in Seq(Byte) /\ Decode[t].bytes \in Seq(Byte)
    BY <1>1, DecodeAssumption, Zenon
  <2> QED BY <2>1
<1>3. /\ Finds(t) <=> Decode[t].bytes \in keys
      /\ Finds(t) => slots[FindAt(t)].value = Decode[t].bytes
  BY <1>1, FindsTheKey
<1>4. CASE Finds(t)
  <2>1. answer' = Answer(t, "FOUND", Decode[t].bytes)
    BY <1>3, <1>4 DEF Select
  <2>2. IInv' /\ keys' = keys
    <3>1. answer' \in [given : Seq(Byte), key : Seq(Byte),
                       result : {"SUCCESS", "ERROR", "FOUND", "NONE"}]
      BY <1>2, <2>1, AnswerType
    <3>2. UNCHANGED <<slots, count>>
      BY DEF Select
    <3> QED BY <3>1, <3>2, TableUnchanged
  <2> QED BY <1>1, <1>3, <1>4, <2>1, <2>2
          DEF KeySet!Found, KeySet!Answer, Answer
<1>5. CASE ~Finds(t)
  <2>1. answer' = Answer(t, "NONE", << >>)
    BY <1>5 DEF Select
  <2>2. IInv' /\ keys' = keys
    <3>1. answer' \in [given : Seq(Byte), key : Seq(Byte),
                       result : {"SUCCESS", "ERROR", "FOUND", "NONE"}]
      BY <1>2, <2>1, AnswerType
    <3>2. UNCHANGED <<slots, count>>
      BY DEF Select
    <3> QED BY <3>1, <3>2, TableUnchanged
  <2> QED BY <1>1, <1>3, <1>5, <2>1, <2>2
          DEF KeySet!NotFound, KeySet!Answer, Answer
<1> QED BY <1>4, <1>5

(* Every step keeps the invariant and is a step of the set, or none.       *)
LEMMA StepIsKeySetStep ==
  ASSUME IInv, [Next]_vars
  PROVE  IInv' /\ [KeySet!Next]_(KeySet!keySetVars)
<1>1. CASE TableInit
  <2>1. keys' = {} /\ answer' = Answer(<< >>, "SUCCESS", << >>)
    BY <1>1 DEF TableInit, keys
  <2> QED BY <1>1, <2>1, EmptyTable
          DEF KeySet!Next, KeySet!Clear, KeySet!Answer, Answer
<1>2. ASSUME NEW k \in Keys, Add(k)
      PROVE  IInv' /\ KeySet!Next
  <2>1. IInv' /\ keys' = keys \cup {k}
    BY <1>2, OneMore
  <2>2. k \notin keys /\ Cardinality(keys) < Capacity
    BY <1>2, AddIsAllowed DEF Add
  <2>3. answer' = Answer(k, "SUCCESS", << >>)
    BY <1>2 DEF Add
  <2>4. KeySet!Add(k)
    BY <2>1, <2>2, <2>3, SameCardinality
       DEF KeySet!Add, KeySet!Answer, Answer
  <2> QED BY <2>1, <2>4 DEF KeySet!Next
<1>3. ASSUME NEW k \in Keys, Refuse(k)
      PROVE  IInv' /\ KeySet!Next
  BY <1>3, RefuseStep DEF KeySet!Next
<1>4. ASSUME NEW t \in Texts, Malformed(t)
      PROVE  IInv' /\ KeySet!Next
  BY <1>4, MalformedStep DEF KeySet!Next
<1>5. ASSUME NEW t \in Texts, Select(t)
      PROVE  IInv' /\ KeySet!Next
  BY <1>5, SelectStep DEF KeySet!Next
<1>6. CASE UNCHANGED vars
  <2>1. answer \in [given : Seq(Byte), key : Seq(Byte),
                    result : {"SUCCESS", "ERROR", "FOUND", "NONE"}]
    BY DEF IInv, TypeOK
  <2>2. UNCHANGED <<slots, count>> /\ answer' = answer
    BY <1>6 DEF vars
  <2>3. IInv' /\ keys' = keys
    BY <2>1, <2>2, TableUnchanged
  <2> QED BY <2>2, <2>3 DEF KeySet!keySetVars
<1> QED BY <1>1, <1>2, <1>3, <1>4, <1>5, <1>6 DEF Next

-----------------------------------------------------------------------------
(* The invariant holds in every state: the table of kason.c 2514-2570 is   *)
(* always one in which a search for a stored key finds it.                 *)
THEOREM Inductive == Spec => []IInv
<1>1. Init => IInv
  BY InitIInv
<1>2. IInv /\ [Next]_vars => IInv'
  BY StepIsKeySetStep
<1> QED BY <1>1, <1>2, PTL DEF Spec

(* Every variable has its type: count never exceeds the capacity and no    *)
(* slot outside the array is used.                                         *)
THEOREM TypeCorrect == Spec => []TypeOK
<1>1. IInv => TypeOK
  BY DEF IInv
<1> QED BY <1>1, Inductive, PTL

(* From the slot its hash points to, a search reaches each stored key      *)
(* before it meets a free slot, whatever was added and in which order.     *)
THEOREM KeysAreInReach == Spec => []KeysInReach
<1>1. IInv => KeysInReach
  BY DEF IInv
<1> QED BY <1>1, Inductive, PTL

(* kason_lookup_table_add and the search by the text of a name implement a *)
(* bounded set of keys: for every capacity, hash function and set of keys, *)
(* a name selects the key it decodes to, if that key was added, and none   *)
(* otherwise.                                                              *)
THEOREM TableIsKeySet == Spec => IsKeySet
<1>1. Init => KeySet!Init
  BY DEF Init, keys, KeySet!Init, KeySet!Answer, Answer
<1>2. IInv /\ [Next]_vars => [KeySet!Next]_(KeySet!keySetVars)
  BY StepIsKeySetStep
<1> QED BY <1>1, <1>2, Inductive, PTL DEF Spec, IsKeySet, KeySet!Spec
=============================================================================
