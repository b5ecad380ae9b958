------------------------- MODULE KasonUnpackProofs -------------------------
(***************************************************************************)
(* Proofs about unpacking: whatever the document, the schemas and the way  *)
(* an unpack ends, what is in the memory of the struct is safe to use.     *)
(*                                                                         *)
(* MemoryIsSafe is not inductive.  UnpackInv adds the stack of calls: each *)
(* frame unpacks the struct, or the array, at which the frame around it    *)
(* stands, at a place where the struct of the root holds one; its run      *)
(* stays in the document; and what it has finished, the fields with a      *)
(* default or a bit of found, and the items up to its count, is safe       *)
(* already, taken by itself.  A place that is not finished may be behind a *)
(* count which the memory had before, or which a default has copied; so    *)
(* what is safe is said from a level of the path on, Sound, and a frame    *)
(* that ends moves that level up by its own.                               *)
(*                                                                         *)
(* The recursive functions of the model (the places of a struct, what a    *)
(* struct has at one, the validity of a default) are described first, by   *)
(* induction on the length of a path and on the nesting.                   *)
(***************************************************************************)
EXTENDS KasonUnpack, KasonTextProofs, FiniteSetTheorems

-----------------------------------------------------------------------------
(* The runs of the parser stay in the document. *)

\* The least of some positions, or another one.
LEMMA FirstIs ==
  ASSUME NEW P \in SUBSET Nat, NEW o \in Nat
  PROVE  First(P, o) \in P \cup {o} /\ \A q \in P : First(P, o) <= q
<1>1. PICK x \in P \cup {o} : \A y \in P \cup {o} : x <= y
  <2>1. P \cup {o} \in SUBSET Nat /\ P \cup {o} # {}
    OBVIOUS
  <2> QED BY <2>1, LeastNat
<1>2. \E p \in P \cup {o} : \A q \in P : p <= q
  BY <1>1
<1> QED BY <1>2 DEF First

LEMMA SkipIs ==
  ASSUME NEW p \in Nat, NEW last \in Nat
  PROVE  Skip(p, last) \in (p..last) \cup {last + 1}
<1> DEFINE P == {q \in p..last : ~is_whitespace(doc[q])}
<1>1. P \in SUBSET Nat /\ last + 1 \in Nat
  OBVIOUS
<1>2. Skip(p, last) = First(P, last + 1)
  BY DEF Skip
<1>3. P \subseteq p..last
  OBVIOUS
<1> HIDE DEF P
<1>4. First(P, last + 1) \in P \cup {last + 1}
  BY <1>1, FirstIs
<1> QED BY <1>2, <1>3, <1>4

\* The closing quote is behind where a string begins.
LEMMA StringEndIs ==
  ASSUME NEW p \in Nat, NEW last \in Nat
  PROVE  StringEnd(p, last) \in {0} \cup p..last
<1> DEFINE body(f, q) ==
             IF q > last \/ is_control_char(At(doc, q)) THEN 0
             ELSE IF doc[q] = QUOTE THEN q
             ELSE IF doc[q] # BACKSLASH THEN f[q + 1]
             ELSE IF EscapeLength(q, last) = 0 THEN 0 ELSE f[q + EscapeLength(q, last)]
           F == [f \in [Nat -> Nat] |-> [q \in Nat |-> body(f, q)]]
           m == [q \in Nat |-> IF q > last THEN 0 ELSE last + 1 - q]
           end == CHOOSE f : f = [q \in Nat |-> body(f, q)]
           P == {q \in Nat : end[q] \in {0} \cup q..last}
<1>1. StringEnd(p, last) = end[p]
  BY DEF StringEnd
<1>2. \A q : EscapeLength(q, last) \in {0, 2, 6}
  BY DEF EscapeLength
<1>3. m \in [Nat -> Nat] /\ \A q, r \in Nat : q <= last /\ r > q => m[r] < m[q]
  OBVIOUS
<1> HIDE DEF m
<1>4. Recursive(Nat, Nat, m, F)
  <2>1. \A f \in [Nat -> Nat], q \in Nat : body(f, q) \in Nat
    BY <1>2
  <2>2. F \in [[Nat -> Nat] -> [Nat -> Nat]] /\ Nat # {}
    <3> HIDE DEF body
    <3> QED BY <2>1
  <2>3. ASSUME NEW g \in [Nat -> Nat], NEW h \in [Nat -> Nat], NEW q \in Nat,
               \A r \in Nat : m[r] < m[q] => g[r] = h[r]
        PROVE  body(g, q) = body(h, q)
    <3>1. CASE q > last
      BY <3>1
    <3>2. CASE ~(q > last)
      <4>1. \A r \in Nat : r > q => g[r] = h[r]
        BY <1>3, <2>3, <3>2
      <4>2. g[q + 1] = h[q + 1]
        BY <4>1
      <4>3. EscapeLength(q, last) # 0 => g[q + EscapeLength(q, last)] = h[q + EscapeLength(q, last)]
        BY <1>2, <4>1
      <4> QED BY <4>2, <4>3
    <3> QED BY <3>1, <3>2
  <2>4. Descends(Nat, Nat, m, F)
    <3> HIDE DEF body
    <3> QED BY <2>3 DEF Descends
  <2> HIDE DEF F
  <2> QED BY <1>3, <2>2, <2>4 DEF Recursive
<1>5. end = [q \in Nat |-> body(end, q)]
  <2>1. PICK f : Solution(Nat, Nat, F, f)
    <3> HIDE DEF F
    <3> QED BY <1>4, Recursion
  <2>2. f = [q \in Nat |-> body(f, q)]
    <3> HIDE DEF body
    <3> QED BY <2>1 DEF Solution
  <2> HIDE DEF body
  <2> QED BY <2>2
<1> HIDE DEF end, F
<1>6. Progressive(Nat, m, P)
  <2>1. ASSUME NEW q \in Nat, \A r \in Nat : m[r] < m[q] => r \in P PROVE q \in P
    <3>1. end[q] = body(end, q)
      <4> HIDE DEF body
      <4> QED BY <1>5
    <3>2. CASE q > last
      BY <3>1, <3>2
    <3>3. CASE ~(q > last)
      <4>1. \A r \in Nat : r > q => end[r] \in {0} \cup r..last
        BY <1>3, <2>1, <3>3
      <4>2. end[q + 1] \in {0} \cup q..last
        BY <4>1
      <4>3. EscapeLength(q, last) # 0 => end[q + EscapeLength(q, last)] \in {0} \cup q..last
        BY <1>2, <4>1
      <4> QED BY <3>1, <3>3, <4>2, <4>3
    <3> QED BY <3>2, <3>3
  <2> QED BY <1>3, <2>1 DEF Progressive
<1>7. P = Nat
  <2> HIDE DEF P
  <2> QED BY <1>6, MeasureInduction
<1> QED BY <1>1, <1>7

\* What is opened closes behind, in the slice.
LEMMA CheckEndIs ==
  ASSUME NEW p \in Nat, NEW last \in Nat
  PROVE  /\ check_end(p, last).at \in {0} \cup (p + 1)..last
         /\ check_end(p, last).separators \in Nat
<1> DEFINE array == IF doc[p] = ARRAY_START THEN 1 ELSE 0
           T == [at : Int, separators : Nat]
           past(at) == [at EXCEPT !.q = PastString(at.q, last) + 1]
           body(f, at) ==
             IF at.arrays < 0 \/ at.objects < 0 THEN Unclosed
             ELSE IF (IF array = 1 THEN at.arrays ELSE at.objects) = 0
             THEN [at |-> at.q - 1, separators |-> at.separators]
             ELSE IF at.q > last THEN Unclosed
             ELSE IF At(doc, at.q) # QUOTE THEN f[PastByte(at)]
             ELSE IF PastString(at.q, last) = 0 THEN Unclosed
             ELSE f[past(at)]
           F == [f \in [Counts -> T] |-> [at \in Counts |-> body(f, at)]]
           m == [at \in Counts |-> IF at.q > last THEN 0 ELSE last + 1 - at.q]
           scan == CHOOSE f : f = [at \in Counts |-> body(f, at)]
           start == [q |-> p + 1, arrays |-> array, objects |-> 1 - array, separators |-> 0]
           P == {at \in Counts : at.q \in 1..(last + 1) =>
                                   scan[at].at \in {0} \cup (at.q - 1)..last}
<1>1. check_end(p, last) = scan[start]
  BY DEF check_end
<1>2. \A at \in Counts : m[at] \in Nat
  BY DEF Counts
<1>3. \A at, to \in Counts : at.q <= last /\ to.q > at.q => m[to] < m[at]
  BY DEF Counts
<1>4. ASSUME NEW at \in Counts
      PROVE  /\ at.q \in Nat /\ PastByte(at) \in Counts
             /\ PastByte(at).q = at.q + 1 /\ PastByte(at).q > at.q
             /\ PastString(at.q, last) # 0 =>
                  /\ PastString(at.q, last) \in (at.q + 1)..last
                  /\ past(at) \in Counts
                  /\ past(at).q = PastString(at.q, last) + 1
                  /\ past(at).q > at.q
  <2>1. at.q \in Nat /\ at.arrays \in Int /\ at.objects \in Int /\ at.separators \in Nat
    BY DEF Counts
  <2>2. \A c, x, y : Change(c, x, y) \in Int
    <3> TAKE c, x, y
    <3>1. -1 \in Int /\ 0 \in Int /\ 1 \in Int
      OBVIOUS
    <3> DEFINE i == -1
    <3> HIDE DEF i
    <3>2. Change(c, x, y) \in {1, i, 0}
      BY Zenon DEF Change, i
    <3> QED BY <3>1, <3>2 DEF i
  <2>3. Separates(at.q, at.arrays, at.objects) \in Nat
    BY DEF Separates
  <2>4. PastByte(at) \in Counts /\ PastByte(at).q = at.q + 1
    BY <2>1, <2>2, <2>3 DEF PastByte, Counts
  <2>5. PastString(at.q, last) \in {0} \cup (at.q + 1)..last
    BY <2>1, StringEndIs DEF PastString
  <2> QED BY <2>1, <2>4, <2>5 DEF Counts
<1> HIDE DEF past
<1>5. ASSUME NEW f, NEW at \in Counts,
             \A to \in Counts : to.q > at.q => f[to] \in T
      PROVE  body(f, at) \in T
  <2>1. Unclosed \in T
    BY DEF Unclosed
  <2>2. [at |-> at.q - 1, separators |-> at.separators] \in T
    BY DEF Counts
  <2> HIDE DEF T, array
  <2>3. f[PastByte(at)] \in T
    BY <1>4, <1>5
  <2>4. PastString(at.q, last) # 0 => f[past(at)] \in T
    BY <1>4, <1>5
  <2> QED BY <2>1, <2>2, <2>3, <2>4
<1>6. Recursive(Counts, T, m, F)
  <2>1. \A f \in [Counts -> T], at \in Counts : body(f, at) \in T
    BY <1>5
  <2>2. F \in [[Counts -> T] -> [Counts -> T]]
    <3> HIDE DEF body, T
    <3> QED BY <2>1
  <2>3. T # {}
    <3>1. Unclosed \in T
      BY DEF Unclosed
    <3> HIDE DEF T
    <3> QED BY <3>1
  <2>4. ASSUME NEW g \in [Counts -> T], NEW h \in [Counts -> T], NEW at \in Counts,
               \A to \in Counts : m[to] < m[at] => g[to] = h[to]
        PROVE  body(g, at) = body(h, at)
    <3>1. CASE at.q > last
      BY <3>1
    <3>2. CASE ~(at.q > last)
      <4>1. \A to \in Counts : to.q > at.q => g[to] = h[to]
        BY <1>3, <2>4, <3>2 DEF Counts
      <4>2. g[PastByte(at)] = h[PastByte(at)]
        BY <1>4, <4>1
      <4>3. PastString(at.q, last) # 0 =>
              g[past(at)]
                = h[past(at)]
        BY <1>4, <4>1
      <4> HIDE DEF array
      <4> QED BY <4>2, <4>3
    <3> QED BY <3>1, <3>2
  <2>5. Descends(Counts, T, m, F)
    <3> HIDE DEF body, T, m
    <3> QED BY <2>4 DEF Descends
  <2>6. m \in [Counts -> Nat]
    BY <1>2
  <2> HIDE DEF F, m, T
  <2> QED BY <2>2, <2>3, <2>5, <2>6 DEF Recursive
<1>7. scan = [at \in Counts |-> body(scan, at)]
  <2>1. PICK f : Solution(Counts, T, F, f)
    <3> HIDE DEF F, T, m
    <3> QED BY <1>6, Recursion
  <2>2. f = [at \in Counts |-> body(f, at)]
    <3> HIDE DEF body, T
    <3> QED BY <2>1 DEF Solution
  <2> HIDE DEF body
  <2> QED BY <2>2
<1> HIDE DEF scan, F
<1>8. ASSUME NEW at \in Counts, at.q \in 1..(last + 1),
             \A to \in Counts : to.q > at.q /\ at.q <= last => to \in P
      PROVE  at \in P /\ scan[at] = body(scan, at)
  <2>1. scan[at] = body(scan, at)
    <3> HIDE DEF body
    <3> QED BY <1>7
  <2>2. Unclosed.at = 0
    BY DEF Unclosed
  <2>3. CASE at.q > last
    BY <2>1, <2>2, <2>3 DEF Counts
  <2>4. CASE ~(at.q > last)
    <3>0. at.q <= last /\ at.q \in Nat
      BY <1>4, <2>4
    <3>a. \A to \in Counts : to.q > at.q => to \in P
      BY <1>8, <3>0
    <3>b. PastByte(at) \in P /\ PastByte(at).q \in 1..(last + 1)
      BY <1>4, <3>0, <3>a
    <3>1. scan[PastByte(at)].at \in {0} \cup (at.q - 1)..last
      BY <1>4, <3>0, <3>b
    <3>2. PastString(at.q, last) # 0 =>
            scan[past(at)].at \in {0} \cup (at.q - 1)..last
      BY <1>4, <3>0, <3>a
    <3> HIDE DEF array
    <3> QED BY <2>1, <2>2, <2>4, <3>0, <3>1, <3>2 DEF Counts
  <2> QED BY <2>1, <2>3, <2>4
<1>9. Progressive(Counts, m, P)
  <2>1. ASSUME NEW at \in Counts, \A to \in Counts : m[to] < m[at] => to \in P
        PROVE  at \in P
    <3>1. CASE at.q \in 1..(last + 1)
      BY <1>3, <1>8, <2>1, <3>1
    <3>2. CASE at.q \notin 1..(last + 1)
      BY <3>2
    <3> QED BY <3>1, <3>2
  <2>2. m \in [Counts -> Nat] /\ P \in SUBSET Counts
    BY <1>2
  <2> HIDE DEF m, P
  <2> QED BY <2>1, <2>2 DEF Progressive
<1>10. P = Counts
  <2> HIDE DEF P, m
  <2> QED BY <1>9, MeasureInduction
<1>11. start \in Counts /\ start.q = p + 1
  BY DEF Counts
<1>12. scan[start] \in T
  <2> DEFINE Q == {at \in Counts : scan[at] \in T}
  <2>1. ASSUME NEW at \in Counts, \A to \in Counts : m[to] < m[at] => to \in Q
        PROVE  scan[at] \in T
    <3>1. scan[at] = body(scan, at)
      <4> HIDE DEF body
      <4> QED BY <1>7
    <3>2. CASE at.q > last
      <4>1. Unclosed \in T /\ [at |-> at.q - 1, separators |-> at.separators] \in T
        BY DEF Unclosed, Counts
      <4> HIDE DEF T, array
      <4> QED BY <3>1, <3>2, <4>1
    <3>3. CASE ~(at.q > last)
      <4>1. \A to \in Counts : to.q > at.q => scan[to] \in T
        BY <1>3, <2>1, <3>3 DEF Counts
      <4>2. body(scan, at) \in T
        <5> HIDE DEF body, T
        <5> QED BY <1>5, <4>1
      <4> HIDE DEF body
      <4> QED BY <3>1, <4>2
    <3> QED BY <3>2, <3>3
  <2>2. m \in [Counts -> Nat] /\ Q \in SUBSET Counts
    BY <1>2
  <2>3. Progressive(Counts, m, Q)
    <3> HIDE DEF m, T
    <3> QED BY <2>1, <2>2 DEF Progressive
  <2>4. Q = Counts
    <3> HIDE DEF m, Q
    <3> QED BY <2>3, MeasureInduction
  <2> HIDE DEF start, T
  <2> QED BY <2>4, <1>11
<1>13. scan[start].at \in {0} \cup (p + 1)..last
  <2>1. scan[start] = body(scan, start)
    <3> HIDE DEF body, start
    <3> QED BY <1>7, <1>11
  <2>2. start.arrays = array /\ start.objects = 1 - array /\ array \in {0, 1}
    OBVIOUS
  <2>3. CASE start.q > last
    BY <2>1, <2>2, <2>3 DEF Unclosed
  <2>4. CASE ~(start.q > last)
    <3>0. start \in Counts /\ start.q = p + 1 /\ p + 1 <= last
      BY <1>11, <2>4
    <3>1. scan[PastByte(start)].at \in {0} \cup (p + 1)..last
      <4> HIDE DEF start
      <4>1. PastByte(start) \in Counts /\ PastByte(start).q = p + 2
        BY <1>4, <3>0
      <4>2. PastByte(start) \in P
        BY <1>10, <4>1
      <4> QED BY <3>0, <4>1, <4>2
    <3>2. PastString(start.q, last) # 0 =>
            scan[past(start)].at \in {0} \cup (p + 1)..last
      <4> HIDE DEF start
      <4> DEFINE to == past(start)
      <4> SUFFICES ASSUME PastString(start.q, last) # 0
                   PROVE  scan[to].at \in {0} \cup (p + 1)..last
        OBVIOUS
      <4>1. /\ PastString(start.q, last) \in (p + 2)..last
            /\ to \in Counts /\ to.q = PastString(start.q, last) + 1
        BY <1>4, <3>0
      <4> HIDE DEF to
      <4>2. to \in P
        BY <1>10, <4>1
      <4> QED BY <3>0, <4>1, <4>2
    <3>3. Unclosed.at = 0
      BY DEF Unclosed
    <3> HIDE DEF start, array
    <3> QED BY <2>1, <2>2, <2>4, <3>1, <3>2, <3>3
  <2> QED BY <2>3, <2>4
<1> QED BY <1>1, <1>12, <1>13
\* There is a last byte before the closing bracket that is no blank.
LEMMA TrimmedIs ==
  ASSUME NEW p \in Nat, NEW at \in Nat, p < at, doc[p] = ARRAY_START
  PROVE  Trimmed(p, at) \in p..(at - 1)
<1> DEFINE N == {at - q : q \in {r \in p..(at - 1) : ~is_whitespace(doc[r])}}
<1>1. ~is_whitespace(doc[p])
  BY DEF is_whitespace, ARRAY_START
<1>2. N \in SUBSET Nat /\ at - p \in N
  BY <1>1
<1>3. PICK x \in N : \A y \in N : x <= y
  <2> HIDE DEF N
  <2> QED BY <1>2, LeastNat
<1>4. PICK q \in p..(at - 1) : x = at - q /\ ~is_whitespace(doc[q])
  BY <1>3
<1>5. ASSUME NEW r \in (q + 1)..(at - 1), ~is_whitespace(doc[r]) PROVE FALSE
  <2>1. r \in p..(at - 1)
    BY <1>4
  <2>2. at - r \in N
    BY <2>1, <1>5
  <2> HIDE DEF N
  <2>3. x <= at - r
    BY <1>3, <2>2
  <2>4. q \in Int /\ r \in Int /\ r >= q + 1
    BY <1>4
  <2> QED BY <1>4, <2>3, <2>4
<1>6. \E t \in p..(at - 1) :
        ~is_whitespace(doc[t]) /\ \A r \in (t + 1)..(at - 1) : is_whitespace(doc[r])
  BY <1>4, <1>5
<1> QED BY <1>6 DEF Trimmed

\* A value lies in the document.
ValueTypes == ScalarTypes \cup {"INVALID", "STRING", "OBJECT", "ARRAY"}
Values == [type : ValueTypes, begin : Nat, end : Int, at : Int, count : Nat]
Inside(value) == value.begin >= 1 /\ value.end \in 0..Len(doc) /\ value.at >= 1
ValueInRange(value) == value \in Values /\ (value.type # "INVALID" => Inside(value))

LEMMA FoundIs ==
  ASSUME NEW type \in ValueTypes, NEW first \in Nat, NEW last \in Int, NEW at \in Int,
         NEW count \in Nat, first >= 1, last \in 0..Len(doc), at >= 1
  PROVE  ValueInRange(Found(type, first, last, at, count))
BY DEF ValueInRange, Values, Inside, Found

LEMMA NotFoundIs == ValueInRange(NotFound)
BY DEF ValueInRange, Values, NotFound, Found, ValueTypes

LEMMA ScalarTypeIs == ASSUME NEW s PROVE ScalarType(s) \in ValueTypes
BY Zenon DEF ScalarType, ValueTypes, ScalarTypes

LEMMA StringValueIs ==
  ASSUME doc \in Seq(Byte), NEW last \in 0..Len(doc), NEW p \in Nat, p >= 1,
         NEW close \in {0} \cup (p + 1)..last
  PROVE  ValueInRange(StringValue(p, close))
<1>1. Len(doc) \in Nat
  OBVIOUS
<1>2. CASE close = 0 \/ ~TextIsRead(SubSeq(doc, p + 1, close - 1))
  <2>1. StringValue(p, close) = NotFound
    BY <1>2 DEF StringValue
  <2> QED BY <2>1, NotFoundIs
<1>3. CASE ~(close = 0 \/ ~TextIsRead(SubSeq(doc, p + 1, close - 1)))
  <2>1. StringValue(p, close) = Found("STRING", p + 1, close - 1, close, 1)
    BY <1>3 DEF StringValue
  <2>2. close # 0
    BY <1>3
  <2>3. p + 1 \in Nat /\ p + 1 >= 1 /\ close - 1 \in 0..Len(doc) /\ close \in Int /\ close >= 1
    BY <1>1, <2>2
  <2>4. "STRING" \in ValueTypes /\ 1 \in Nat
    BY DEF ValueTypes
  <2>5. ValueInRange(Found("STRING", p + 1, close - 1, close, 1))
    BY <2>3, <2>4, FoundIs
  <2> QED BY <2>1, <2>5
<1> QED BY <1>2, <1>3

LEMMA ScalarValueIs ==
  ASSUME doc \in Seq(Byte), NEW last \in 0..Len(doc), NEW p \in Nat, p >= 1, p <= last,
         NEW mode
  PROVE  ValueInRange(ScalarValue(p, last, mode))
<1> DEFINE P == {q \in (p + 1)..last : doc[q] = COMMA \/ Ends(doc[q], mode)}
           end == ScalarEnd(p, last, mode)
           final == IF end = p \/ (end = last /\ ~Ends(doc[end], mode)) THEN end ELSE end - 1
<1>1. Len(doc) \in Nat /\ last \in Nat
  OBVIOUS
<1>2. P \in SUBSET Nat /\ P \subseteq (p + 1)..last
  BY <1>1
<1>3. end = First(P, last)
  BY DEF ScalarEnd
<1>4. end \in (p + 1)..last \/ end = last
  <2> HIDE DEF P, end
  <2>1. First(P, last) \in P \cup {last}
    BY <1>1, <1>2, FirstIs
  <2> QED BY <1>2, <1>3, <2>1
<1>5. ScalarValue(p, last, mode)
        = Found(ScalarType(SubSeq(doc, p, final)), p, final, end, 1)
  BY DEF ScalarValue, ScalarUpTo
<1> HIDE DEF end
<1>6. end \in p..last
  BY <1>1, <1>4
<1>7. final \in p..last
  BY <1>1, <1>6
<1> HIDE DEF final
<1>8. final \in Int /\ final \in 0..Len(doc) /\ end \in Int /\ end >= 1 /\ 1 \in Nat
  BY <1>1, <1>6, <1>7
<1>9. ScalarType(SubSeq(doc, p, final)) \in ValueTypes
  BY ScalarTypeIs
<1> QED BY <1>5, <1>8, <1>9, FoundIs

LEMMA ArrayValueIs ==
  ASSUME doc \in Seq(Byte), NEW last \in 0..Len(doc), NEW p \in Nat, p >= 1,
         doc[p] = ARRAY_START, NEW close, close.at \in {0} \cup (p + 1)..last,
         close.separators \in Nat
  PROVE  ValueInRange(ArrayValue(p, close))
<1>1. Len(doc) \in Nat /\ "ARRAY" \in ValueTypes /\ 0 \in Nat
  BY DEF ValueTypes
<1>2. CASE close.at = 0
  BY <1>2, NotFoundIs DEF ArrayValue
<1>3. CASE close.at # 0
  <2> DEFINE final == Trimmed(p, close.at)
  <2>1. close.at \in Nat /\ p < close.at /\ close.at <= last
    BY <1>3
  <2>2. final \in p..(close.at - 1)
    BY <2>1, TrimmedIs
  <2>3. ArrayValue(p, close) = ArrayUpTo(p, final, close)
    BY <1>3 DEF ArrayValue
  <2> HIDE DEF final
  <2>4. /\ p + 1 \in Nat /\ p + 1 >= 1 /\ close.at \in Int /\ close.at >= 1
        /\ close.separators + 1 \in Nat /\ p \in 0..Len(doc) /\ final \in 0..Len(doc)
    BY <1>1, <2>1, <2>2
  <2>5. ValueInRange(Found("ARRAY", p + 1, p, close.at, 0))
    BY <1>1, <2>4, FoundIs
  <2>6. ValueInRange(Found("ARRAY", p + 1, final, close.at, close.separators + 1))
    BY <1>1, <2>4, FoundIs
  <2>7. \/ ArrayUpTo(p, final, close) = NotFound
        \/ ArrayUpTo(p, final, close) = Found("ARRAY", p + 1, p, close.at, 0)
        \/ ArrayUpTo(p, final, close) = Found("ARRAY", p + 1, final, close.at, close.separators + 1)
    BY DEF ArrayUpTo
  <2> QED BY <2>3, <2>5, <2>6, <2>7, NotFoundIs
<1> QED BY <1>2, <1>3

LEMMA ValueAtIs ==
  ASSUME doc \in Seq(Byte), NEW last \in 0..Len(doc), NEW p \in Nat, p >= 1, NEW mode
  PROVE  ValueInRange(ValueAt(p, last, mode))
<1>1. Len(doc) \in Nat /\ last \in Nat
  OBVIOUS
<1> DEFINE close == check_end(p, last)
<1>2. close.at \in {0} \cup (p + 1)..last /\ close.separators \in Nat
  BY <1>1, CheckEndIs
<1>3. StringEnd(p + 1, last) \in {0} \cup (p + 1)..last
  BY <1>1, StringEndIs
<1> HIDE DEF close
<1>4. ValueInRange(StringValue(p, StringEnd(p + 1, last)))
  BY <1>3, StringValueIs
<1>5. ValueInRange(ObjectValue(p, close))
  <2>1. CASE close.at = 0
    BY <2>1, NotFoundIs DEF ObjectValue
  <2>2. CASE close.at # 0
    <3>1. p >= 1 /\ close.at \in 0..Len(doc) /\ close.at >= 1 /\ close.at \in Int /\ 1 \in Nat
      BY <1>1, <1>2, <2>2
    <3>2. "OBJECT" \in ValueTypes
      BY DEF ValueTypes
    <3>3. ValueInRange(Found("OBJECT", p, close.at, close.at, 1))
      BY <3>1, <3>2, FoundIs
    <3> QED BY <2>2, <3>3 DEF ObjectValue
  <2> QED BY <2>1, <2>2
<1>6. p <= last /\ At(doc, p) = ARRAY_START => ValueInRange(ArrayValue(p, close))
  <2> SUFFICES ASSUME p <= last, At(doc, p) = ARRAY_START PROVE ValueInRange(ArrayValue(p, close))
    OBVIOUS
  <2>1. doc[p] = ARRAY_START
    BY <1>1 DEF At
  <2> QED BY <1>2, <2>1, ArrayValueIs
<1>7. p <= last => ValueInRange(ScalarValue(p, last, mode))
  BY ScalarValueIs
<1>8. \/ ValueAt(p, last, mode) = NotFound
      \/ ValueAt(p, last, mode) = StringValue(p, StringEnd(p + 1, last))
      \/ ValueAt(p, last, mode) = ObjectValue(p, close)
      \/ p <= last /\ At(doc, p) = ARRAY_START /\ ValueAt(p, last, mode) = ArrayValue(p, close)
      \/ ~(p > last) /\ ValueAt(p, last, mode) = ScalarValue(p, last, mode)
  BY DEF ValueAt, close
<1>9. ~(p > last) => p <= last
  BY <1>1
<1> QED BY <1>4, <1>5, <1>6, <1>7, <1>8, <1>9, NotFoundIs
\* A run reads from its position up to its last byte, and what it took for a
\* key is in the document too.
KeyInside(slice) == slice.begin >= 1 /\ slice.end \in 0..Len(doc)
RunInRange(r) ==
  /\ r \in Run /\ r.ptr >= 1 /\ r.last \in 0..Len(doc)
  /\ r.key # << >> => KeyInside(Head(r.key))

LEMMA StartedIs ==
  ASSUME NEW mode \in Modes, NEW root \in BOOLEAN, NEW ptr \in Int, ptr >= 1,
         NEW slice, slice.end \in 0..Len(doc), NEW depth \in Nat, NEW validate \in BOOLEAN
  PROVE  RunInRange(Started(mode, root, ptr, slice, depth, validate))
<1> DEFINE state == IF TooDeep(depth) \/ ptr > slice.end THEN "ERROR"
                    ELSE IF mode = "OBJECT" THEN "KEY_BEGIN" ELSE "VALUE_BEGIN"
           run == Started(mode, root, ptr, slice, depth, validate)
<1>1. state \in {"KEY_BEGIN", "VALUE_BEGIN", "PARAM_SEPARATOR", "COMPLETE", "SUCCESS", "ERROR"}
  OBVIOUS
<1>2. run = [mode |-> mode, root_array |-> root, ptr |-> ptr, last |-> slice.end,
             depth |-> depth, validate |-> validate, key |-> << >>, has_entries |-> FALSE,
             state |-> state]
  BY DEF Started
<1> HIDE DEF state, run
<1>3. << >> \in Seq([begin : Nat, end : Int]) /\ slice.end \in Int /\ FALSE \in BOOLEAN
  OBVIOUS
<1>4. run \in Run
  BY <1>1, <1>2, <1>3 DEF Run
<1>5. run.ptr >= 1 /\ run.last \in 0..Len(doc) /\ run.key = << >>
  BY <1>2
<1> QED BY <1>4, <1>5 DEF RunInRange, run

LEMMA RunAutoIs ==
  ASSUME doc \in Seq(Byte), NEW slice, slice.begin \in Nat, slice.begin >= 1,
         slice.end \in 0..Len(doc)
  PROVE  RunInRange(RunAuto(slice, 0, TRUE))
<1> DEFINE p == Skip(slice.begin, slice.end)
<1>1. slice.end \in Nat
  OBVIOUS
<1>2. p \in (slice.begin..slice.end) \cup {slice.end + 1}
  BY <1>1, SkipIs
<1>3. p \in Int /\ p >= 1 /\ p + 1 \in Int /\ p + 1 >= 1
  <2> HIDE DEF p
  <2>1. CASE p = slice.end + 1
    BY <1>1, <2>1
  <2>2. CASE p \in slice.begin..slice.end
    BY <1>1, <2>2
  <2> QED BY <1>2, <2>1, <2>2
<1>4. {"OBJECT", "ARRAY", "STRING", "GENERIC"} \subseteq Modes /\ 0 \in Nat
      /\ TRUE \in BOOLEAN /\ FALSE \in BOOLEAN
  BY DEF Modes
<1> HIDE DEF p
<1> DEFINE yes == TRUE  no == FALSE
<1>5. yes \in BOOLEAN /\ no \in BOOLEAN
  OBVIOUS
<1>6. \/ RunAuto(slice, 0, yes) = Started("OBJECT", no, p + 1, slice, 0, yes)
      \/ RunAuto(slice, 0, yes) = Started("ARRAY", yes, p, slice, 0, yes)
      \/ RunAuto(slice, 0, yes) = Started("STRING", no, p, slice, 0, yes)
      \/ RunAuto(slice, 0, yes) = Started("GENERIC", no, p, slice, 0, yes)
  BY Zenon DEF RunAuto, RunFrom, p
<1> HIDE DEF yes, no
<1>7. RunInRange(RunAuto(slice, 0, yes))
  BY <1>3, <1>4, <1>5, <1>6, StartedIs
<1> QED BY <1>7, Zenon DEF yes

LEMMA GotoIs ==
  ASSUME NEW r, RunInRange(r), NEW ptr \in Int, ptr >= 1,
         NEW state \in {"KEY_BEGIN", "VALUE_BEGIN", "PARAM_SEPARATOR", "COMPLETE",
                        "SUCCESS", "ERROR"}
  PROVE  RunInRange(Goto(r, state, ptr))
BY DEF RunInRange, Run, Goto

LEMMA EndedIs ==
  ASSUME NEW r, RunInRange(r), NEW ok \in BOOLEAN PROVE RunInRange(Ended(r, ok))
BY DEF RunInRange, Run, Ended

LEMMA KeyUpToIs ==
  ASSUME doc \in Seq(Byte), NEW r, RunInRange(r), NEW p \in Nat, p >= 1,
         NEW close \in {0} \cup (p + 1)..r.last
  PROVE  RunInRange(KeyUpTo(r, p, close))
<1> DEFINE slice == Slice(p + 1, close - 1)
           colon == Skip(close + 1, r.last)
<1>1. Len(doc) \in Nat /\ r.last \in 0..Len(doc) /\ r.last \in Nat /\ r \in Run
  BY DEF RunInRange
<1>2. close \in Nat /\ close + 1 \in Nat
  BY <1>1
<1>3. colon \in Int /\ colon + 1 \in Int /\ colon + 1 >= 1
  <2>1. colon \in ((close + 1)..r.last) \cup {r.last + 1}
    BY <1>1, <1>2, SkipIs
  <2> HIDE DEF colon
  <2> QED BY <1>1, <1>2, <2>1
<1>4. KeyUpTo(r, p, close) = KeyRead(r, slice, colon)
  BY DEF KeyUpTo
<1>5. slice = [begin |-> p + 1, end |-> close - 1]
  BY DEF Slice
<1> HIDE DEF colon, slice
<1>6. CASE KeyRead(r, slice, colon) = Ended(r, FALSE)
  BY <1>4, <1>6, EndedIs
<1>7. CASE KeyRead(r, slice, colon) # Ended(r, FALSE)
  <2> DEFINE i == -1
  <2>1. slice.end # i
    BY <1>7 DEF KeyRead
  <2>2. close # 0
    <3> SUFFICES ASSUME close = 0 PROVE FALSE
      OBVIOUS
    <3>1. slice.end = -1
      BY <1>5
    <3> QED BY <2>1, <3>1
  <2>3. KeyRead(r, slice, colon) = [Goto(r, "VALUE_BEGIN", colon + 1) EXCEPT !.key = <<slice>>]
    BY <1>7 DEF KeyRead
  <2> DEFINE run == Goto(r, "VALUE_BEGIN", colon + 1)
  <2>4. RunInRange(run)
    BY <1>3, GotoIs
  <2> HIDE DEF run
  <2>5. slice \in [begin : Nat, end : Int] /\ KeyInside(slice)
    BY <1>1, <1>2, <1>5, <2>2 DEF KeyInside
  <2>6. <<slice>> \in Seq([begin : Nat, end : Int]) /\ Head(<<slice>>) = slice
    BY <2>5
  <2>7. RunInRange([run EXCEPT !.key = <<slice>>])
    BY <2>4, <2>5, <2>6 DEF RunInRange, Run
  <2> QED BY <1>4, <2>3, <2>7 DEF run
<1> QED BY <1>6, <1>7

\* A step of a run stays in range.
LEMMA AdvancedIs ==
  ASSUME doc \in Seq(Byte), NEW r, RunInRange(r),
         r.state \in {"KEY_BEGIN", "PARAM_SEPARATOR", "COMPLETE"}
  PROVE  RunInRange(Advanced(r))
<1> DEFINE p == Skip(r.ptr, r.last)
<1>1. Len(doc) \in Nat /\ r.last \in 0..Len(doc) /\ r.last \in Nat /\ r \in Run /\ r.ptr \in Nat
      /\ r.ptr >= 1
  BY DEF RunInRange, Run
<1>2. p \in Nat /\ p >= 1 /\ p + 1 \in Int /\ p + 1 >= 1
  <2>1. p \in (r.ptr..r.last) \cup {r.last + 1}
    BY <1>1, SkipIs
  <2> HIDE DEF p
  <2> QED BY <1>1, <2>1
<1>3. Advanced(r) = Advance(r, p)
  BY DEF Advanced
<1> HIDE DEF p
<1>4. AfterSeparator(r) \in {"KEY_BEGIN", "VALUE_BEGIN"}
  BY DEF AfterSeparator
<1>5. \A ok \in BOOLEAN : RunInRange(Ended(r, ok))
  BY EndedIs
<1>6. RunInRange(Goto(r, "COMPLETE", p + 1)) /\ RunInRange(Goto(r, AfterSeparator(r), p + 1))
  BY <1>2, <1>4, GotoIs
<1>7. RunInRange(KeyUpTo(r, p, StringEnd(p + 1, r.last)))
  <2>1. StringEnd(p + 1, r.last) \in {0} \cup (p + 1)..r.last
    BY <1>1, <1>2, StringEndIs
  <2> QED BY <1>2, <2>1, KeyUpToIs
<1>8. CASE r.state = "KEY_BEGIN"
  <2>1. Advance(r, p) = KeyBegin(r, p)
    BY <1>8 DEF Advance
  <2> DEFINE no == FALSE
  <2>2. \/ KeyBegin(r, p) = Ended(r, no)
        \/ KeyBegin(r, p) = Goto(r, "COMPLETE", p + 1)
        \/ KeyBegin(r, p) = KeyUpTo(r, p, StringEnd(p + 1, r.last))
    BY Zenon DEF KeyBegin
  <2>3. no \in BOOLEAN
    OBVIOUS
  <2> HIDE DEF no
  <2> QED BY <1>3, <1>5, <1>6, <1>7, <2>1, <2>2, <2>3
<1>9. CASE r.state = "PARAM_SEPARATOR"
  <2>1. Advance(r, p) = ParamSeparator(r, p)
    BY <1>9 DEF Advance
  <2> DEFINE no == FALSE  open == r.mode = "ARRAY"
  <2>2. \/ ParamSeparator(r, p) = Ended(r, open)
        \/ ParamSeparator(r, p) = Ended(r, no)
        \/ ParamSeparator(r, p) = Goto(r, "COMPLETE", p + 1)
        \/ ParamSeparator(r, p) = Goto(r, AfterSeparator(r), p + 1)
    BY Zenon DEF ParamSeparator
  <2>3. no \in BOOLEAN /\ open \in BOOLEAN
    OBVIOUS
  <2> HIDE DEF no, open
  <2> QED BY <1>3, <1>5, <1>6, <2>1, <2>2, <2>3
<1>10. CASE r.state = "COMPLETE"
  <2> DEFINE done == p > r.last
  <2>1. Advance(r, p) = Ended(r, done)
    BY <1>10 DEF Advance
  <2>2. done \in BOOLEAN
    OBVIOUS
  <2> HIDE DEF done
  <2> QED BY <1>3, <1>5, <2>1, <2>2
<1> QED BY <1>8, <1>9, <1>10

LEMMA ValueOfIs ==
  ASSUME doc \in Seq(Byte), NEW r, RunInRange(r)
  PROVE  ValueInRange(ValueOf(r))
<1> DEFINE p == Skip(r.ptr, r.last)
<1>1. Len(doc) \in Nat /\ r.last \in 0..Len(doc) /\ r.last \in Nat /\ r \in Run /\ r.ptr \in Nat
      /\ r.ptr >= 1
  BY DEF RunInRange, Run
<1>2. p \in Nat /\ p >= 1
  <2>1. p \in (r.ptr..r.last) \cup {r.last + 1}
    BY <1>1, SkipIs
  <2> HIDE DEF p
  <2> QED BY <1>1, <2>1
<1>3. ValueOf(r) = ValueAt(p, r.last, r.mode)
  BY DEF ValueOf
<1> HIDE DEF p
<1> QED BY <1>1, <1>2, <1>3, ValueAtIs

LEMMA CommitIs ==
  ASSUME NEW r, RunInRange(r), NEW value, value.at \in Nat
  PROVE  RunInRange(Commit(r, value))
<1>1. CommittedTo(r, value) \in {"KEY_BEGIN", "VALUE_BEGIN", "PARAM_SEPARATOR", "COMPLETE"}
  BY Zenon DEF CommittedTo, AfterSeparator
<1> DEFINE run == Goto(r, CommittedTo(r, value), value.at + 1)
<1>2. RunInRange(run)
  BY SMTT(40), <1>1, GotoIs
<1>3. Commit(r, value) = [run EXCEPT !.has_entries = TRUE, !.key = << >>]
  BY DEF Commit
<1> HIDE DEF run
<1>4. << >> \in Seq([begin : Nat, end : Int])
  OBVIOUS
<1>5. RunInRange([run EXCEPT !.has_entries = TRUE, !.key = << >>])
  BY <1>2, <1>4 DEF RunInRange, Run
<1> QED BY <1>3, <1>5

LEMMA ContainerRunIs ==
  ASSUME doc \in Seq(Byte), NEW value, ValueInRange(value), value.type # "INVALID"
  PROVE  RunInRange(ContainerRun(value))
<1>1. /\ Len(doc) \in Nat /\ value.begin \in Nat /\ value.begin >= 1 /\ value.end \in 0..Len(doc)
  BY DEF ValueInRange, Inside, Values
<1>2. RunInRange(RunAuto(value, 0, TRUE))
  BY <1>1, RunAutoIs
<1> DEFINE yes == TRUE  no == FALSE
<1>3. "ARRAY" \in Modes /\ no \in BOOLEAN /\ yes \in BOOLEAN /\ 0 \in Nat
  BY DEF Modes
<1>4. ASSUME NEW slice, slice.begin \in Int, slice.begin >= 1, slice.end \in 0..Len(doc)
      PROVE  RunInRange(RunArray(slice, 0, yes))
  <2>1. RunArray(slice, 0, yes) = Started("ARRAY", no, slice.begin, slice, 0, yes)
    BY Zenon DEF RunArray
  <2> HIDE DEF yes, no
  <2> QED BY <1>3, <1>4, <2>1, StartedIs
<1> HIDE DEF yes, no
<1>5. RunInRange(Success)
  <2> DEFINE run == RunArray(Slice(1, 0), 0, yes)
  <2> DEFINE slice == Slice(1, 0)
  <2>0. slice.begin \in Int /\ slice.begin >= 1 /\ slice.end \in 0..Len(doc)
    BY <1>1 DEF Slice
  <2>1. RunInRange(run)
    <3> HIDE DEF slice
    <3>1. RunInRange(RunArray(slice, 0, yes))
      BY <1>4, <2>0
    <3> QED BY <3>1, Zenon DEF slice
  <2>2. Success = [run EXCEPT !.state = "SUCCESS"]
    BY Zenon DEF Success, yes
  <2> HIDE DEF run
  <2> QED BY <2>1, <2>2 DEF RunInRange, Run
<1>6. RunInRange(RunArray(value, 0, yes))
  <2>1. value.begin \in Int /\ value.begin >= 1 /\ value.end \in 0..Len(doc)
    BY <1>1
  <2> QED BY <1>4, <2>1
<1>7. Bracketed(value) =>
        RunInRange(RunArray(Slice(value.begin + 1, value.end - 1), 0, yes))
  <2> SUFFICES ASSUME Bracketed(value)
               PROVE  RunInRange(RunArray(Slice(value.begin + 1, value.end - 1), 0, yes))
    OBVIOUS
  <2>1. value.end # 0
    BY <1>1 DEF Bracketed, At, ARRAY_END
  <2> DEFINE slice == Slice(value.begin + 1, value.end - 1)
  <2>2. slice.begin \in Int /\ slice.begin >= 1 /\ slice.end \in 0..Len(doc)
    BY <1>1, <2>1 DEF Slice
  <2> HIDE DEF slice
  <2>3. RunInRange(RunArray(slice, 0, yes))
    BY <1>4, <2>2
  <2> QED BY <2>3 DEF slice
<1>8. \/ ContainerRun(value) = RunAuto(value, 0, yes)
      \/ Bracketed(value)
           /\ ContainerRun(value) = RunArray(Slice(value.begin + 1, value.end - 1), 0, yes)
      \/ ContainerRun(value) = RunArray(value, 0, yes)
      \/ ContainerRun(value) = Success
  BY Zenon DEF ContainerRun, yes
<1>9. RunInRange(RunAuto(value, 0, yes))
  BY <1>2, Zenon DEF yes
<1> QED BY <1>5, <1>6, <1>7, <1>8, <1>9

\* The text of a value that was read.
LEMMA SliceTextIs ==
  ASSUME doc \in Seq(Byte), NEW value, ValueInRange(value), value.type # "INVALID"
  PROVE  SliceText(value) \in Seq(Byte)
<1>1. Len(doc) \in Nat
  OBVIOUS
<1>2. /\ value.begin \in Int /\ value.end \in Int /\ value.begin >= 1 /\ value.end <= Len(doc)
  BY DEF ValueInRange, Inside, Values
<1>3. \A k \in value.begin..value.end : doc[k] \in Byte
  BY <1>1, <1>2
<1> QED BY <1>2, <1>3 DEF SliceText

-----------------------------------------------------------------------------
(* kason_schema_store_scalar: what is stored has room and has its width. *)

\* What is read of an integer has its width.
LEMMA DigitsFromFits ==
  ASSUME NEW s \in Seq(Byte), NEW p \in 1..Len(s)
  PROVE  Number!DigitsFrom(s, p).result = "SUCCESS" =>
           Number!DigitsFrom(s, p).value \in 0..UINT64_MAX
<1> DEFINE S == (p - 1)..Len(s)
           T == [result : {"SUCCESS", "ERROR", "RANGE"}, value : 0..UINT64_MAX]
           body(f, q) == IF q < p THEN Number!Magnitude("SUCCESS", 0)
                         ELSE Number!ConvertDigit(f[q - 1], s[q])
           F == [f \in [S -> T] |-> [q \in S |-> body(f, q)]]
           m == [q \in S |-> q]
           upto == CHOOSE f : f = [q \in (p - 1)..Len(s) |-> body(f, q)]
<1>1. Number!DigitsFrom(s, p) = upto[Len(s)]
  BY DEF Number!DigitsFrom
<1>2. Len(s) \in Nat /\ Len(s) \in S /\ S \subseteq Nat
  OBVIOUS
<1>3. UINT64_MAX \in Nat
  BY WidthsAssumption
<1>4. ASSUME NEW v \in T, NEW c PROVE Number!ConvertDigit(v, c) \in T
  <2>1. v.value \in Nat /\ v.value <= UINT64_MAX
    BY <1>3
  <2>2. CASE v.result # "SUCCESS"
    BY <2>2 DEF Number!ConvertDigit
  <2>3. Number!Magnitude("ERROR", 0) \in T /\ Number!Magnitude("RANGE", 0) \in T
    BY <1>3 DEF Number!Magnitude
  <2>4. ASSUME Number!is_digit(c), ~Number!Overflows(v.value, c - Number!ZERO)
        PROVE  Number!Magnitude("SUCCESS", v.value * 10 + (c - Number!ZERO)) \in T
    <3> DEFINE d == c - Number!ZERO
    <3>1. d \in 0..9
      BY <2>4 DEF Number!is_digit, Number!ZERO
    <3>2. ~(v.value > (UINT64_MAX - d) \div 10)
      BY <2>4 DEF Number!Overflows
    <3> HIDE DEF d
    <3>3. v.value * 10 + d \in 0..UINT64_MAX
      BY <1>3, <2>1, <3>1, <3>2
    <3> QED BY <3>3 DEF d, Number!Magnitude
  <2> HIDE DEF T
  <2> QED BY <2>2, <2>3, <2>4 DEF Number!ConvertDigit
<1>5. Number!Magnitude("SUCCESS", 0) \in T
  BY <1>3 DEF Number!Magnitude
<1>6. Recursive(S, T, m, F)
  <2>1. ASSUME NEW f \in [S -> T], NEW q \in S PROVE body(f, q) \in T
    <3>1. ~(q < p) => q - 1 \in S
      OBVIOUS
    <3> HIDE DEF T, S
    <3> QED BY <1>4, <1>5, <3>1
  <2>2. F \in [[S -> T] -> [S -> T]] /\ T # {}
    <3> HIDE DEF body, T, S
    <3> QED BY <2>1, <1>5
  <2>3. ASSUME NEW g \in [S -> T], NEW h \in [S -> T], NEW q \in S,
               \A r \in S : m[r] < m[q] => g[r] = h[r]
        PROVE  body(g, q) = body(h, q)
    <3>1. ~(q < p) => q - 1 \in S /\ m[q - 1] < m[q]
      OBVIOUS
    <3> HIDE DEF m, S
    <3> QED BY <2>3, <3>1
  <2>4. m \in [S -> Nat]
    BY <1>2
  <2> HIDE DEF m, S, T, body
  <2>5. Descends(S, T, m, F)
    BY <2>3 DEF Descends
  <2> HIDE DEF F
  <2> QED BY <2>2, <2>4, <2>5 DEF Recursive
<1>7. PICK f : Solution(S, T, F, f)
  <2> HIDE DEF S, T, m, F
  <2> QED BY <1>6, Recursion
<1>8. f = [q \in (p - 1)..Len(s) |-> body(f, q)] /\ f \in [S -> T]
  <2> HIDE DEF body, T
  <2> QED BY <1>7 DEF Solution
<1>9. upto = [q \in (p - 1)..Len(s) |-> body(upto, q)]
  <2> HIDE DEF body
  <2> QED BY <1>8
<1> HIDE DEF upto, F
<1> DEFINE P == {q \in S : upto[q] \in T}
<1>10. Progressive(S, m, P)
  <2>1. ASSUME NEW q \in S, \A r \in S : m[r] < m[q] => r \in P PROVE q \in P
    <3>1. upto[q] = body(upto, q)
      <4> HIDE DEF body
      <4> QED BY <1>9
    <3>2. ~(q < p) => q - 1 \in S /\ m[q - 1] < m[q]
      OBVIOUS
    <3> HIDE DEF m, S, T
    <3> QED BY <1>4, <1>5, <2>1, <3>1, <3>2
  <2>2. m \in [S -> Nat] /\ P \in SUBSET S
    BY <1>2
  <2> HIDE DEF m, S, P
  <2> QED BY <2>1, <2>2 DEF Progressive
<1>11. P = S
  <2> HIDE DEF m, S, P
  <2> QED BY <1>10, MeasureInduction
<1>12. upto[Len(s)] \in T
  <2> HIDE DEF T
  <2> QED BY <1>2, <1>11
<1> QED BY <1>1, <1>12

LEMMA MagnitudeFits ==
  ASSUME NEW s \in Seq(Byte)
  PROVE  Number!kason_integer_magnitude(s).result = "SUCCESS" =>
           Number!kason_integer_magnitude(s).value \in 0..UINT64_MAX
<1>1. \E p \in {1, 2} : Number!kason_integer_magnitude(s) = Number!MagnitudeFrom(s, p)
  BY DEF Number!kason_integer_magnitude
<1>2. PICK p \in {1, 2} : Number!kason_integer_magnitude(s) = Number!MagnitudeFrom(s, p)
  BY <1>1
<1>3. 0 \in 0..UINT64_MAX
  BY WidthsAssumption
<1>4. CASE Number!is_positive_digit(Number!At(s, p))
  <2>1. p \in 1..Len(s) /\ Number!At(s, p) # Number!ZERO
    BY <1>2, <1>4 DEF Number!is_positive_digit, Number!At, Number!ZERO
  <2>2. Number!MagnitudeFrom(s, p) = Number!DigitsFrom(s, p)
    BY <1>4, <2>1 DEF Number!MagnitudeFrom
  <2> QED BY <1>2, <2>1, <2>2, DigitsFromFits
<1>5. CASE ~Number!is_positive_digit(Number!At(s, p))
  <2>1. \/ Number!MagnitudeFrom(s, p) = Number!Magnitude("SUCCESS", 0)
        \/ Number!MagnitudeFrom(s, p) = Number!Magnitude("ERROR", 0)
    BY <1>5, Zenon DEF Number!MagnitudeFrom
  <2> QED BY <1>2, <1>3, <2>1 DEF Number!Magnitude
<1> QED BY <1>4, <1>5

LEMMA ConversionFits ==
  ASSUME NEW s \in Seq(Byte)
  PROVE  /\ Number!kason_value_to("SIGNED", s).result = "SUCCESS" =>
              Number!kason_value_to("SIGNED", s).value \in (-INT64_MAX - 1)..INT64_MAX
         /\ Number!kason_value_to("UNSIGNED", s).result = "SUCCESS" =>
              Number!kason_value_to("UNSIGNED", s).value \in 0..UINT64_MAX
         /\ Number!kason_value_to_int(s).result = "SUCCESS" =>
              Number!kason_value_to_int(s).value \in (-INT_MAX - 1)..INT_MAX
<1> DEFINE magnitude == Number!kason_integer_magnitude(s)
           n == magnitude.value
           negative == Number!IsNegative(s)
           converted(to) == IF to = "SIGNED" THEN Number!SignedResult(negative, n)
                            ELSE Number!UnsignedResult(negative, n)
<1>1. magnitude.result = "SUCCESS" => n \in 0..UINT64_MAX
  BY MagnitudeFits
<1>2. UINT64_MAX \in Nat /\ INT64_MAX \in Nat /\ INT_MAX \in Nat
  BY WidthsAssumption
<1>3. \A to : Number!kason_value_to(to, s) = IF magnitude.result = "SUCCESS" THEN converted(to)
                                            ELSE Number!Failure(magnitude.result)
  BY DEF Number!kason_value_to, Number!OfMagnitude, Number!OrFailure
<1>4. \A x : Number!Failure(x).result = x /\ Number!Failure(x).value = 0
             /\ Number!Converted(x).result = "SUCCESS" /\ Number!Converted(x).value = x
  BY DEF Number!Failure, Number!Converted
<1> HIDE DEF magnitude, n, negative
<1>5. magnitude.result = "SUCCESS" =>
        /\ converted("SIGNED").result = "SUCCESS" =>
             converted("SIGNED").value \in (-INT64_MAX - 1)..INT64_MAX
        /\ converted("UNSIGNED").result = "SUCCESS" =>
             converted("UNSIGNED").value \in 0..UINT64_MAX
  <2> SUFFICES ASSUME n \in 0..UINT64_MAX
               PROVE  /\ converted("SIGNED").result = "SUCCESS" =>
                           converted("SIGNED").value \in (-INT64_MAX - 1)..INT64_MAX
                      /\ converted("UNSIGNED").result = "SUCCESS" =>
                           converted("UNSIGNED").value \in 0..UINT64_MAX
    BY <1>1
  <2>1. \/ n > Number!Limit(negative) /\ converted("SIGNED") = Number!Failure("RANGE")
        \/ n <= Number!Limit(negative) /\ negative /\ converted("SIGNED") = Number!Converted(-n)
        \/ n <= Number!Limit(negative) /\ ~negative /\ converted("SIGNED") = Number!Converted(n)
    <3>1. CASE n > Number!Limit(negative)
      <4>1. ~(n <= Number!Limit(negative))
        BY <1>2, <3>1 DEF Number!Limit
      <4> QED BY <3>1, <4>1 DEF Number!SignedResult
    <3>2. CASE ~(n > Number!Limit(negative))
      <4>1. n <= Number!Limit(negative)
        BY <1>2, <3>2 DEF Number!Limit
      <4> QED BY <3>2, <4>1 DEF Number!SignedResult
    <3> QED BY <3>1, <3>2
  <2>2. converted("UNSIGNED") = IF negative THEN Number!Failure("RANGE") ELSE Number!Converted(n)
    BY DEF Number!UnsignedResult
  <2>3. n <= Number!Limit(negative) /\ negative => -n \in (-INT64_MAX - 1)..INT64_MAX
    BY <1>2 DEF Number!Limit
  <2>4. n <= Number!Limit(negative) /\ ~negative => n \in (-INT64_MAX - 1)..INT64_MAX
    BY <1>2 DEF Number!Limit
  <2> HIDE DEF converted
  <2> QED BY <1>4, <2>1, <2>2, <2>3, <2>4
<1>6. /\ Number!kason_value_to("SIGNED", s).result = "SUCCESS" =>
              Number!kason_value_to("SIGNED", s).value \in (-INT64_MAX - 1)..INT64_MAX
      /\ Number!kason_value_to("UNSIGNED", s).result = "SUCCESS" =>
              Number!kason_value_to("UNSIGNED", s).value \in 0..UINT64_MAX
  <2> HIDE DEF converted
  <2> QED BY <1>3, <1>4, <1>5
<1>7. Number!kason_value_to_int(s).result = "SUCCESS" =>
        Number!kason_value_to_int(s).value \in (-INT_MAX - 1)..INT_MAX
  <2> DEFINE wide == Number!kason_value_to("SIGNED", s)
  <2>1. Number!kason_value_to_int(s)
          = IF wide.result = "SUCCESS" /\ ~Number!InInt(wide.value) THEN Number!Failure("RANGE")
            ELSE wide
    BY DEF Number!kason_value_to_int, Number!Narrowed
  <2> HIDE DEF wide
  <2> QED BY <1>4, <2>1 DEF Number!InInt
<1> QED BY <1>6, <1>7

\* The units of a string, and the bytes it stands for.
LEMMA DecodedBytes == ASSUME NEW s \in Seq(Byte) PROVE Decoded(s).bytes \in Seq(Nat)
<1> DEFINE n == Len(s)
           S == 1..(n + 1)
           T == [ok : BOOLEAN, bytes : Seq(Nat)]
           body(f, p) ==
             CASE p = Len(s) + 1 -> [ok |-> TRUE, bytes |-> << >>]
               [] p <= Len(s) /\ kason_string_next(s, p).length = 0 -> Undecodable
               [] OTHER -> Prepend(kason_utf8_encode(kason_string_next(s, p).value),
                                   f[p + kason_string_next(s, p).length])
           F == [f \in [S -> T] |-> [p \in S |-> body(f, p)]]
           from == CHOOSE f : f = [p \in 1..(Len(s) + 1) |-> body(f, p)]
<1>1. n \in Nat /\ 1 \in S
  OBVIOUS
<1>2. Decoded(s) = from[1]
  BY DEF Decoded
<1>3. ASSUME NEW f, NEW p \in S
      PROVE  \/ p = n + 1 /\ body(f, p) = [ok |-> TRUE, bytes |-> << >>]
             \/ p \in 1..n /\ kason_string_next(s, p).length = 0 /\ body(f, p) = Undecodable
             \/ /\ p \in 1..n /\ kason_string_next(s, p).length # 0
                /\ body(f, p) = Prepend(kason_utf8_encode(kason_string_next(s, p).value),
                                        f[p + kason_string_next(s, p).length])
  <2>1. CASE p = n + 1
    <3>1. ~(p <= Len(s))
      BY <1>1, <2>1
    <3> QED BY <2>1, <3>1
  <2>2. CASE p # n + 1
    <3>1. p \in 1..n /\ p <= Len(s)
      BY <1>1, <2>2
    <3> QED BY <2>2, <3>1
  <2> QED BY <2>1, <2>2
<1> HIDE DEF body
<1>4. [ok |-> TRUE, bytes |-> << >>] \in T /\ Undecodable \in T
  BY DEF Undecodable
<1>5. ASSUME NEW f, NEW p \in S, \A r \in S : r > p => f[r] \in T PROVE body(f, p) \in T
  <2>1. ASSUME p \in 1..n, kason_string_next(s, p).length # 0
        PROVE  Prepend(kason_utf8_encode(kason_string_next(s, p).value),
                       f[p + kason_string_next(s, p).length]) \in T
    <3> DEFINE rest == f[p + kason_string_next(s, p).length]
               bytes == kason_utf8_encode(kason_string_next(s, p).value)
    <3>1. /\ kason_string_next(s, p).value \in UnicodeScalar
          /\ p + kason_string_next(s, p).length \in S
          /\ p + kason_string_next(s, p).length > p
      BY <2>1, NextStep
    <3>2. rest \in T
      BY <1>5, <3>1
    <3>3. bytes \in Seq(Nat)
      <4>1. bytes \in Seq(Byte)
        BY <3>1, EncodeType
      <4> HIDE DEF bytes
      <4>2. Byte \subseteq Nat
        BY DEF Byte
      <4>3. bytes = [i \in 1..Len(bytes) |-> bytes[i]] /\ Len(bytes) \in Nat
             /\ \A i \in 1..Len(bytes) : bytes[i] \in Nat
        BY <4>1, <4>2
      <4> QED BY <4>3
    <3> HIDE DEF rest, bytes
    <3>4. bytes \o rest.bytes \in Seq(Nat)
      BY <3>2, <3>3
    <3>5. Prepend(bytes, rest) \in T
      BY <1>4, <3>4 DEF Prepend
    <3> QED BY <3>5 DEF rest, bytes
  <2> HIDE DEF T, S
  <2> QED BY <1>3, <1>4, <2>1
<1>6. Forward(n, T, F)
  <2>1. F \in [[S -> T] -> [S -> T]]
    <3>1. \A f \in [S -> T] : \A p \in S : body(f, p) \in T
      BY <1>5
    <3> HIDE DEF S, T
    <3> QED BY <3>1
  <2>2. T # {}
    <3> HIDE DEF T
    <3> QED BY <1>4
  <2>3. ASSUME NEW g \in [S -> T], NEW h \in [S -> T], NEW p \in S,
               \A r \in S : r > p => g[r] = h[r]
        PROVE  body(g, p) = body(h, p)
    <3>1. ASSUME p \in 1..n, kason_string_next(s, p).length # 0
          PROVE  g[p + kason_string_next(s, p).length] = h[p + kason_string_next(s, p).length]
      BY <2>3, <3>1, NextStep
    <3> DEFINE next(f) == Prepend(kason_utf8_encode(kason_string_next(s, p).value),
                                  f[p + kason_string_next(s, p).length])
    <3>2. ASSUME NEW f
          PROVE  \/ p = n + 1 /\ body(f, p) = [ok |-> TRUE, bytes |-> << >>]
                 \/ p \in 1..n /\ kason_string_next(s, p).length = 0 /\ body(f, p) = Undecodable
                 \/ p \in 1..n /\ kason_string_next(s, p).length # 0 /\ body(f, p) = next(f)
      BY <1>3
    <3>3. p \in 1..n /\ kason_string_next(s, p).length # 0 => next(g) = next(h)
      BY <3>1
    <3>4. p = n + 1 => p \notin 1..n
      BY <1>1
    <3> HIDE DEF next
    <3> QED BY <3>2, <3>3, <3>4, Zenon
  <2> HIDE DEF T, n
  <2> QED BY <2>1, <2>2, <2>3 DEF Forward
<1>7. PICK f : Solution(S, T, F, f)
  <2> HIDE DEF F, n, T
  <2> QED BY <1>1, <1>6, ForwardRecursion
<1>8. f = [p \in 1..(Len(s) + 1) |-> body(f, p)]
  BY <1>7 DEF Solution
<1>9. from = [p \in 1..(Len(s) + 1) |-> body(from, p)]
  BY <1>8
<1> HIDE DEF from, F
<1> DEFINE P == {p \in S : from[p] \in T}
<1>10. P = S
  <2>1. ASSUME NEW p \in S, \A r \in S : r > p => r \in P PROVE p \in P
    <3>1. from[p] = body(from, p)
      BY <1>9
    <3>2. body(from, p) \in T
      BY <1>5, <2>1
    <3> QED BY <3>1, <3>2
  <2>2. Backward(n, P)
    BY <2>1 DEF Backward
  <2> HIDE DEF P, n
  <2> QED BY <1>1, <2>2, BackwardInduction
<1>11. from[1] \in T
  <2> HIDE DEF T
  <2> QED BY <1>1, <1>10
<1> QED BY <1>2, <1>11
LEMMA FlattenIs ==
  ASSUME NEW seqs \in Seq(Seq(Nat)) PROVE FlattenSeq(seqs) \in Seq(Nat)
<1> DEFINE S == 1..Len(seqs)
           T == Seq(Nat)
           body(f, i) == IF i = 1 THEN seqs[i] ELSE f[i - 1] \o seqs[i]
           F == [f \in [S -> T] |-> [i \in S |-> body(f, i)]]
           m == [i \in S |-> i]
           flatten == CHOOSE f : f = [i \in 1..Len(seqs) |-> body(f, i)]
<1>1. Len(seqs) \in Nat /\ \A i \in S : seqs[i] \in T
  OBVIOUS
<1>2. FlattenSeq(seqs) = IF Len(seqs) = 0 THEN seqs ELSE flatten[Len(seqs)]
  BY DEF FlattenSeq
<1>3. ASSUME NEW f, NEW i \in S, i # 1 => f[i - 1] \in T PROVE body(f, i) \in T
  BY <1>1, <1>3
<1>4. \A i \in S : i # 1 => i - 1 \in S /\ m[i - 1] < m[i]
  BY <1>1
<1>5. m \in [S -> Nat]
  BY <1>1
<1>6. Recursive(S, T, m, F)
  <2>1. \A f \in [S -> T], i \in S : body(f, i) \in T
    <3> HIDE DEF body, T
    <3> QED BY <1>3, <1>4
  <2>2. F \in [[S -> T] -> [S -> T]]
    <3> HIDE DEF body, T, S
    <3> QED BY <2>1
  <2>3. << >> \in T
    OBVIOUS
  <2>4. ASSUME NEW g \in [S -> T], NEW h \in [S -> T], NEW i \in S,
               \A r \in S : m[r] < m[i] => g[r] = h[r]
        PROVE  body(g, i) = body(h, i)
    <3> HIDE DEF S, m
    <3> QED BY <1>4, <2>4
  <2> HIDE DEF m, S, T, body
  <2>5. Descends(S, T, m, F)
    BY <2>4 DEF Descends
  <2> HIDE DEF F
  <2> QED BY <1>5, <2>2, <2>3, <2>5 DEF Recursive
<1>7. PICK f : Solution(S, T, F, f)
  <2> HIDE DEF S, T, m, F
  <2> QED BY <1>6, Recursion
<1>8. f = [i \in 1..Len(seqs) |-> body(f, i)]
  <2> HIDE DEF body, T
  <2> QED BY <1>7 DEF Solution
<1>9. flatten = [i \in 1..Len(seqs) |-> body(flatten, i)]
  <2> HIDE DEF body
  <2> QED BY <1>8
<1> HIDE DEF flatten, F
<1> DEFINE P == {i \in S : flatten[i] \in T}
<1>10. Progressive(S, m, P)
  <2>1. ASSUME NEW i \in S, \A r \in S : m[r] < m[i] => r \in P PROVE i \in P
    <3>1. flatten[i] = body(flatten, i)
      <4> HIDE DEF body
      <4> QED BY <1>9
    <3>2. i # 1 => flatten[i - 1] \in T
      <4> HIDE DEF m, S, T
      <4> QED BY <1>4, <2>1
    <3>3. body(flatten, i) \in T
      <4> HIDE DEF body, T
      <4> QED BY <1>3, <3>2
    <3> HIDE DEF body, T
    <3> QED BY <3>1, <3>3
  <2> HIDE DEF m, S
  <2>2. P \in SUBSET S
    OBVIOUS
  <2> HIDE DEF P
  <2> QED BY <1>5, <2>1, <2>2 DEF Progressive
<1>11. P = S
  <2> HIDE DEF m, S, P
  <2> QED BY <1>10, MeasureInduction
<1>12. CASE Len(seqs) = 0
  <2>1. seqs \in T
    BY <1>12
  <2> QED BY <1>2, <1>12, <2>1
<1>13. CASE Len(seqs) # 0
  <2>1. Len(seqs) \in P
    <3>1. Len(seqs) \in S
      BY <1>1, <1>13
    <3> HIDE DEF S, P
    <3> QED BY <1>11, <3>1
  <2> QED BY <1>2, <1>13, <2>1
<1> QED BY <1>12, <1>13

LEMMA UnitsAre ==
  ASSUME NEW s \in Seq(Byte), NEW type \in StringTypes
  PROVE  Units(type, s) \in Seq(Nat)
<1>1. Characters(s) \in Seq(UnicodeScalar)
  <2>1. PICK chars : Spelling(s, chars) /\ Characters(s) = chars[1]
    BY CharactersFrom
  <2>2. Len(s) \in Nat /\ 1 \in 1..(Len(s) + 1)
    OBVIOUS
  <2> QED BY <2>1, <2>2 DEF Spelling
<1> DEFINE chars == Characters(s)
<1>2. UnicodeScalar \subseteq Nat
  BY DEF UnicodeScalar
<1>3. chars \in Seq(UnicodeScalar)
  BY <1>1
<1> HIDE DEF chars
<1>4. Len(chars) \in Nat /\ DOMAIN chars = 1..Len(chars)
      /\ \A k \in 1..Len(chars) : chars[k] \in UnicodeScalar
  BY <1>3
<1>5. chars \in Seq(Nat)
  <2>1. chars = [k \in 1..Len(chars) |-> chars[k]] /\ \A k \in 1..Len(chars) : chars[k] \in Nat
    BY <1>2, <1>3, <1>4
  <2> QED BY <1>4, <2>1
<1>6. CASE type = "STRING"
  BY <1>6, DecodedBytes DEF Units
<1>7. CASE type = "STRING_U16"
  <2> DEFINE seqs == [k \in DOMAIN chars |-> utf16_units(chars[k])]
  <2>1. seqs \in Seq(Seq(Nat))
    <3>1. \A k \in 1..Len(chars) : utf16_units(chars[k]) \in Seq(Nat)
      BY <1>4, Utf16Type
    <3> QED BY <1>4, <3>1
  <2>2. Units(type, s) = FlattenSeq(seqs)
    BY <1>7 DEF Units, chars
  <2> HIDE DEF seqs
  <2> QED BY <2>1, <2>2, FlattenIs
<1>8. CASE type = "STRING_U32"
  BY <1>5, <1>8 DEF Units, chars
<1> QED BY <1>6, <1>7, <1>8 DEF StringTypes

\* A value that a field may hold, and that may be read there.
ScalarFits(field, v) ==
  IF field.type \in StringTypes THEN Len(v) <= field.size ELSE InRange(field.type, v)
ScalarSafe(field, v) ==
  ScalarFits(field, v) /\ (field.type \in StringTypes => Terminated(v))

LEMMA UnitsStoredSafe ==
  ASSUME NEW units \in Seq(Nat), NEW size \in Nat, UnitsStored(size, units).cell # << >>
  PROVE  /\ Len(Head(UnitsStored(size, units).cell)) <= size
         /\ Terminated(Head(UnitsStored(size, units).cell))
<1>1. Len(units) \in Nat
  OBVIOUS
<1>2. CASE Len(units) >= size
  BY <1>1, <1>2 DEF UnitsStored, Refused
<1>3. CASE ~(Len(units) >= size) /\ ~NoNul(units)
  <2>1. UnitsStored(size, units) = [code |-> "TYPE", cell |-> <<units>>]
    BY <1>1, <1>3 DEF UnitsStored
  <2>2. Terminated(units)
    BY <1>3 DEF NoNul, Terminated
  <2>3. Head(UnitsStored(size, units).cell) = units
    BY <2>1
  <2> QED BY <1>1, <1>3, <2>2, <2>3
<1>4. CASE ~(Len(units) >= size) /\ NoNul(units)
  <2>1. UnitsStored(size, units) = Stored(Append(units, 0))
    BY <1>1, <1>4 DEF UnitsStored
  <2>2. Head(UnitsStored(size, units).cell) = Append(units, 0)
    BY <2>1 DEF Stored
  <2>3. Append(units, 0) \in Seq(Nat) /\ Len(Append(units, 0)) = Len(units) + 1
        /\ Append(units, 0)[Len(units) + 1] = 0 /\ DOMAIN Append(units, 0) = 1..(Len(units) + 1)
    OBVIOUS
  <2>4. Terminated(Append(units, 0))
    BY <1>1, <2>3 DEF Terminated
  <2> DEFINE full == Append(units, 0)
  <2> HIDE DEF full
  <2>5. Len(full) <= size /\ Terminated(full)
    BY <1>1, <1>4, <2>3, <2>4 DEF full
  <2> QED BY <2>2, <2>5 DEF full
<1> QED BY <1>2, <1>3, <1>4

LEMMA NumberStoredFits ==
  ASSUME NEW s \in Seq(Byte), NEW type \in {"INT", "INT64", "U32", "U64"},
         NumberStored(type, Conversion(type, s)).cell # << >>
  PROVE  InRange(type, Head(NumberStored(type, Conversion(type, s)).cell))
<1> DEFINE c == Conversion(type, s)
<1>1. c.result = "SUCCESS" /\ (type = "U32" => ~(c.value > UINT32_MAX))
  <2>1. CASE c.result # "SUCCESS"
    <3>1. NumberStored(type, c) = Refused(kason_schema_conversion_error(c))
      BY <2>1 DEF NumberStored
    <3> QED BY <3>1 DEF Refused
  <2>2. CASE c.result = "SUCCESS" /\ type = "U32" /\ c.value > UINT32_MAX
    <3>1. NumberStored(type, c) = Refused("RANGE")
      BY <2>2 DEF NumberStored
    <3> QED BY <3>1 DEF Refused
  <2> QED BY <2>1, <2>2
<1>2. NumberStored(type, c) = Stored(c.value)
  BY <1>1 DEF NumberStored
<1>3. Head(NumberStored(type, c).cell) = c.value
  BY <1>2 DEF Stored
<1>4. UINT32_MAX \in Nat /\ UINT64_MAX \in Nat
  BY WidthsAssumption
<1>5. CASE type = "INT"
  <2>1. c = Number!kason_value_to_int(s)
    BY <1>5 DEF Conversion
  <2> HIDE DEF c
  <2>2. c.value \in (-INT_MAX - 1)..INT_MAX
    BY <1>1, <2>1, ConversionFits
  <2> QED BY <1>3, <1>5, <2>2 DEF InRange, c
<1>6. CASE type = "INT64"
  <2>1. c = Number!kason_value_to("SIGNED", s)
    BY <1>6 DEF Conversion
  <2> HIDE DEF c
  <2>2. c.value \in (-INT64_MAX - 1)..INT64_MAX
    BY <1>1, <2>1, ConversionFits
  <2> QED BY <1>3, <1>6, <2>2 DEF InRange, c
<1>7. CASE type \in {"U32", "U64"}
  <2>1. c = Number!kason_value_to("UNSIGNED", s)
    BY <1>7 DEF Conversion
  <2> HIDE DEF c
  <2>2. c.value \in 0..UINT64_MAX
    BY <1>1, <2>1, ConversionFits
  <2>3. type = "U32" => c.value \in 0..UINT32_MAX
    BY <1>1, <1>4, <2>2
  <2> QED BY <1>3, <1>7, <2>2, <2>3 DEF InRange, c
<1> QED BY <1>5, <1>6, <1>7

\* What kason_schema_store_scalar writes, whatever it returns.
LEMMA StoredScalarSafe ==
  ASSUME doc \in Seq(Byte), NEW field, field.type \in Types \ {"STRUCT"}, field.size \in Nat,
         NEW value, ValueInRange(value), value.type # "INVALID",
         kason_schema_store_scalar(field, value).cell # << >>
  PROVE  ScalarSafe(field, Head(kason_schema_store_scalar(field, value).cell))
<1> DEFINE stored == kason_schema_store_scalar(field, value)
<1>1. SliceText(value) \in Seq(Byte)
  BY SliceTextIs
<1>2. value.type \in ScalarTypeOf(field.type)
  <2> SUFFICES ASSUME value.type \notin ScalarTypeOf(field.type) PROVE FALSE
    OBVIOUS
  <2>1. stored = Refused("TYPE")
    <3>1. value.type \in {"TRUE", "FALSE"} => field.type # "BOOL"
      BY DEF ScalarTypeOf, StringTypes
    <3>2. value.type = "STRING" => field.type \notin StringTypes
      BY DEF ScalarTypeOf, StringTypes
    <3>3. value.type = "NUMBER" => field.type # "DOUBLE"
      BY DEF ScalarTypeOf, StringTypes
    <3> QED BY <3>1, <3>2, <3>3 DEF kason_schema_store_scalar
  <2> QED BY <2>1 DEF Refused
<1>3. CASE field.type = "BOOL"
  BY <1>3, Zenon DEF ScalarSafe, ScalarFits, InRange, StringTypes
<1>4. CASE field.type \in StringTypes
  <2>1. value.type = "STRING"
    BY <1>2, <1>4 DEF ScalarTypeOf, StringTypes
  <2>2. stored = UnitsStored(field.size, Units(field.type, SliceText(value)))
    BY <1>2, <1>4, <2>1 DEF kason_schema_store_scalar
  <2>3. Units(field.type, SliceText(value)) \in Seq(Nat)
    BY <1>1, <1>4, UnitsAre
  <2> HIDE DEF stored
  <2>4. Len(Head(stored.cell)) <= field.size /\ Terminated(Head(stored.cell))
    BY <2>2, <2>3, UnitsStoredSafe DEF stored
  <2> QED BY <1>4, <2>4 DEF ScalarSafe, ScalarFits, stored
<1>5. CASE field.type = "DOUBLE"
  BY <1>5, Zenon DEF ScalarSafe, ScalarFits, InRange, StringTypes
<1>6. CASE field.type \in {"INT", "INT64", "U32", "U64"}
  <2>1. value.type = "NUMBER" /\ field.type \notin StringTypes
    BY <1>2, <1>6 DEF ScalarTypeOf, StringTypes
  <2>2. stored = NumberStored(field.type, Conversion(field.type, SliceText(value)))
    BY <1>2, <1>6, <2>1 DEF kason_schema_store_scalar
  <2> HIDE DEF stored
  <2>3. InRange(field.type, Head(stored.cell))
    BY <1>1, <1>6, <2>2, NumberStoredFits DEF stored
  <2> QED BY <2>1, <2>3 DEF ScalarSafe, ScalarFits, stored
<1> QED BY <1>3, <1>4, <1>5, <1>6 DEF Types, IntegerTypes

-----------------------------------------------------------------------------
(* Masks: found is a set of fields. *)

LEMMA DivIs ==
  ASSUME NEW b \in Nat, b > 0, NEW q \in Nat, NEW r \in Nat, r < b
  PROVE  (q * b + r) \div b = q
OBVIOUS

LEMMA DivParts ==
  ASSUME NEW b \in Nat, b > 0, NEW a \in Nat
  PROVE  \E q, r \in Nat : r < b /\ a = q * b + r
<1> DEFINE N == {n \in Nat : a < (n + 1) * b}
<1>1. a < (a + 1) * b
  OBVIOUS
<1>2. PICK q \in N : \A n \in N : q <= n
  <2>1. N \in SUBSET Nat /\ a \in N
    BY <1>1
  <2> HIDE DEF N
  <2> QED BY <2>1, LeastNat
<1>3. q \in Nat /\ a < (q + 1) * b
  BY <1>2
<1>4. q * b <= a
  <2>1. CASE q = 0
    BY <2>1
  <2>2. CASE q # 0
    <3>1. q - 1 \in Nat /\ q - 1 \notin N
      BY <1>2, <1>3, <2>2
    <3>2. ~(a < q * b) /\ q * b \in Nat
      BY <1>3, <3>1
    <3> QED BY <3>2
  <2> QED BY <2>1, <2>2
<1>5. q * b \in Nat /\ (q + 1) * b = q * b + b
  BY <1>3
<1>6. a - q * b \in Nat /\ a - q * b < b /\ a = q * b + (a - q * b)
  BY <1>3, <1>4, <1>5
<1> QED BY <1>3, <1>6

Bits == 1..MASK_BITS

LEMMA BitIs ==
  /\ \A i \in Bits : Bit(i) \in Nat \ {0}
  /\ \A i \in Bits : i + 1 \in Bits => Bit(i + 1) = 2 * Bit(i)
<1>1. MASK_BITS \in Nat
  BY MaskAssumption
<1>2. ASSUME NEW i \in Bits PROVE Bit(i) \in Nat \ {0}
  <2>1. i - 1 \in 0..MASK_BITS
    BY <1>1 DEF Bits
  <2>2. 2^(i - 1) \in Nat \ {0}
    BY <2>1, PowersAssumption
  <2> QED BY <2>2 DEF Bit
<1>3. ASSUME NEW i \in Bits, i + 1 \in Bits PROVE Bit(i + 1) = 2 * Bit(i)
  <2>1. i - 1 \in 0..(MASK_BITS - 1) /\ i + 1 - 1 = i /\ (i - 1) + 1 = i
    BY <1>1, <1>3 DEF Bits
  <2>2. 2^((i - 1) + 1) = 2 * 2^(i - 1)
    BY <2>1, PowersAssumption
  <2>3. Bit(i + 1) = 2^i
    BY <2>1 DEF Bit
  <2> QED BY <2>1, <2>2, <2>3 DEF Bit
<1> QED BY <1>2, <1>3

LEMMA BitRatio ==
  ASSUME NEW i \in Bits, NEW j \in Bits, i < j
  PROVE  \E c \in Nat \ {0} : Bit(j) = 2 * (c * Bit(i))
<1> DEFINE P == {n \in Nat : i + n + 1 \in Bits =>
                               \E c \in Nat \ {0} : Bit(i + n + 1) = 2 * (c * Bit(i))}
<1>1. MASK_BITS \in Nat /\ i \in Nat /\ j \in Nat
  BY MaskAssumption DEF Bits
<1>2. 0 \in P
  <2> SUFFICES ASSUME i + 0 + 1 \in Bits
               PROVE  \E c \in Nat \ {0} : Bit(i + 0 + 1) = 2 * (c * Bit(i))
    OBVIOUS
  <2>1. i + 0 + 1 = i + 1 /\ i + 1 \in Bits /\ Bit(i) \in Nat
    BY <1>1, BitIs
  <2>2. Bit(i + 1) = 2 * Bit(i)
    BY <2>1, BitIs
  <2>3. Bit(i + 0 + 1) = 2 * (1 * Bit(i)) /\ 1 \in Nat \ {0}
    BY <2>1, <2>2
  <2> QED BY <2>3
<1>3. ASSUME NEW n \in P PROVE n + 1 \in P
  <2> SUFFICES ASSUME i + (n + 1) + 1 \in Bits
               PROVE  \E c \in Nat \ {0} : Bit(i + (n + 1) + 1) = 2 * (c * Bit(i))
    OBVIOUS
  <2>1. i + n + 1 \in Bits /\ i + (n + 1) + 1 = (i + n + 1) + 1
    BY <1>1 DEF Bits
  <2>2. PICK c \in Nat \ {0} : Bit(i + n + 1) = 2 * (c * Bit(i))
    BY <2>1
  <2>3. Bit((i + n + 1) + 1) = 2 * Bit(i + n + 1)
    BY <2>1, BitIs
  <2>4. Bit(i) \in Nat
    BY BitIs
  <2> DEFINE b == Bit(i)
  <2> HIDE DEF b
  <2>5. 2 * (2 * (c * b)) = 2 * ((2 * c) * b) /\ 2 * c \in Nat \ {0}
    BY <2>4 DEF b
  <2> QED BY <2>1, <2>2, <2>3, <2>5 DEF b
<1> HIDE DEF P
<1>4. P = Nat
  <2>1. P \in SUBSET Nat
    BY DEF P
  <2> QED BY <1>2, <1>3, <2>1, SetInduction
<1>5. j - i - 1 \in P /\ i + (j - i - 1) + 1 = j
  BY <1>1, <1>4
<1> QED BY <1>5 DEF P

\* Setting a bit that is clear sets it, and no other.
LEMMA SetBit ==
  ASSUME NEW m \in Nat, NEW i \in Bits, NEW j \in Bits, ~Has(m, i)
  PROVE  Has(m + Bit(i), j) <=> Has(m, j) \/ j = i
<1> DEFINE b == Bit(i)  d == Bit(j)
<1>1. b \in Nat /\ b > 0 /\ d \in Nat /\ d > 0 /\ i \in Int /\ j \in Int
  BY BitIs DEF Bits
<1>2. PICK q, r \in Nat : r < b /\ m = q * b + r
  BY <1>1, DivParts
<1>3. m \div b = q
  BY <1>1, <1>2, DivIs
<1>4. q % 2 = 0
  BY <1>2, <1>3 DEF Has
<1> HIDE DEF b, d
<1>5. CASE j = i
  <2>1. m + b = (q + 1) * b + r /\ q + 1 \in Nat
    BY <1>1, <1>2
  <2>2. (m + b) \div b = q + 1
    BY <1>1, <1>2, <2>1, DivIs
  <2>3. (q + 1) % 2 = 1
    BY <1>2, <1>4
  <2> QED BY <1>5, <2>2, <2>3 DEF Has, b
<1>6. CASE j < i
  <2>1. PICK c \in Nat \ {0} : b = 2 * (c * d)
    BY <1>6, BitRatio DEF b, d
  <2>2. PICK k, s \in Nat : s < d /\ m = k * d + s
    BY <1>1, DivParts
  <2>3. m \div d = k
    BY <1>1, <2>2, DivIs
  <2>4. m + b = (k + 2 * c) * d + s /\ k + 2 * c \in Nat
    BY <1>1, <2>1, <2>2
  <2>5. (m + b) \div d = k + 2 * c
    BY <1>1, <2>2, <2>4, DivIs
  <2>6. (k + 2 * c) % 2 = k % 2
    BY <2>1, <2>2
  <2>7. j # i
    BY <1>1, <1>6
  <2> QED BY <2>3, <2>5, <2>6, <2>7 DEF Has, b, d
<1>7. CASE j > i
  <2>1. PICK c \in Nat \ {0} : d = 2 * (c * b)
    BY <1>1, <1>7, BitRatio DEF b, d
  <2>2. PICK k, s \in Nat : s < d /\ m = k * d + s
    BY <1>1, DivParts
  <2>3. m \div d = k
    BY <1>1, <2>2, DivIs
  <2>4. PICK u, v \in Nat : v < b /\ s = u * b + v
    BY <1>1, <2>2, DivParts
  <2>5. m = (k * (2 * c) + u) * b + v /\ k * (2 * c) + u \in Nat
    BY <1>1, <2>1, <2>2, <2>4
  <2>6. q = 2 * (k * c) + u
    <3>1. m \div b = k * (2 * c) + u
      BY <1>1, <2>4, <2>5, DivIs
    <3> QED BY <1>3, <2>1, <2>2, <2>4, <3>1
  <2>7. u % 2 = 0
    <3>1. k * c \in Nat
      BY <2>1, <2>2
    <3> QED BY <1>4, <2>4, <2>6, <3>1
  <2>8. u + 1 < 2 * c
    <3>1. ~(u >= 2 * c)
      <4> SUFFICES ASSUME u >= 2 * c PROVE FALSE
        OBVIOUS
      <4>1. u * b >= (2 * c) * b
        BY <1>1, <2>1, <2>4
      <4> QED BY <1>1, <2>1, <2>2, <2>4, <4>1
    <3> QED BY <2>1, <2>4, <2>7, <3>1
  <2>9. s + b < d
    <3>1. (u + 2) * b <= (2 * c) * b
      BY <1>1, <2>1, <2>4, <2>8
    <3> QED BY <1>1, <2>1, <2>4, <3>1
  <2>10. m + b = k * d + (s + b) /\ s + b \in Nat
    BY <1>1, <2>2
  <2>11. (m + b) \div d = k
    BY <1>1, <2>2, <2>9, <2>10, DivIs
  <2>12. j # i
    BY <1>1, <1>7
  <2> QED BY <2>3, <2>11, <2>12 DEF Has, b, d
<1> QED BY <1>1, <1>5, <1>6, <1>7

LEMMA NoBit == ASSUME NEW j \in Bits PROVE ~Has(0, j)
<1>1. Bit(j) \in Nat /\ Bit(j) > 0
  BY BitIs
<1>2. 0 \div Bit(j) = 0
  BY <1>1
<1> QED BY <1>2 DEF Has

\* A mask has the bits of the set it is made of.
LEMMA MaskIs ==
  ASSUME NEW S \in SUBSET Bits, NEW j \in Bits
  PROVE  Has(Mask(S), j) <=> j \in S
<1> DEFINE body(f, s) == IF s = {} THEN 0
                         ELSE LET x == CHOOSE x \in s : TRUE IN Bit(x) + f[s \ {x}]
           F == [f \in [SUBSET S -> Int] |-> [s \in SUBSET S |-> body(f, s)]]
           m == [s \in SUBSET S |-> Cardinality(s)]
           iter == CHOOSE f : f = [s \in SUBSET S |-> body(f, s)]
           P == {s \in SUBSET S : iter[s] \in Nat /\ \A k \in Bits : Has(iter[s], k) <=> k \in s}
<1>1. Mask(S) = iter[S]
  BY DEF Mask, MapThenSumSet, MapThenFoldSet
<1>2. \A s \in SUBSET S : IsFiniteSet(s)
  <2>1. IsFiniteSet(Bits)
    BY FS_Interval, MaskAssumption DEF Bits
  <2> QED BY <2>1, FS_Subset
<1>3. ASSUME NEW s \in SUBSET S, s # {}
      PROVE  /\ (CHOOSE x \in s : TRUE) \in s
             /\ s \ {CHOOSE x \in s : TRUE} \in SUBSET S
             /\ m[s \ {CHOOSE x \in s : TRUE}] < m[s]
  <2> DEFINE x == CHOOSE x \in s : TRUE
  <2>1. x \in s
    BY <1>3
  <2> HIDE DEF x
  <2>2. Cardinality(s \ {x}) = Cardinality(s) - 1 /\ Cardinality(s) \in Nat
    BY <1>2, <2>1, FS_RemoveElement, FS_CardinalityType
  <2> QED BY <2>1, <2>2 DEF x
<1>4. m \in [SUBSET S -> Nat]
  BY <1>2, FS_CardinalityType
<1>5. Recursive(SUBSET S, Int, m, F)
  <2>1. ASSUME NEW f \in [SUBSET S -> Int], NEW s \in SUBSET S PROVE body(f, s) \in Int
    <3>1. CASE s = {}
      BY <3>1
    <3>2. CASE s # {}
      <4> DEFINE x == CHOOSE x \in s : TRUE
      <4>1. x \in s /\ s \ {x} \in SUBSET S
        BY <1>3, <3>2
      <4>2. body(f, s) = Bit(x) + f[s \ {x}]
        BY <3>2
      <4> HIDE DEF x, body
      <4>3. Bit(x) \in Int /\ f[s \ {x}] \in Int
        BY <4>1, BitIs
      <4> QED BY <4>2, <4>3
    <3> QED BY <3>1, <3>2
  <2>2. F \in [[SUBSET S -> Int] -> [SUBSET S -> Int]]
    <3> HIDE DEF body
    <3>1. \A f \in [SUBSET S -> Int] : [s \in SUBSET S |-> body(f, s)] \in [SUBSET S -> Int]
      BY <2>1
    <3> QED BY <3>1
  <2>3. ASSUME NEW g \in [SUBSET S -> Int], NEW h \in [SUBSET S -> Int], NEW s \in SUBSET S,
               \A r \in SUBSET S : m[r] < m[s] => g[r] = h[r]
        PROVE  body(g, s) = body(h, s)
    <3> HIDE DEF m
    <3>1. CASE s = {}
      BY <3>1
    <3>2. CASE s # {}
      <4> DEFINE x == CHOOSE x \in s : TRUE
      <4>1. s \ {x} \in SUBSET S /\ m[s \ {x}] < m[s]
        BY <1>3, <3>2
      <4>2. g[s \ {x}] = h[s \ {x}]
        <5> HIDE DEF x
        <5> QED BY <2>3, <4>1
      <4>3. \A f : body(f, s) = Bit(x) + f[s \ {x}]
        BY <3>2
      <4> HIDE DEF x, body
      <4> QED BY <4>2, <4>3
    <3> QED BY <3>1, <3>2
  <2> HIDE DEF m, body
  <2>4. Descends(SUBSET S, Int, m, F)
    BY <2>3 DEF Descends
  <2>5. Int # {}
    OBVIOUS
  <2> HIDE DEF F
  <2> QED BY <1>4, <2>2, <2>4, <2>5 DEF Recursive
<1>6. PICK f : Solution(SUBSET S, Int, F, f)
  <2> HIDE DEF m, F
  <2> QED BY <1>5, Recursion
<1>7. f = [s \in SUBSET S |-> body(f, s)]
  <2> HIDE DEF body
  <2> QED BY <1>6 DEF Solution
<1>8. iter = [s \in SUBSET S |-> body(iter, s)]
  <2> HIDE DEF body
  <2> QED BY <1>7
<1> HIDE DEF iter, F
<1>9. Progressive(SUBSET S, m, P)
  <2>1. ASSUME NEW s \in SUBSET S, \A r \in SUBSET S : m[r] < m[s] => r \in P PROVE s \in P
    <3>1. iter[s] = body(iter, s)
      <4> HIDE DEF body
      <4> QED BY <1>8
    <3>2. CASE s = {}
      <4>1. iter[s] = 0
        BY <3>1, <3>2
      <4> QED BY <3>2, <4>1, NoBit
    <3>3. CASE s # {}
      <4> DEFINE x == CHOOSE x \in s : TRUE  rest == iter[s \ {x}]
      <4>1. x \in s /\ s \ {x} \in P
        <5> HIDE DEF m, P
        <5> QED BY <1>3, <2>1, <3>3
      <4>2. iter[s] = Bit(x) + rest
        BY <3>1, <3>3
      <4> HIDE DEF x
      <4>3. rest \in Nat /\ \A k \in Bits : Has(rest, k) <=> k \in s \ {x}
        BY <4>1
      <4> HIDE DEF rest, P
      <4>4. x \in Bits /\ Bit(x) \in Nat /\ ~Has(rest, x)
        BY <4>1, <4>3, BitIs
      <4>5. iter[s] = rest + Bit(x) /\ iter[s] \in Nat
        BY <4>2, <4>3, <4>4
      <4>6. ASSUME NEW k \in Bits PROVE Has(iter[s], k) <=> k \in s
        <5>1. Has(rest + Bit(x), k) <=> Has(rest, k) \/ k = x
          BY <4>3, <4>4, SetBit
        <5> QED BY <4>1, <4>3, <4>5, <5>1
      <4> QED BY <4>5, <4>6 DEF P
    <3> QED BY <3>2, <3>3
  <2> HIDE DEF m
  <2>2. P \in SUBSET SUBSET S
    OBVIOUS
  <2> HIDE DEF P
  <2> QED BY <1>4, <2>1, <2>2 DEF Progressive
<1>10. P = SUBSET S
  <2> HIDE DEF m, P
  <2> QED BY <1>9, MeasureInduction
<1>11. S \in P
  <2> HIDE DEF P
  <2> QED BY <1>10
<1> QED BY <1>1, <1>11

-----------------------------------------------------------------------------
(* CellPaths: the places of a struct. *)

Paths == Seq(Nat)
\* The places of a schema, with f for those of the schemas in it.
OfBy(f, field) == IF field.type = "STRUCT" THEN f[field.child] ELSE {<< >>}
PlacesBy(f, i, field) ==
  IF field.array
  THEN {<<i, 0>>} \cup UNION {Under(<<i, k>>, OfBy(f, field)) : k \in 1..field.capacity}
  ELSE Under(<<i>>, OfBy(f, field))
PathsBy(f, schema) ==
  UNION {PlacesBy(f, i, Fields[schema][i]) : i \in DOMAIN Fields[schema]}
Of(field) == OfBy(CellPaths, field)

\* The beginning of a path: a field, or an item of an array.
Heads(schema) ==
  {h \in Paths :
     /\ Len(h) \in {1, 2} /\ h[1] \in DOMAIN Fields[schema]
     /\ Fields[schema][h[1]].array <=> Len(h) = 2
     /\ Len(h) = 2 => h[2] \in 1..Fields[schema][h[1]].capacity}
HeadField(schema, h) == Fields[schema][h[1]]

LEMMA FieldIs ==
  ASSUME NEW schema \in Schemas
  PROVE  /\ DOMAIN Fields[schema] = 1..Len(Fields[schema]) /\ Len(Fields[schema]) \in Nat
         /\ \A i \in DOMAIN Fields[schema] : FieldTyped(Fields[schema][i])
<1>1. /\ Fields[schema] \in Seq({Fields[schema][i] : i \in DOMAIN Fields[schema]})
      /\ \A i \in DOMAIN Fields[schema] : FieldTyped(Fields[schema][i])
  BY FieldsAssumption
<1> QED BY <1>1

LEMMA FieldParts ==
  ASSUME NEW schema \in Schemas, NEW i \in DOMAIN Fields[schema]
  PROVE  /\ Fields[schema][i].array \in BOOLEAN /\ Fields[schema][i].capacity \in Nat
         /\ Fields[schema][i].size \in Nat /\ Fields[schema][i].type \in Types
         /\ Fields[schema][i].policy \in {"REQUIRED", "DEFAULT"}
         /\ Fields[schema][i].type = "STRUCT" => Fields[schema][i].child \in Schemas
         /\ i \in Nat /\ i >= 1
<1>1. FieldTyped(Fields[schema][i]) /\ i \in Nat /\ i >= 1
  BY FieldIs
<1> QED BY <1>1 DEF FieldTyped

\* The places that begin with a field.
BeginsWith(f, schema, i, q) ==
  \/ Fields[schema][i].array /\ q = <<i, 0>>
  \/ \E h \in Heads(schema), r \in Paths :
       h[1] = i /\ r \in OfBy(f, Fields[schema][i]) /\ q = h \o r
LEMMA PlacesByIs ==
  ASSUME NEW f, NEW schema \in Schemas, NEW i \in DOMAIN Fields[schema], NEW q
  PROVE  q \in PlacesBy(f, i, Fields[schema][i]) <=> BeginsWith(f, schema, i, q)
<1> USE DEF BeginsWith
<1> DEFINE field == Fields[schema][i]
<1>1. field.array \in BOOLEAN /\ field.capacity \in Nat /\ i \in Nat
  BY FieldParts
<1>2. CASE field.array
  <2>1. q \in PlacesBy(f, i, field) <=>
          q = <<i, 0>> \/ \E k \in 1..field.capacity : q \in Under(<<i, k>>, OfBy(f, field))
    BY <1>2 DEF PlacesBy
  <2>2. ASSUME NEW k \in 1..field.capacity, NEW r \in OfBy(f, field) \cap Paths, q = <<i, k>> \o r
        PROVE  \E h \in Heads(schema), s \in Paths : h[1] = i /\ s \in OfBy(f, field) /\ q = h \o s
    <3>1. <<i, k>> \in Paths /\ Len(<<i, k>>) = 2 /\ <<i, k>>[1] = i /\ <<i, k>>[2] = k
      BY <1>1 DEF Paths
    <3>2. <<i, k>> \in Heads(schema)
      BY <1>2, <3>1 DEF Heads
    <3> QED BY <2>2, <3>1, <3>2
  <2>3. ASSUME NEW h \in Heads(schema), h[1] = i
        PROVE  h[2] \in 1..field.capacity /\ h = <<i, h[2]>>
    <3>1. h \in Seq(Nat) /\ Len(h) = 2 /\ h[2] \in 1..field.capacity
      BY <1>2, <2>3 DEF Heads, Paths
    <3> QED BY <2>3, <3>1
  <2> HIDE DEF field
  <2>4. ASSUME NEW h \in Heads(schema), NEW r \in Paths, h[1] = i, r \in OfBy(f, field), q = h \o r
        PROVE  \E k \in 1..field.capacity : q \in Under(<<i, k>>, OfBy(f, field))
    <3>1. h[2] \in 1..field.capacity /\ q = <<i, h[2]>> \o r
      BY <2>3, <2>4
    <3> QED BY <2>4, <3>1 DEF Under, Paths
  <2>5. \A k \in 1..field.capacity : q \in Under(<<i, k>>, OfBy(f, field)) =>
          \E r \in OfBy(f, field) \cap Paths : q = <<i, k>> \o r
    BY DEF Under, Paths
  <2> QED BY <1>2, <2>1, <2>2, <2>4, <2>5 DEF field
<1>3. CASE ~field.array
  <2>1. q \in PlacesBy(f, i, field) <=> \E r \in OfBy(f, field) \cap Paths : q = <<i>> \o r
    BY <1>3 DEF PlacesBy, Under, Paths
  <2>2. <<i>> \in Heads(schema) /\ <<i>>[1] = i
    <3>1. <<i>> \in Paths /\ Len(<<i>>) = 1 /\ <<i>>[1] = i
      BY <1>1 DEF Paths
    <3> QED BY <1>3, <3>1 DEF Heads
  <2>3. ASSUME NEW h \in Heads(schema), h[1] = i PROVE h = <<i>>
    <3>1. h \in Seq(Nat) /\ Len(h) = 1
      BY <1>3, <2>3 DEF Heads, Paths
    <3> QED BY <2>3, <3>1
  <2> HIDE DEF field
  <2>4. (\E r \in OfBy(f, field) \cap Paths : q = <<i>> \o r) =>
          \E h \in Heads(schema), r \in Paths : h[1] = i /\ r \in OfBy(f, field) /\ q = h \o r
    BY <2>2
  <2>5. (\E h \in Heads(schema), r \in Paths : h[1] = i /\ r \in OfBy(f, field) /\ q = h \o r)
          => \E r \in OfBy(f, field) \cap Paths : q = <<i>> \o r
    BY <2>3
  <2> QED BY <1>3, <2>1, <2>4, <2>5 DEF field
<1> QED BY <1>1, <1>2, <1>3

LEMMA PathsByIs ==
  ASSUME NEW f, NEW schema \in Schemas, NEW q
  PROVE  q \in PathsBy(f, schema) <=>
           \/ \E i \in DOMAIN Fields[schema] : Fields[schema][i].array /\ q = <<i, 0>>
           \/ \E h \in Heads(schema), r \in Paths :
                r \in OfBy(f, HeadField(schema, h)) /\ q = h \o r
<1>1. q \in PathsBy(f, schema) <=>
        \E i \in DOMAIN Fields[schema] : q \in PlacesBy(f, i, Fields[schema][i])
  BY DEF PathsBy
<1>2. \A h \in Heads(schema) : h[1] \in DOMAIN Fields[schema]
  BY DEF Heads
<1>3. ASSUME NEW i \in DOMAIN Fields[schema], q \in PlacesBy(f, i, Fields[schema][i])
      PROVE  \/ \E j \in DOMAIN Fields[schema] : Fields[schema][j].array /\ q = <<j, 0>>
             \/ \E h \in Heads(schema), r \in Paths :
                  r \in OfBy(f, HeadField(schema, h)) /\ q = h \o r
  <2>1. \/ Fields[schema][i].array /\ q = <<i, 0>>
        \/ \E h \in Heads(schema), r \in Paths :
             h[1] = i /\ r \in OfBy(f, Fields[schema][i]) /\ q = h \o r
    <3>1. BeginsWith(f, schema, i, q)
      BY <1>3, PlacesByIs
    <3> QED BY <3>1 DEF BeginsWith
  <2> QED BY <2>1 DEF HeadField
<1>4. ASSUME NEW i \in DOMAIN Fields[schema], Fields[schema][i].array, q = <<i, 0>>
      PROVE  q \in PlacesBy(f, i, Fields[schema][i])
  BY <1>4, PlacesByIs DEF BeginsWith
<1>5. ASSUME NEW h \in Heads(schema), NEW r \in Paths,
             r \in OfBy(f, HeadField(schema, h)), q = h \o r
      PROVE  \E i \in DOMAIN Fields[schema] : q \in PlacesBy(f, i, Fields[schema][i])
  <2>1. h[1] \in DOMAIN Fields[schema]
    BY <1>2
  <2>2. \E g \in Heads(schema), s \in Paths :
          g[1] = h[1] /\ s \in OfBy(f, Fields[schema][h[1]]) /\ q = g \o s
    BY <1>5 DEF HeadField
  <2>3. q \in PlacesBy(f, h[1], Fields[schema][h[1]])
    BY <2>1, <2>2, PlacesByIs DEF BeginsWith
  <2> QED BY <2>1, <2>3
<1> QED BY <1>1, <1>3, <1>4, <1>5

\* The recursive definition of the places has a solution, the least one.
LEMMA CellPathsIs ==
  /\ CellPaths = [schema \in Schemas |-> PathsBy(CellPaths, schema)]
  /\ \A schema \in Schemas : CellPaths[schema] \subseteq Paths
<1> DEFINE T == [Schemas -> SUBSET Paths]
           Pre == {f \in T : \A schema \in Schemas : PathsBy(f, schema) \subseteq f[schema]}
           least == [schema \in Schemas |-> {q \in Paths : \A f \in Pre : q \in f[schema]}]
           once == [schema \in Schemas |-> PathsBy(least, schema)]
<1>1. \A f : \A schema \in Schemas : PathsBy(f, schema) \subseteq Paths
  <2> SUFFICES ASSUME NEW f, NEW schema \in Schemas, NEW q \in PathsBy(f, schema) PROVE q \in Paths
    OBVIOUS
  <2>1. CASE \E i \in DOMAIN Fields[schema] : Fields[schema][i].array /\ q = <<i, 0>>
    BY <2>1, FieldParts DEF Paths
  <2>2. CASE \E h \in Heads(schema), r \in Paths :
                r \in OfBy(f, HeadField(schema, h)) /\ q = h \o r
    <3>1. PICK h \in Paths, r \in Paths : q = h \o r
      BY <2>2 DEF Heads
    <3> QED BY <3>1 DEF Paths
  <2> QED BY <2>1, <2>2, PathsByIs
<1>2. ASSUME NEW f, NEW g, \A schema \in Schemas : f[schema] \subseteq g[schema],
             NEW schema \in Schemas
      PROVE  PathsBy(f, schema) \subseteq PathsBy(g, schema)
  <2>1. ASSUME NEW h \in Heads(schema)
        PROVE  OfBy(f, HeadField(schema, h)) \subseteq OfBy(g, HeadField(schema, h))
    <3>1. HeadField(schema, h).type = "STRUCT" => HeadField(schema, h).child \in Schemas
      BY FieldParts DEF Heads, HeadField
    <3> QED BY <1>2, <3>1 DEF OfBy
  <2> SUFFICES ASSUME NEW q \in PathsBy(f, schema) PROVE q \in PathsBy(g, schema)
    OBVIOUS
  <2>2. CASE \E i \in DOMAIN Fields[schema] : Fields[schema][i].array /\ q = <<i, 0>>
    BY <2>2, PathsByIs
  <2>3. CASE \E h \in Heads(schema), r \in Paths :
                r \in OfBy(f, HeadField(schema, h)) /\ q = h \o r
    <3>1. \E h \in Heads(schema), r \in Paths :
                r \in OfBy(g, HeadField(schema, h)) /\ q = h \o r
      BY <2>1, <2>3
    <3> QED BY <3>1, PathsByIs
  <2> QED BY <2>2, <2>3, PathsByIs
<1>3. least \in T /\ \A f \in Pre : \A schema \in Schemas : least[schema] \subseteq f[schema]
  OBVIOUS
<1>4. once \in T
  BY <1>1
<1> HIDE DEF least
<1>5. \A schema \in Schemas : once[schema] \subseteq least[schema]
  <2> SUFFICES ASSUME NEW schema \in Schemas, NEW q \in PathsBy(least, schema)
               PROVE  q \in least[schema]
    OBVIOUS
  <2>1. \A f \in Pre : PathsBy(least, schema) \subseteq f[schema]
    <3> SUFFICES ASSUME NEW f \in Pre PROVE PathsBy(least, schema) \subseteq f[schema]
      OBVIOUS
    <3>1. \A s \in Schemas : least[s] \subseteq f[s]
      BY <1>3
    <3>2. PathsBy(least, schema) \subseteq PathsBy(f, schema)
      BY <1>2, <3>1
    <3> QED BY <3>2
  <2>2. q \in Paths
    BY <1>1
  <2> HIDE DEF Pre
  <2> QED BY <2>1, <2>2 DEF least
<1>6. once \in Pre
  <2>1. \A schema \in Schemas : PathsBy(once, schema) \subseteq PathsBy(least, schema)
    <3> HIDE DEF once
    <3> QED BY <1>2, <1>5
  <2> QED BY <1>4, <2>1
<1>7. least = once
  <2>1. \A schema \in Schemas : least[schema] \subseteq once[schema]
    <3> HIDE DEF once, Pre
    <3> QED BY <1>3, <1>6
  <2>2. \A schema \in Schemas : least[schema] = once[schema]
    <3> HIDE DEF once, Pre
    <3> QED BY <1>5, <2>1
  <2>3. least = [schema \in Schemas |-> least[schema]] /\ once = [schema \in Schemas |-> once[schema]]
    BY <1>3
  <2> HIDE DEF once
  <2> QED BY <2>2, <2>3
<1>8. least = [schema \in Schemas |-> PathsBy(least, schema)]
  BY <1>7
<1>9. CellPaths = CHOOSE f : f = [schema \in Schemas |-> PathsBy(f, schema)]
  BY DEF CellPaths, PathsBy, PlacesBy, OfBy
<1>10. CellPaths = [schema \in Schemas |-> PathsBy(CellPaths, schema)]
  <2> DEFINE Fixed(f) == f = [schema \in Schemas |-> PathsBy(f, schema)]
  <2>1. \E f : Fixed(f)
    BY <1>8
  <2>2. CellPaths = CHOOSE f : Fixed(f)
    BY <1>9
  <2> HIDE DEF Fixed
  <2>3. Fixed(CellPaths)
    BY <2>1, <2>2
  <2> QED BY <2>3 DEF Fixed
<1>11. \A schema \in Schemas : CellPaths[schema] \subseteq Paths
  BY <1>1, <1>10
<1> QED BY <1>10, <1>11

-----------------------------------------------------------------------------
(* Paths. *)

LEMMA Joined ==
  ASSUME NEW P \in Paths, NEW q \in Paths
  PROVE  /\ P \o q \in Paths /\ Len(P \o q) = Len(P) + Len(q)
         /\ DOMAIN (P \o q) = 1..(Len(P) + Len(q))
         /\ \A k \in 1..Len(P) : (P \o q)[k] = P[k]
         /\ \A k \in 1..Len(q) : (P \o q)[Len(P) + k] = q[k]
BY DEF Paths

LEMMA SamePath ==
  ASSUME NEW p \in Paths, NEW q \in Paths, Len(p) = Len(q), \A k \in 1..Len(p) : p[k] = q[k]
  PROVE  p = q
BY DEF Paths

LEMMA Cancel ==
  ASSUME NEW P \in Paths, NEW q \in Paths, NEW r \in Paths, P \o q = P \o r
  PROVE  q = r
<1>1. Len(q) = Len(r) /\ Len(q) \in Nat
  BY Joined DEF Paths
<1>2. \A k \in 1..Len(q) : q[k] = r[k]
  <2> SUFFICES ASSUME NEW k \in 1..Len(q) PROVE q[k] = r[k]
    OBVIOUS
  <2>1. (P \o q)[Len(P) + k] = q[k] /\ (P \o r)[Len(P) + k] = r[k]
    BY <1>1, Joined
  <2> QED BY <2>1
<1> QED BY <1>1, <1>2, SamePath

LEMMA Regroup ==
  ASSUME NEW P \in Paths, NEW q \in Paths, NEW r \in Paths
  PROVE  (P \o q) \o r = P \o (q \o r)
BY SMTT(40), ConcatAssociative DEF Paths

LEMMA CounterIs ==
  ASSUME NEW p \in Paths, NEW k \in 1..Len(p)
  PROVE  /\ Counter(p, k) \in Paths /\ Len(Counter(p, k)) = k /\ Counter(p, k)[k] = 0
         /\ \A j \in 1..(k - 1) : Counter(p, k)[j] = p[j]
<1>1. Len(p) \in Nat /\ p \in Seq(Nat)
  BY DEF Paths
<1> DEFINE s == SubSeq(p, 1, k - 1)
<1>2. s \in Seq(Nat) /\ Len(s) = k - 1 /\ \A j \in 1..(k - 1) : s[j] = p[j]
  BY <1>1
<1> HIDE DEF s
<1>3. Append(s, 0) \in Seq(Nat) /\ Len(Append(s, 0)) = k /\ Append(s, 0)[k] = 0
      /\ \A j \in 1..(k - 1) : Append(s, 0)[j] = s[j]
  BY <1>2
<1> QED BY <1>2, <1>3 DEF Counter, s, Paths

\* A counter of what is at P is one of P, or one within.
LEMMA CounterWithin ==
  ASSUME NEW P \in Paths, NEW q \in Paths, NEW k \in 1..Len(q)
  PROVE  Counter(P \o q, Len(P) + k) = P \o Counter(q, k)
<1> DEFINE c == Counter(q, k)
           d == Counter(P \o q, Len(P) + k)
<1>1. Len(P) \in Nat /\ Len(q) \in Nat /\ Len(P) + k \in 1..Len(P \o q)
  BY Joined DEF Paths
<1>2. /\ c \in Paths /\ Len(c) = k /\ c[k] = 0 /\ \A j \in 1..(k - 1) : c[j] = q[j]
  BY CounterIs
<1>3. /\ d \in Paths /\ Len(d) = Len(P) + k /\ d[Len(P) + k] = 0
      /\ \A j \in 1..(Len(P) + k - 1) : d[j] = (P \o q)[j]
  <2>1. P \o q \in Paths
    BY Joined
  <2> DEFINE p == P \o q
             n == Len(P) + k
  <2> HIDE DEF p, n
  <2>2. p \in Paths /\ n \in 1..Len(p)
    BY <1>1, <2>1 DEF p, n
  <2>3. /\ Counter(p, n) \in Paths /\ Len(Counter(p, n)) = n /\ Counter(p, n)[n] = 0
        /\ \A j \in 1..(n - 1) : Counter(p, n)[j] = p[j]
    BY <2>2, CounterIs
  <2> QED BY <2>3 DEF p, n
<1> HIDE DEF c, d
<1>4. P \o c \in Paths /\ Len(P \o c) = Len(P) + k
  BY <1>2, Joined
<1>5. \A j \in 1..(Len(P) + k) : d[j] = (P \o c)[j]
  <2> SUFFICES ASSUME NEW j \in 1..(Len(P) + k) PROVE d[j] = (P \o c)[j]
    OBVIOUS
  <2>1. CASE j \in 1..Len(P)
    <3>1. j \in 1..(Len(P) + k - 1)
      BY <1>1, <2>1
    <3>2. d[j] = (P \o q)[j]
      BY <1>3, <3>1
    <3>3. (P \o q)[j] = P[j] /\ (P \o c)[j] = P[j]
      BY <1>2, <2>1, Joined
    <3> QED BY <3>2, <3>3
  <2>2. CASE j \notin 1..Len(P)
    <3>1. PICK i \in 1..k : j = Len(P) + i
      <4>1. j - Len(P) \in 1..k /\ j = Len(P) + (j - Len(P))
        BY <1>1, <2>2
      <4> QED BY <4>1
    <3>2. (P \o c)[j] = c[i]
      BY <1>2, <3>1, Joined
    <3>3. CASE i = k
      BY <1>2, <1>3, <3>1, <3>2, <3>3
    <3>4. CASE i # k
      <4>1. i \in 1..(k - 1) /\ i \in 1..Len(q) /\ j \in 1..(Len(P) + k - 1)
        BY <1>1, <3>1, <3>4
      <4>2. d[j] = (P \o q)[j] /\ (P \o q)[j] = q[i] /\ c[i] = q[i]
        BY <1>2, <1>3, <3>1, <4>1, Joined
      <4> QED BY <3>2, <4>2
    <3> QED BY <3>3, <3>4
  <2> QED BY <2>1, <2>2
<1>6. d = P \o c
  BY <1>3, <1>4, <1>5, SamePath
<1> QED BY <1>6 DEF c, d

LEMMA ItemPathIs ==
  ASSUME NEW P \in Paths, NEW n \in Nat, NEW k \in Nat
  PROVE  /\ ItemPath(P \o <<n>>, k) = P \o <<k>> /\ P \o <<k>> \in Paths
<1>1. P \o <<n>> = Append(P, n) /\ P \o <<k>> = Append(P, k) /\ P \in Seq(Nat)
  BY DEF Paths
<1>2. Front(Append(P, n)) = P
  <2>1. SubSeq(Append(P, n), 1, Len(P)) = P
    BY <1>1
  <2>2. Len(Append(P, n)) - 1 = Len(P)
    BY <1>1
  <2> QED BY <2>1, <2>2 DEF Front
<1>3. Append(P, k) \in Seq(Nat)
  BY <1>1
<1>4. ItemPath(P \o <<n>>, k) = Append(Front(Append(P, n)), k)
  BY <1>1 DEF ItemPath
<1> QED BY <1>1, <1>2, <1>3, <1>4 DEF Paths

LEMMA Split ==
  ASSUME NEW p \in Paths, p # << >>
  PROVE  \E q \in Paths, n \in Nat : p = q \o <<n>>
<1>1. p \in Seq(Nat) /\ Len(p) \in Nat /\ Len(p) >= 1
  BY DEF Paths
<1> DEFINE q == SubSeq(p, 1, Len(p) - 1)
<1>2. q \in Seq(Nat) /\ p[Len(p)] \in Nat
  BY <1>1
<1>3. p = Append(q, p[Len(p)])
  BY <1>1
<1> HIDE DEF q
<1>4. PICK n \in Nat : n = p[Len(p)]
  BY <1>2
<1>5. Append(q, n) = q \o <<n>>
  BY <1>2
<1> QED BY <1>2, <1>3, <1>4, <1>5 DEF Paths

LEMMA ItemPathWithin ==
  ASSUME NEW P \in Paths, NEW q \in Paths, q # << >>, NEW k \in Nat
  PROVE  ItemPath(P \o q, k) = P \o ItemPath(q, k)
<1>1. PICK r \in Paths, n \in Nat : q = r \o <<n>>
  BY Split
<1>2. <<n>> \in Paths /\ <<k>> \in Paths
  BY DEF Paths
<1>3. P \o q = (P \o r) \o <<n>> /\ P \o r \in Paths
  <2>1. (P \o r) \o <<n>> = P \o (r \o <<n>>)
    BY SMTT(40), <1>2, Regroup
  <2> QED BY <1>1, <2>1, Joined
<1>4. ItemPath(P \o q, k) = (P \o r) \o <<k>>
  <2>1. ItemPath((P \o r) \o <<n>>, k) = (P \o r) \o <<k>>
    BY <1>3, ItemPathIs
  <2> QED BY <1>3, <2>1
<1>5. ItemPath(q, k) = r \o <<k>>
  BY <1>1, ItemPathIs
<1>6. (P \o r) \o <<k>> = P \o (r \o <<k>>)
  BY SMTT(40), <1>2, Regroup
<1> QED BY <1>4, <1>5, <1>6

-----------------------------------------------------------------------------
LEMMA HeadIs ==
  ASSUME NEW schema \in Schemas, NEW h \in Heads(schema)
  PROVE  /\ h \in Paths /\ Len(h) \in {1, 2} /\ h[1] \in DOMAIN Fields[schema]
         /\ HeadField(schema, h) = Fields[schema][h[1]]
         /\ HeadField(schema, h).array <=> Len(h) = 2
         /\ Len(h) = 2 => h[2] \in 1..HeadField(schema, h).capacity
         /\ h = IF HeadField(schema, h).array THEN <<h[1], h[2]>> ELSE <<h[1]>>
         /\ h[1] \in Nat /\ (Len(h) = 2 => h[2] \in Nat)
<1>1. /\ h \in Paths /\ Len(h) \in {1, 2} /\ h[1] \in DOMAIN Fields[schema]
      /\ HeadField(schema, h).array <=> Len(h) = 2
      /\ Len(h) = 2 => h[2] \in 1..HeadField(schema, h).capacity
  BY DEF Heads, HeadField
<1>2. h = IF Len(h) = 2 THEN <<h[1], h[2]>> ELSE <<h[1]>>
  BY <1>1 DEF Paths
<1>3. h[1] \in Nat /\ (Len(h) = 2 => h[2] \in Nat)
  BY <1>1 DEF Paths
<1> QED BY <1>1, <1>2, <1>3 DEF HeadField

LEMMA HeadsCancel ==
  ASSUME NEW schema \in Schemas, NEW h, NEW g, h \in Heads(schema), g \in Heads(schema),
         NEW r \in Paths, NEW t \in Paths, h \o r = g \o t
  PROVE  h = g /\ r = t
<1>1. h \in Paths /\ g \in Paths /\ Len(h) \in {1, 2} /\ Len(g) \in {1, 2}
  BY HeadIs
<1>2. /\ \A k \in 1..Len(h) : (h \o r)[k] = h[k]
      /\ \A k \in 1..Len(g) : (g \o t)[k] = g[k]
  BY <1>1, Joined
<1>3. h[1] = g[1]
  BY <1>1, <1>2
<1>4. HeadField(schema, h) = HeadField(schema, g)
  BY <1>3, HeadIs
<1>5. Len(h) = Len(g)
  BY <1>1, <1>4, HeadIs
<1>6. h = g
  BY <1>1, <1>2, <1>5, SamePath
<1> QED BY <1>1, <1>6, Cancel

LEMMA CellsIs ==
  ASSUME NEW schema \in Schemas, NEW q
  PROVE  q \in CellPaths[schema] <=>
           \/ \E i \in DOMAIN Fields[schema] : Fields[schema][i].array /\ q = <<i, 0>>
           \/ \E h \in Heads(schema), r \in Paths :
                r \in Of(HeadField(schema, h)) /\ q = h \o r
<1> DEFINE f == CellPaths
<1>1. f[schema] = PathsBy(f, schema)
  <2>1. f = [s \in Schemas |-> PathsBy(f, s)]
    BY CellPathsIs
  <2> HIDE DEF f
  <2> QED BY <2>1
<1> QED BY <1>1, PathsByIs DEF Of

LEMMA CountCell ==
  ASSUME NEW schema \in Schemas, NEW i \in DOMAIN Fields[schema], Fields[schema][i].array
  PROVE  <<i, 0>> \in CellPaths[schema]
BY CellsIs

\* The places in what a head holds.
LEMMA HeadCells ==
  ASSUME NEW schema \in Schemas, NEW h \in Heads(schema), NEW r \in Paths
  PROVE  h \o r \in CellPaths[schema] <=> r \in Of(HeadField(schema, h))
<1>1. ASSUME r \in Of(HeadField(schema, h)) PROVE h \o r \in CellPaths[schema]
  BY <1>1, CellsIs
<1>2. ASSUME h \o r \in CellPaths[schema] PROVE r \in Of(HeadField(schema, h))
  <2>1. ASSUME NEW i \in DOMAIN Fields[schema], Fields[schema][i].array, h \o r = <<i, 0>>
        PROVE  FALSE
    <3>1. /\ h \in Paths /\ Len(h) \in {1, 2} /\ HeadField(schema, h) = Fields[schema][h[1]]
          /\ HeadField(schema, h).array <=> Len(h) = 2
          /\ Len(h) = 2 => h[2] \in 1..HeadField(schema, h).capacity
      BY HeadIs
    <3>2. \A k \in 1..Len(h) : <<i, 0>>[k] = h[k]
      <4>1. \A k \in 1..Len(h) : (h \o r)[k] = h[k]
        BY <3>1, Joined
      <4> QED BY <2>1, <4>1
    <3>3. h[1] = i
      BY <3>1, <3>2
    <3>4. Len(h) = 2
      BY <2>1, <3>1, <3>3
    <3>5. h[2] = 0
      BY <3>2, <3>4
    <3>6. h[2] \in 1..HeadField(schema, h).capacity
      BY <3>1, <3>4
    <3> QED BY <3>5, <3>6
  <2>2. PICK g \in Heads(schema), t \in Paths : t \in Of(HeadField(schema, g)) /\ h \o r = g \o t
    BY <1>2, <2>1, CellsIs
  <2>3. h = g /\ r = t
    <3>1. g \in Heads(schema) /\ t \in Paths /\ h \o r = g \o t
      BY <2>2
    <3>2. h = g
      BY <3>1, HeadsCancel
    <3>3. r = t
      <4>1. h \in Paths /\ h \o r = h \o t
        BY <3>1, <3>2, HeadIs
      <4> QED BY <3>1, <4>1, Cancel
    <3> QED BY <3>2, <3>3
  <2> QED BY <2>2, <2>3
<1> QED BY <1>1, <1>2

\* A place is a count, or is in what a head holds.
LEMMA CellCases ==
  ASSUME NEW schema \in Schemas, NEW q \in CellPaths[schema]
  PROVE  /\ q \in Paths /\ Len(q) >= 1 /\ q[1] \in DOMAIN Fields[schema]
         /\ \/ Fields[schema][q[1]].array /\ q = <<q[1], 0>>
            \/ \E h \in Heads(schema), r \in Paths :
                 h[1] = q[1] /\ r \in Of(HeadField(schema, h)) /\ q = h \o r
<1>1. CASE \E i \in DOMAIN Fields[schema] : Fields[schema][i].array /\ q = <<i, 0>>
  <2>1. PICK i \in DOMAIN Fields[schema] : Fields[schema][i].array /\ q = <<i, 0>>
    BY <1>1
  <2>2. i \in Nat
    BY FieldParts
  <2> QED BY <2>1, <2>2 DEF Paths
<1>2. CASE \E h \in Heads(schema), r \in Paths : r \in Of(HeadField(schema, h)) /\ q = h \o r
  <2>1. PICK h \in Heads(schema), r \in Paths : r \in Of(HeadField(schema, h)) /\ q = h \o r
    BY <1>2
  <2>2. h \in Paths /\ Len(h) \in {1, 2} /\ h[1] \in DOMAIN Fields[schema]
    BY HeadIs
  <2>3. q \in Paths /\ Len(q) = Len(h) + Len(r) /\ q[1] = h[1] /\ Len(r) \in Nat
    BY <2>1, <2>2, Joined DEF Paths
  <2>4. q \in Paths /\ Len(q) >= 1 /\ q[1] \in DOMAIN Fields[schema]
    BY <2>2, <2>3
  <2>5. \E h1 \in Heads(schema), r1 \in Paths :
          h1[1] = q[1] /\ r1 \in Of(HeadField(schema, h1)) /\ q = h1 \o r1
    BY <2>1, <2>3, Zenon
  <2> QED BY <2>4, <2>5
<1>3. \/ \E i \in DOMAIN Fields[schema] : Fields[schema][i].array /\ q = <<i, 0>>
      \/ \E h \in Heads(schema), r \in Paths :
           r \in Of(HeadField(schema, h)) /\ q = h \o r
  BY CellsIs
<1> QED BY <1>1, <1>2, <1>3

-----------------------------------------------------------------------------
(* FieldAt: the field of a place. *)

FieldOfBy(f, at) ==
  LET field == Fields[at[1]][at[2][1]]
      rest  == IF field.array THEN Tail(Tail(at[2])) ELSE Tail(at[2])
  IN  IF field.type = "STRUCT" /\ rest # << >> THEN f[<<field.child, rest>>] ELSE field

\* What is behind the first head of a path.
RestOf(field, q) == IF field.array THEN Tail(Tail(q)) ELSE Tail(q)

LEMMA TailOfHead ==
  ASSUME NEW schema \in Schemas, NEW h \in Heads(schema), NEW r \in Paths
  PROVE  /\ RestOf(HeadField(schema, h), h \o r) = r
         /\ (h \o r)[1] = h[1]
         /\ HeadField(schema, h).array => (h \o r)[2] = h[2] /\ h[2] # 0
<1>1. /\ h \in Paths /\ Len(h) \in {1, 2} /\ HeadField(schema, h).array <=> Len(h) = 2
      /\ h = IF HeadField(schema, h).array THEN <<h[1], h[2]>> ELSE <<h[1]>>
  BY HeadIs
<1>2. h[1] \in Nat /\ (Len(h) = 2 => h[2] \in Nat)
  BY HeadIs
<1>3. CASE HeadField(schema, h).array
  <2>1. h = <<h[1], h[2]>> /\ h[2] \in Nat
    BY <1>1, <1>2, <1>3
  <2>2. r \in Seq(Nat)
    BY DEF Paths
  <2>3. h[2] # 0
    <3>1. h[2] \in 1..HeadField(schema, h).capacity
      BY <1>1, <1>3, HeadIs
    <3> QED BY <3>1
  <2>4. \A a, b \in Nat : /\ Tail(Tail(<<a, b>> \o r)) = r
                          /\ (<<a, b>> \o r)[1] = a /\ (<<a, b>> \o r)[2] = b
    BY SMTT(40), <2>2
  <2> DEFINE a == h[1]
             b == h[2]
  <2> HIDE DEF a, b
  <2>5. h = <<a, b>> /\ a \in Nat /\ b \in Nat
    BY <1>2, <2>1 DEF a, b
  <2>6. Tail(Tail(h \o r)) = r /\ (h \o r)[1] = a /\ (h \o r)[2] = b
    BY <2>4, <2>5
  <2> QED BY <1>3, <2>3, <2>6 DEF RestOf, a, b
<1>4. CASE ~HeadField(schema, h).array
  <2>1. h = <<h[1]>>
    BY <1>1, <1>4
  <2>2. r \in Seq(Nat)
    BY DEF Paths
  <2>3. \A a \in Nat : Tail(<<a>> \o r) = r /\ (<<a>> \o r)[1] = a
    BY <2>2
  <2> DEFINE a == h[1]
  <2> HIDE DEF a
  <2>4. h = <<a>> /\ a \in Nat
    BY <1>2, <2>1 DEF a
  <2>5. Tail(h \o r) = r /\ (h \o r)[1] = a
    BY <2>3, <2>4
  <2> QED BY <1>4, <2>5 DEF RestOf, a
<1> QED BY <1>3, <1>4

\* The parts of a place that is not a count.
LEMMA RestCells ==
  ASSUME NEW schema \in Schemas, NEW q \in CellPaths[schema]
  PROVE  LET field == Fields[schema][q[1]]
         IN  /\ q[1] \in DOMAIN Fields[schema] /\ q \in Paths
             /\ RestOf(field, q) = << >> \/ Len(RestOf(field, q)) < Len(q)
             /\ RestOf(field, q) # << >> /\ field.type = "STRUCT" =>
                  field.child \in Schemas /\ RestOf(field, q) \in CellPaths[field.child]
             /\ field.array => q[2] \in Nat
<1> DEFINE field == Fields[schema][q[1]]
<1>1. q[1] \in DOMAIN Fields[schema] /\ q \in Paths
  BY CellCases
<1>2. CASE field.array /\ q = <<q[1], 0>>
  <2>1. \A a : Tail(Tail(<<a, 0>>)) = << >> /\ <<a, 0>>[2] = 0
    OBVIOUS
  <2>2. Tail(Tail(q)) = << >> /\ q[2] = 0
    BY <1>2, <2>1
  <2>3. RestOf(field, q) = << >>
    BY <1>2, <2>2 DEF RestOf
  <2> QED BY <1>1, <2>2, <2>3
<1>3. CASE \E h \in Heads(schema), r \in Paths :
             h[1] = q[1] /\ r \in Of(HeadField(schema, h)) /\ q = h \o r
  <2>1. PICK h \in Heads(schema), r \in Paths :
             h[1] = q[1] /\ r \in Of(HeadField(schema, h)) /\ q = h \o r
    BY <1>3
  <2>2. HeadField(schema, h) = field /\ h \in Paths /\ Len(h) \in {1, 2}
    BY <2>1, HeadIs
  <2>3. RestOf(field, q) = r
    BY <2>1, <2>2, TailOfHead
  <2>4. Len(q) = Len(h) + Len(r) /\ Len(r) \in Nat
    BY <2>1, <2>2, Joined DEF Paths
  <2>5. field.type = "STRUCT" => field.child \in Schemas /\ r \in CellPaths[field.child]
    BY <1>1, <2>1, <2>2, FieldParts DEF Of, OfBy
  <2>6. field.array => q[2] \in Nat
    <3>1. field.array => q[2] = h[2] /\ Len(h) = 2
      BY <2>1, <2>2, TailOfHead, HeadIs
    <3>2. Len(h) = 2 => h[2] \in Nat
      BY HeadIs
    <3> QED BY <3>1, <3>2
  <2>7. Len(r) < Len(q)
    <3>1. Len(h) \in {1, 2} /\ Len(q) = Len(h) + Len(r) /\ Len(r) \in Nat
      BY <2>2, <2>4
    <3> QED BY ONLY <3>1
  <2> HIDE DEF field
  <2>8. /\ RestOf(field, q) = << >> \/ Len(RestOf(field, q)) < Len(q)
        /\ RestOf(field, q) # << >> /\ field.type = "STRUCT" =>
             field.child \in Schemas /\ RestOf(field, q) \in CellPaths[field.child]
    BY <2>3, <2>5, <2>7
  <2> QED BY <1>1, <2>6, <2>8 DEF field
<1> QED BY <1>2, <1>3, CellCases

LEMMA FieldAtStep ==
  ASSUME NEW at \in PlacesAt PROVE FieldAt[at] = FieldOfBy(FieldAt, at)
<1> DEFINE S == PlacesAt
           T == {0} \cup UNION {{Fields[s][i] : i \in DOMAIN Fields[s]} : s \in Schemas}
           m == [r \in S |-> Len(r[2])]
           F == [f \in [S -> T] |-> [r \in S |-> FieldOfBy(f, r)]]
<1>1. FieldAt = CHOOSE f : f = [r \in S |-> FieldOfBy(f, r)]
  BY DEF FieldAt, FieldOfBy
<1>2. ASSUME NEW r \in S
      PROVE  /\ r[1] \in Schemas /\ r[2] \in CellPaths[r[1]] /\ r[2] \in Paths
             /\ r[2][1] \in DOMAIN Fields[r[1]] /\ Len(r[2]) \in Nat
  <2>1. r[1] \in Schemas /\ r[2] \in CellPaths[r[1]]
    BY DEF PlacesAt
  <2>2. r[2] \in Paths /\ r[2][1] \in DOMAIN Fields[r[1]]
    BY <2>1, CellCases
  <2> QED BY <2>1, <2>2 DEF Paths
<1>3. ASSUME NEW r \in S
      PROVE  LET field == Fields[r[1]][r[2][1]]
                 rest == RestOf(field, r[2])
             IN  field.type = "STRUCT" /\ rest # << >> =>
                   <<field.child, rest>> \in S /\ m[<<field.child, rest>>] < m[r]
  <2> DEFINE field == Fields[r[1]][r[2][1]]
             rest == RestOf(field, r[2])
             t == <<field.child, rest>>
  <2> SUFFICES ASSUME field.type = "STRUCT", rest # << >> PROVE t \in S /\ m[t] < m[r]
    OBVIOUS
  <2>1. field.child \in Schemas /\ rest \in CellPaths[field.child] /\ Len(rest) < Len(r[2])
    BY <1>2, RestCells
  <2>2. rest \in Seq(Nat)
    BY <2>1, CellCases DEF Paths
  <2> HIDE DEF field, rest
  <2>3. t \in S /\ t[2] = rest
    BY <2>1, <2>2 DEF PlacesAt
  <2> QED BY <2>1, <2>3
<1>4. ASSUME NEW f, NEW r \in S
      PROVE  FieldOfBy(f, r) = LET field == Fields[r[1]][r[2][1]]
                                   rest == RestOf(field, r[2])
                               IN  IF field.type = "STRUCT" /\ rest # << >>
                                   THEN f[<<field.child, rest>>] ELSE field
  BY DEF FieldOfBy, RestOf
<1>5. ASSUME NEW f \in [S -> T], NEW r \in S PROVE FieldOfBy(f, r) \in T
  <2> DEFINE field == Fields[r[1]][r[2][1]]
             rest == RestOf(field, r[2])
  <2>1. field \in T
    BY <1>2
  <2>2. field.type = "STRUCT" /\ rest # << >> => <<field.child, rest>> \in S
    BY <1>3
  <2> HIDE DEF field, rest, T, S
  <2>3. field.type = "STRUCT" /\ rest # << >> => f[<<field.child, rest>>] \in T
    BY <2>2
  <2>4. FieldOfBy(f, r) = IF field.type = "STRUCT" /\ rest # << >>
                          THEN f[<<field.child, rest>>] ELSE field
    BY <1>4 DEF field, rest, S
  <2> QED BY <2>1, <2>3, <2>4
<1>6. ASSUME NEW f \in [S -> T], NEW g \in [S -> T], NEW r \in S,
             \A q \in S : m[q] < m[r] => f[q] = g[q]
      PROVE  FieldOfBy(f, r) = FieldOfBy(g, r)
  <2> DEFINE field == Fields[r[1]][r[2][1]]
             rest == RestOf(field, r[2])
             t == <<field.child, rest>>
  <2>1. field.type = "STRUCT" /\ rest # << >> => t \in S /\ m[t] < m[r]
    BY <1>3
  <2>2. field.type = "STRUCT" /\ rest # << >> => f[t] = g[t]
    <3> HIDE DEF field, rest, t, m, S
    <3> QED BY <1>6, <2>1
  <2>3. \A e \in {f, g} : FieldOfBy(e, r) = IF field.type = "STRUCT" /\ rest # << >>
                                          THEN e[t] ELSE field
    BY <1>4
  <2> HIDE DEF field, rest, t, m, S
  <2> QED BY <2>2, <2>3
<1>7. m \in [S -> Nat] /\ T # {}
  BY <1>2
<1>8. Recursive(S, T, m, F)
  <2>1. F \in [[S -> T] -> [S -> T]]
    BY <1>5
  <2>2. Descends(S, T, m, F)
    <3> SUFFICES ASSUME NEW f \in [S -> T], NEW g \in [S -> T], NEW r \in S,
                        \A q \in S : m[q] < m[r] => f[q] = g[q]
                 PROVE  F[f][r] = F[g][r]
      BY DEF Descends
    <3>1. FieldOfBy(f, r) = FieldOfBy(g, r)
      BY <1>6
    <3> QED BY <3>1
  <2> HIDE DEF S, T, m, F
  <2> QED BY <1>7, <2>1, <2>2 DEF Recursive
<1>9. PICK f : Solution(S, T, F, f)
  <2> HIDE DEF S, T, m, F
  <2> QED BY <1>8, Recursion
<1>10. f = [r \in S |-> FieldOfBy(f, r)]
  <2>1. f \in [S -> T] /\ \A r \in S : f[r] = F[f][r]
    <3> HIDE DEF S, T, F
    <3> QED BY <1>9 DEF Solution
  <2>2. \A r \in S : F[f][r] = FieldOfBy(f, r)
    BY <2>1
  <2> HIDE DEF F, T, S
  <2> QED BY <2>1, <2>2
<1>11. FieldAt = [r \in S |-> FieldOfBy(FieldAt, r)]
  <2> DEFINE Fixed(g) == g = [r \in S |-> FieldOfBy(g, r)]
  <2>1. Fixed(f)
    BY <1>10
  <2>2. FieldAt = CHOOSE g : Fixed(g)
    BY <1>1
  <2> HIDE DEF Fixed
  <2>3. Fixed(FieldAt)
    BY <2>1, <2>2
  <2> QED BY <2>3 DEF Fixed
<1> DEFINE v == FieldAt
<1>12. v = [r \in S |-> FieldOfBy(v, r)]
  BY <1>11
<1> HIDE DEF v, S
<1>13. v[at] = FieldOfBy(v, at)
  BY <1>12 DEF S
<1> QED BY <1>13 DEF v

\* The field of a count.
LEMMA CountField ==
  ASSUME NEW schema \in Schemas, NEW i \in DOMAIN Fields[schema], Fields[schema][i].array
  PROVE  FieldAt[<<schema, <<i, 0>>>>] = Fields[schema][i]
<1> DEFINE at == <<schema, <<i, 0>>>>
<1>1. <<i, 0>> \in CellPaths[schema] /\ <<i, 0>> \in Seq(Nat)
  BY CountCell, FieldParts
<1>2. at \in PlacesAt
  BY <1>1 DEF PlacesAt
<1>3. FieldAt[at] = FieldOfBy(FieldAt, at)
  BY <1>2, FieldAtStep
<1>4. Tail(Tail(<<i, 0>>)) = << >> /\ at[1] = schema /\ at[2] = <<i, 0>> /\ <<i, 0>>[1] = i
  OBVIOUS
<1> HIDE DEF at
<1>5. FieldOfBy(FieldAt, at) = Fields[schema][i]
  BY <1>4 DEF FieldOfBy
<1> QED BY <1>3, <1>5 DEF at

\* The field of what a head holds.
LEMMA HeadFieldAt ==
  ASSUME NEW schema \in Schemas, NEW h \in Heads(schema), NEW r \in Paths,
         r \in Of(HeadField(schema, h))
  PROVE  FieldAt[<<schema, h \o r>>] =
           IF HeadField(schema, h).type = "STRUCT"
           THEN FieldAt[<<HeadField(schema, h).child, r>>] ELSE HeadField(schema, h)
<1> DEFINE field == HeadField(schema, h)
           q == h \o r
           at == <<schema, q>>
<1>1. q \in CellPaths[schema] /\ q \in Seq(Nat)
  BY HeadCells, HeadIs, Joined DEF Paths
<1>2. at \in PlacesAt
  BY <1>1 DEF PlacesAt
<1>3. FieldAt[at] = FieldOfBy(FieldAt, at)
  BY <1>2, FieldAtStep
<1>4. at[1] = schema /\ at[2] = q /\ RestOf(field, q) = r /\ Fields[schema][q[1]] = field
  BY TailOfHead, HeadIs
<1>5. field.type = "STRUCT" => r # << >>
  <2> SUFFICES ASSUME field.type = "STRUCT" PROVE r # << >>
    OBVIOUS
  <2>1. field.child \in Schemas /\ r \in CellPaths[field.child]
    BY HeadIs, FieldParts DEF Of, OfBy
  <2>2. Len(r) >= 1
    BY <2>1, CellCases
  <2> QED BY <2>2
<1> HIDE DEF at, q, field
<1>6. FieldOfBy(FieldAt, at) = IF field.type = "STRUCT" /\ r # << >>
                               THEN FieldAt[<<field.child, r>>] ELSE field
  BY <1>4 DEF FieldOfBy, RestOf
<1> QED BY <1>3, <1>5, <1>6 DEF at, q, field

-----------------------------------------------------------------------------
(* CellOf: what a struct has at a place. *)

Held(object, field, q) ==
  LET v == Objects[object][q[1]]
  IN  IF ~field.array THEN v ELSE IF q[2] = 0 THEN v.count ELSE v.items[q[2]]
\* Whether a place is one of a struct within.
IsWithin(field, q) == field.type = "STRUCT" /\ ~(field.array /\ q[2] = 0)
CellBy(f, at) ==
  LET field == Fields[at[1]][at[3][1]]
  IN  IF IsWithin(field, at[3])
      THEN f[<<field.child, Held(at[2], field, at[3]), RestOf(field, at[3])>>]
      ELSE Held(at[2], field, at[3])

LEMMA HeldIs ==
  ASSUME NEW schema \in Schemas, NEW object, object \in Instances[schema],
         NEW h, h \in Heads(schema), NEW r \in Paths
  PROVE  /\ ElementTyped(HeadField(schema, h), Held(object, HeadField(schema, h), h \o r))
         /\ IsWithin(HeadField(schema, h), h \o r) <=> HeadField(schema, h).type = "STRUCT"
<1> DEFINE field == HeadField(schema, h)
           v == Objects[object][h[1]]
           q == h \o r
<1>1. /\ h[1] \in DOMAIN Fields[schema] /\ field = Fields[schema][h[1]]
      /\ field.array <=> Len(h) = 2
      /\ Len(h) = 2 => h[2] \in 1..field.capacity
  BY HeadIs
<1>2. q[1] = h[1] /\ (field.array => q[2] = h[2] /\ h[2] # 0)
  BY TailOfHead
<1>3. ValueTyped(field, v)
  BY <1>1, ObjectsAssumption
<1> HIDE DEF field, v, q
<1>4. CASE field.array
  <2>1. Held(object, field, q) = v.items[h[2]]
    BY <1>2, <1>4 DEF Held, v
  <2>2. ElementTyped(field, v.items[h[2]])
    BY <1>1, <1>3, <1>4 DEF ValueTyped
  <2> QED BY <1>2, <1>4, <2>1, <2>2 DEF field, q, IsWithin
<1>5. CASE ~field.array
  <2>1. Held(object, field, q) = v
    BY <1>2, <1>5 DEF Held, v
  <2>2. ElementTyped(field, v)
    BY <1>3, <1>5 DEF ValueTyped
  <2> QED BY <1>5, <2>1, <2>2 DEF field, q, IsWithin
<1> QED BY <1>4, <1>5

\* A struct within.
LEMMA WithinIs ==
  ASSUME NEW at \in CellsAt, IsWithin(Fields[at[1]][at[3][1]], at[3])
  PROVE  LET field == Fields[at[1]][at[3][1]]
             rest == RestOf(field, at[3])
         IN  /\ <<field.child, Held(at[2], field, at[3]), rest>> \in CellsAt
             /\ Len(rest) < Len(at[3])
<1> DEFINE q == at[3]
           field == Fields[at[1]][q[1]]
           rest == RestOf(field, q)
           e == Held(at[2], field, q)
<1>1. at[1] \in Schemas /\ at[2] \in Instances[at[1]] /\ q \in CellPaths[at[1]]
  BY DEF CellsAt
<1>2. PICK h \in Heads(at[1]), r \in Paths :
        h[1] = q[1] /\ r \in Of(HeadField(at[1], h)) /\ q = h \o r
  <2>1. CASE field.array /\ q = <<q[1], 0>>
    <3>1. q[2] = 0
      <4>1. \A a : <<a, 0>>[2] = 0
        OBVIOUS
      <4> QED BY <2>1, <4>1
    <3> QED BY <2>1, <3>1 DEF IsWithin
  <2> QED BY <1>1, <2>1, CellCases
<1>3. HeadField(at[1], h) = field
  BY <1>1, <1>2, HeadIs
<1>4. field.type = "STRUCT"
  BY DEF IsWithin
<1>5. rest = r
  BY <1>1, <1>2, <1>3, TailOfHead
<1>6. ElementTyped(field, e)
  <2>1. ElementTyped(HeadField(at[1], h), Held(at[2], HeadField(at[1], h), h \o r))
    BY <1>1, <1>2, HeldIs
  <2> QED BY <1>2, <1>3, <2>1
<1>7. field.child \in Schemas
  BY <1>1, <1>2, <1>3, <1>4, HeadIs, FieldParts
<1>8. r \in CellPaths[field.child]
  BY <1>2, <1>3, <1>4 DEF Of, OfBy
<1>9. Len(rest) < Len(q)
  <2>1. h \in Paths /\ Len(h) \in {1, 2}
    BY <1>1, <1>2, HeadIs
  <2>2. Len(q) = Len(h) + Len(r) /\ Len(r) \in Nat
    BY <1>2, <2>1, Joined DEF Paths
  <2>3. Len(r) < Len(q)
    BY ONLY <2>1, <2>2
  <2> QED BY <1>5, <2>3
<1> HIDE DEF field, e, q, rest
<1>10. e \in Instances[field.child]
  BY <1>4, <1>6, Zenon DEF ElementTyped, StringTypes, IntegerTypes
<1>11. e \in Structs
  BY <1>7, <1>10, ObjectsAssumption
<1>12. rest \in Seq(Nat)
  BY <1>2, <1>5 DEF Paths
<1>13. <<field.child, e, rest>> \in CellsAt
  BY <1>5, <1>7, <1>8, <1>10, <1>11, <1>12 DEF CellsAt
<1> QED BY <1>9, <1>13 DEF field, e, q, rest

LEMMA CellOfStep ==
  ASSUME NEW at \in CellsAt PROVE CellOf[at] = CellBy(CellOf, at)
<1> DEFINE S == CellsAt
           T == {0} \cup {Held(r[2], Fields[r[1]][r[3][1]], r[3]) : r \in S}
           m == [r \in S |-> Len(r[3])]
           F == [f \in [S -> T] |-> [r \in S |-> CellBy(f, r)]]
           FieldHere(r) == Fields[r[1]][r[3][1]]
           Inner(r) == <<FieldHere(r).child, Held(r[2], FieldHere(r), r[3]),
                         RestOf(FieldHere(r), r[3])>>
<1>0. \A f, r : CellBy(f, r) = IF IsWithin(FieldHere(r), r[3]) THEN f[Inner(r)]
                               ELSE Held(r[2], FieldHere(r), r[3])
  BY DEF CellBy
<1>1. CellOf = CHOOSE f : f = [r \in S |-> CellBy(f, r)]
  <2> DEFINE body(f, r) ==
        LET path  == r[3]
            field == Fields[r[1]][path[1]]
            v     == Objects[r[2]][path[1]]
            In(element, rest) ==
              IF field.type = "STRUCT" THEN f[<<field.child, element, rest>>] ELSE element
        IN  IF ~field.array THEN In(v, Tail(path))
            ELSE IF path[2] = 0 THEN v.count
            ELSE In(v.items[path[2]], Tail(Tail(path)))
  <2>1. CellOf = CHOOSE f : f = [r \in S |-> body(f, r)]
    BY DEF CellOf
  <2>2. \A f, r : body(f, r) = CellBy(f, r)
    BY DEF CellBy, Held, IsWithin, RestOf
  <2> HIDE DEF body, S
  <2>3. \A f : [r \in S |-> body(f, r)] = [r \in S |-> CellBy(f, r)]
    BY <2>2
  <2> DEFINE P(f) == f = [r \in S |-> body(f, r)]
             Q(f) == f = [r \in S |-> CellBy(f, r)]
  <2>4. \A f : P(f) <=> Q(f)
    BY <2>3
  <2>5. CellOf = CHOOSE f : P(f)
    BY <2>1
  <2> HIDE DEF P, Q
  <2>6. CellOf = CHOOSE f : Q(f)
    BY <2>4, <2>5
  <2> QED BY <2>6 DEF Q
<1>2. ASSUME NEW r \in S PROVE Len(r[3]) \in Nat
  <2>1. r[3] \in Seq(Nat)
    BY DEF CellsAt
  <2> QED BY <2>1
<1>3. ASSUME NEW r \in S, IsWithin(FieldHere(r), r[3])
      PROVE  Inner(r) \in S /\ m[Inner(r)] < m[r]
  <2>1. Inner(r) \in CellsAt /\ Len(RestOf(FieldHere(r), r[3])) < Len(r[3])
    BY <1>3, WithinIs
  <2>2. Inner(r)[3] = RestOf(FieldHere(r), r[3])
    OBVIOUS
  <2> HIDE DEF Inner, FieldHere
  <2> QED BY <2>1, <2>2
<1>4. ASSUME NEW r \in S PROVE Held(r[2], FieldHere(r), r[3]) \in T
  OBVIOUS
<1>5. m \in [S -> Nat] /\ T # {}
  BY <1>2
<1> HIDE DEF Inner, FieldHere, m, T
<1>6. F \in [[S -> T] -> [S -> T]]
  <2> SUFFICES ASSUME NEW f \in [S -> T], NEW r \in S PROVE CellBy(f, r) \in T
    OBVIOUS
  <2>1. CASE IsWithin(FieldHere(r), r[3])
    <3> HIDE DEF S
    <3> QED BY <1>0, <1>3, <2>1
  <2>2. CASE ~IsWithin(FieldHere(r), r[3])
    BY <1>0, <1>4, <2>2
  <2> QED BY <2>1, <2>2
<1>7. Descends(S, T, m, F)
  <2> SUFFICES ASSUME NEW f \in [S -> T], NEW g \in [S -> T], NEW r \in S,
                      \A q \in S : m[q] < m[r] => f[q] = g[q]
               PROVE  F[f][r] = F[g][r]
    BY DEF Descends
  <2>1. CellBy(f, r) = CellBy(g, r)
    <3> HIDE DEF S
    <3>1. CASE IsWithin(FieldHere(r), r[3])
      <4>1. f[Inner(r)] = g[Inner(r)]
        BY <1>3, <3>1
      <4> QED BY <1>0, <3>1, <4>1
    <3>2. CASE ~IsWithin(FieldHere(r), r[3])
      BY <1>0, <3>2
    <3> QED BY <3>1, <3>2
  <2> QED BY <2>1
<1>8. Recursive(S, T, m, F)
  <2> HIDE DEF S, F
  <2> QED BY <1>5, <1>6, <1>7 DEF Recursive
<1>9. PICK f : Solution(S, T, F, f)
  <2> HIDE DEF S, F
  <2> QED BY <1>8, Recursion
<1>10. f = [r \in S |-> CellBy(f, r)]
  <2>1. f \in [S -> T] /\ \A r \in S : f[r] = F[f][r]
    <3> HIDE DEF S, F
    <3> QED BY <1>9 DEF Solution
  <2>2. \A r \in S : F[f][r] = CellBy(f, r)
    BY <2>1
  <2> HIDE DEF F, S
  <2> QED BY <2>1, <2>2
<1>11. CellOf = [r \in S |-> CellBy(CellOf, r)]
  <2> DEFINE Fixed(g) == g = [r \in S |-> CellBy(g, r)]
  <2>1. Fixed(f)
    BY <1>10
  <2>2. CellOf = CHOOSE g : Fixed(g)
    BY <1>1
  <2> HIDE DEF Fixed
  <2>3. Fixed(CellOf)
    BY <2>1, <2>2
  <2> QED BY <2>3 DEF Fixed
<1> DEFINE v == CellOf
<1>12. v = [r \in S |-> CellBy(v, r)]
  BY <1>11
<1> HIDE DEF v, S
<1>13. v[at] = CellBy(v, at)
  BY <1>12 DEF S
<1> QED BY <1>13 DEF v

LEMMA CountOf ==
  ASSUME NEW schema \in Schemas, NEW object, object \in Instances[schema],
         NEW i, i \in DOMAIN Fields[schema], Fields[schema][i].array
  PROVE  CellOf[<<schema, object, <<i, 0>>>>] = Objects[object][i].count
<1> DEFINE at == <<schema, object, <<i, 0>>>>
<1>1. <<i, 0>> \in CellPaths[schema] /\ <<i, 0>> \in Seq(Nat) /\ object \in Structs
  BY CountCell, FieldParts, ObjectsAssumption
<1>2. at \in CellsAt
  BY <1>1 DEF CellsAt
<1>3. CellOf[at] = CellBy(CellOf, at)
  BY <1>2, CellOfStep
<1>4. at[1] = schema /\ at[2] = object /\ at[3] = <<i, 0>> /\ <<i, 0>>[1] = i /\ <<i, 0>>[2] = 0
  OBVIOUS
<1> HIDE DEF at
<1>5. CellBy(CellOf, at) = Objects[object][i].count
  BY <1>4 DEF CellBy, Held, IsWithin
<1> QED BY <1>3, <1>5 DEF at

\* The element of a struct that a head selects.
Element(schema, object, h) ==
  IF HeadField(schema, h).array THEN Objects[object][h[1]].items[h[2]]
  ELSE Objects[object][h[1]]

LEMMA HeadOf ==
  ASSUME NEW schema \in Schemas, NEW object, object \in Instances[schema],
         NEW h, h \in Heads(schema), NEW r \in Paths, r \in Of(HeadField(schema, h))
  PROVE  /\ CellOf[<<schema, object, h \o r>>] =
              IF HeadField(schema, h).type = "STRUCT"
              THEN CellOf[<<HeadField(schema, h).child, Element(schema, object, h), r>>]
              ELSE Element(schema, object, h)
         /\ ElementTyped(HeadField(schema, h), Element(schema, object, h))
<1> DEFINE field == HeadField(schema, h)
           q == h \o r
           at == <<schema, object, q>>
<1>1. q \in CellPaths[schema] /\ q \in Seq(Nat) /\ object \in Structs
  BY HeadCells, HeadIs, Joined, ObjectsAssumption DEF Paths
<1>2. at \in CellsAt
  BY <1>1 DEF CellsAt
<1>3. CellOf[at] = CellBy(CellOf, at)
  BY <1>2, CellOfStep
<1>4. /\ at[1] = schema /\ at[2] = object /\ at[3] = q /\ RestOf(field, q) = r
      /\ Fields[schema][q[1]] = field /\ q[1] = h[1]
      /\ field.array => q[2] = h[2] /\ h[2] # 0
  BY TailOfHead, HeadIs
<1>5. /\ ElementTyped(field, Held(object, field, q))
      /\ IsWithin(field, q) <=> field.type = "STRUCT"
  BY HeldIs
<1> HIDE DEF at, q, field
<1>6. Held(object, field, q) = Element(schema, object, h)
  BY <1>4 DEF Held, Element, field
<1>7. CellBy(CellOf, at) = IF field.type = "STRUCT"
                           THEN CellOf[<<field.child, Element(schema, object, h), r>>]
                           ELSE Element(schema, object, h)
  BY <1>4, <1>5, <1>6 DEF CellBy
<1> QED BY <1>3, <1>5, <1>6, <1>7 DEF at, q, field

-----------------------------------------------------------------------------
(* kason_schema_object_valid. *)

\* The parts of the check, with f for its calls of itself.
ElementBy(f, field, element, level) ==
  IF field.type = "STRUCT" THEN f[<<field.child, element, level + 1>>]
  ELSE ScalarValid(field.type, element)
FieldBy(f, field, value, level) ==
  /\ field.array => value.count <= field.capacity
  /\ \A p \in DOMAIN Elements(field, value) :
       ElementBy(f, field, Elements(field, value)[p], level)
StructBy(f, at) ==
  /\ at[3] < MAX_NESTING
  /\ \A i \in DOMAIN Fields[at[1]] :
       FieldBy(f, Fields[at[1]][i], Objects[at[2]][i], at[3])

LEMMA ElementsIs ==
  ASSUME NEW field, FieldTyped(field), NEW value, ValueTyped(field, value),
         field.array => value.count <= field.capacity
  PROVE  /\ DOMAIN Elements(field, value) = IF field.array THEN 1..value.count ELSE {1}
         /\ \A p \in DOMAIN Elements(field, value) :
              /\ Elements(field, value)[p] = IF field.array THEN value.items[p] ELSE value
              /\ ElementTyped(field, Elements(field, value)[p])
<1>1. CASE field.array
  <2>1. Elements(field, value) = [p \in 1..value.count |-> value.items[p]]
    BY <1>1 DEF Elements
  <2>2. value.count \in Nat /\ field.capacity \in Nat /\ value.count <= field.capacity
    BY <1>1 DEF ValueTyped, FieldTyped
  <2>3. \A p \in 1..value.count : p \in 1..field.capacity
    BY <2>2
  <2> QED BY <1>1, <2>1, <2>3 DEF ValueTyped
<1>2. CASE ~field.array
  <2>1. Elements(field, value) = <<value>>
    BY <1>2 DEF Elements
  <2>2. DOMAIN <<value>> = {1} /\ <<value>>[1] = value
    OBVIOUS
  <2> QED BY <1>2, <2>1, <2>2 DEF ValueTyped
<1> QED BY <1>1, <1>2

\* Where a struct within another is.
LEMMA ChildAt ==
  ASSUME NEW at \in StructsAt, NEW i \in DOMAIN Fields[at[1]],
         Fields[at[1]][i].array => Objects[at[2]][i].count <= Fields[at[1]][i].capacity,
         NEW p \in DOMAIN Elements(Fields[at[1]][i], Objects[at[2]][i]),
         Fields[at[1]][i].type = "STRUCT"
  PROVE  <<Fields[at[1]][i].child, Elements(Fields[at[1]][i], Objects[at[2]][i])[p], at[3] + 1>>
           \in StructsAt
<1> DEFINE field == Fields[at[1]][i]
           value == Objects[at[2]][i]
           e == Elements(field, value)[p]
<1>1. at[1] \in Schemas /\ at[2] \in Instances[at[1]] /\ at[3] \in Nat
  BY DEF StructsAt
<1>2. FieldTyped(field) /\ ValueTyped(field, value)
  BY <1>1, FieldsAssumption, ObjectsAssumption
<1>3. ElementTyped(field, e)
  <2> HIDE DEF field, value
  <2>1. field.array => value.count <= field.capacity
    BY DEF field, value
  <2>2. p \in DOMAIN Elements(field, value)
    BY DEF field, value
  <2> QED BY <1>2, <2>1, <2>2, ElementsIs
<1>4. field.type = "STRUCT" /\ field.child \in Schemas
  BY <1>2 DEF FieldTyped
<1> HIDE DEF field, value, e
<1>5. e \in Instances[field.child]
  BY <1>3, <1>4, Zenon DEF ElementTyped, StringTypes, IntegerTypes
<1>6. e \in Structs
  BY <1>4, <1>5, ObjectsAssumption
<1>7. <<field.child, e, at[3] + 1>> \in StructsAt
  BY <1>1, <1>4, <1>5, <1>6 DEF StructsAt
<1> QED BY <1>7 DEF field, value, e

LEMMA StructByCalls ==
  ASSUME NEW at \in StructsAt, NEW f, NEW g,
         \A r \in StructsAt : r[3] = at[3] + 1 => (f[r] <=> g[r])
  PROVE  StructBy(f, at) => StructBy(g, at)
<1> SUFFICES ASSUME StructBy(f, at), NEW i \in DOMAIN Fields[at[1]]
             PROVE  FieldBy(g, Fields[at[1]][i], Objects[at[2]][i], at[3])
  BY DEF StructBy
<1> DEFINE field == Fields[at[1]][i]
           value == Objects[at[2]][i]
<1>1. FieldBy(f, field, value, at[3])
  BY DEF StructBy
<1>2. field.array => value.count <= field.capacity
  BY <1>1 DEF FieldBy
<1>3. ASSUME NEW p \in DOMAIN Elements(field, value)
      PROVE  ElementBy(g, field, Elements(field, value)[p], at[3])
  <2> DEFINE e == Elements(field, value)[p]
             r == <<field.child, e, at[3] + 1>>
  <2>1. ElementBy(f, field, e, at[3])
    BY <1>1 DEF FieldBy
  <2>2. CASE field.type = "STRUCT"
    <3>1. r \in StructsAt /\ r[3] = at[3] + 1
      BY <1>2, <2>2, ChildAt
    <3>2. f[r]
      BY <2>1, <2>2 DEF ElementBy
    <3>3. g[r]
      BY <3>1, <3>2
    <3> HIDE DEF field, value, e
    <3> QED BY <2>2, <3>3 DEF ElementBy, e
  <2>3. CASE field.type # "STRUCT"
    BY <2>1, <2>3 DEF ElementBy
  <2> QED BY <2>2, <2>3
<1> HIDE DEF field, value
<1>4. FieldBy(g, field, value, at[3])
  BY <1>2, <1>3 DEF FieldBy
<1> QED BY <1>4 DEF field, value

LEMMA ValidIs ==
  ASSUME NEW at \in StructsAt
  PROVE  kason_schema_object_valid[at] <=> StructBy(kason_schema_object_valid, at)
<1> DEFINE S == StructsAt
           T == BOOLEAN
           m == [r \in S |-> IF r[3] < MAX_NESTING THEN MAX_NESTING - r[3] ELSE 0]
           F == [f \in [S -> T] |-> [r \in S |-> StructBy(f, r)]]
<1>1. kason_schema_object_valid = CHOOSE f : f = [r \in S |-> StructBy(f, r)]
  BY DEF kason_schema_object_valid, StructBy, FieldBy, ElementBy
<1>2. \A r \in S : r[3] \in Nat
  BY DEF StructsAt
<1>3. MAX_NESTING \in Nat
  BY NestingAssumption
<1>4. m \in [S -> Nat]
  BY <1>2, <1>3
<1>5. \A f, r : StructBy(f, r) \in BOOLEAN
  BY DEF StructBy
<1>6. F \in [[S -> T] -> [S -> T]] /\ T # {}
  BY <1>5
<1>7. ASSUME NEW f \in [S -> T], NEW g \in [S -> T], NEW r \in S,
             \A q \in S : m[q] < m[r] => f[q] = g[q]
      PROVE  F[f][r] = F[g][r]
  <2>1. CASE r[3] < MAX_NESTING
    <3>1. \A q \in S : q[3] = r[3] + 1 => m[q] < m[r]
      BY <1>2, <1>3, <2>1
    <3>2. \A q \in StructsAt : q[3] = r[3] + 1 => (f[q] <=> g[q]) /\ (g[q] <=> f[q])
      BY <1>7, <3>1
    <3>3. StructBy(f, r) <=> StructBy(g, r)
      BY <3>2, StructByCalls
    <3>4. F[f][r] = StructBy(f, r) /\ F[g][r] = StructBy(g, r)
      OBVIOUS
    <3> QED BY <1>5, <3>3, <3>4
  <2>2. CASE ~(r[3] < MAX_NESTING)
    <3>1. ~StructBy(f, r) /\ ~StructBy(g, r)
      BY <2>2 DEF StructBy
    <3>2. F[f][r] = StructBy(f, r) /\ F[g][r] = StructBy(g, r)
      OBVIOUS
    <3> QED BY <1>5, <3>1, <3>2
  <2> QED BY <2>1, <2>2
<1>8. Recursive(S, T, m, F)
  <2> HIDE DEF S, T, m, F
  <2> QED BY <1>4, <1>6, <1>7 DEF Recursive, Descends
<1>9. PICK f : Solution(S, T, F, f)
  <2> HIDE DEF S, T, m, F
  <2> QED BY <1>8, Recursion
<1>10. f = [r \in S |-> StructBy(f, r)]
  <2>1. f \in [S -> T] /\ \A r \in S : f[r] = F[f][r]
    <3> HIDE DEF S, T, F
    <3> QED BY <1>9 DEF Solution
  <2>2. \A r \in S : F[f][r] = StructBy(f, r)
    BY <2>1
  <2> HIDE DEF F, T, S
  <2> QED BY <2>1, <2>2
<1> DEFINE v == kason_schema_object_valid
<1>11. v = [r \in S |-> StructBy(v, r)]
  <2> HIDE DEF S, v
  <2> QED BY <1>1, <1>10 DEF v
<1>12. v[at] = StructBy(v, at)
  <2> HIDE DEF v
  <2> QED BY <1>11
<1> QED BY <1>12


-----------------------------------------------------------------------------
(* Memory. *)
Live(mem, n, p) ==
  \A k \in DOMAIN p : k > n /\ Counter(p, k) \in DOMAIN mem => p[k] <= mem[Counter(p, k)]
Safe(mem, schema, p) ==
  /\ IsCount(p) =>
       /\ mem[p] <= FieldAt[<<schema, p>>].capacity
       /\ FieldAt[<<schema, p>>].type # "STRUCT" =>
            \A k \in 1..mem[p] : ItemPath(p, k) \in DOMAIN mem
  /\ ~IsCount(p) /\ FieldAt[<<schema, p>>].type \in StringTypes => Terminated(mem[p])
Sound(mem, schema, n, p) == Live(mem, n, p) => Safe(mem, schema, p)
Fits(schema, p, v) == CellFits(FieldAt[<<schema, p>>], p, v)

\* What is at P in the struct of a schema is the struct of another.
Holds(outer, P, schema) ==
  /\ outer \in Schemas /\ P \in Paths /\ schema \in Schemas
  /\ \A q \in Paths : P \o q \in CellPaths[outer] <=> q \in CellPaths[schema]
  /\ \A q \in CellPaths[schema] : FieldAt[<<outer, P \o q>>] = FieldAt[<<schema, q>>]

LEMMA HoldsHere == ASSUME NEW schema \in Schemas PROVE Holds(schema, << >>, schema)
<1>1. \A q \in Paths : << >> \o q = q
  BY DEF Paths
<1>2. << >> \in Paths /\ CellPaths[schema] \subseteq Paths
  BY CellPathsIs DEF Paths
<1> QED BY <1>1, <1>2 DEF Holds

LEMMA HoldsWithin ==
  ASSUME NEW outer, NEW P, NEW schema, Holds(outer, P, schema),
         NEW h, h \in Heads(schema), HeadField(schema, h).type = "STRUCT"
  PROVE  Holds(outer, P \o h, HeadField(schema, h).child)
<1> DEFINE child == HeadField(schema, h).child
<1>1. /\ outer \in Schemas /\ P \in Paths /\ schema \in Schemas
      /\ \A q \in Paths : P \o q \in CellPaths[outer] <=> q \in CellPaths[schema]
      /\ \A q \in CellPaths[schema] : FieldAt[<<outer, P \o q>>] = FieldAt[<<schema, q>>]
  BY DEF Holds
<1>2. h \in Paths /\ child \in Schemas
  BY <1>1, HeadIs, FieldParts
<1>3. Of(HeadField(schema, h)) = CellPaths[child]
  BY DEF Of, OfBy
<1>4. CellPaths[child] \subseteq Paths
  BY <1>2, CellPathsIs
<1>5. ASSUME NEW q \in Paths
      PROVE  /\ (P \o h) \o q = P \o (h \o q)
             /\ h \o q \in Paths
             /\ h \o q \in CellPaths[schema] <=> q \in CellPaths[child]
  <2>1. (P \o h) \o q = P \o (h \o q)
    BY <1>1, <1>2, Regroup
  <2>2. h \o q \in Paths
    BY <1>2, Joined
  <2>3. h \o q \in CellPaths[schema] <=> q \in CellPaths[child]
    BY <1>1, <1>3, HeadCells
  <2> QED BY <2>1, <2>2, <2>3
<1>6. ASSUME NEW q \in Paths
      PROVE  (P \o h) \o q \in CellPaths[outer] <=> q \in CellPaths[child]
  BY <1>1, <1>5
<1>7. ASSUME NEW q \in CellPaths[child]
      PROVE  FieldAt[<<outer, (P \o h) \o q>>] = FieldAt[<<child, q>>]
  <2>1. h \o q \in CellPaths[schema] /\ (P \o h) \o q = P \o (h \o q) /\ q \in Paths
    BY <1>4, <1>5
  <2>2. FieldAt[<<schema, h \o q>>] = FieldAt[<<child, q>>]
    BY <1>1, <1>3, <2>1, HeadFieldAt
  <2> QED BY <1>1, <2>1, <2>2
<1>8. P \o h \in Paths
  BY <1>1, <1>2, Joined
<1> HIDE DEF child
<1>9. Holds(outer, P \o h, child)
  BY <1>1, <1>2, <1>6, <1>7, <1>8 DEF Holds
<1> QED BY <1>9 DEF child

LEMMA LastWithin ==
  ASSUME NEW P \in Paths, NEW q \in Paths, q # << >>
  PROVE  IsCount(P \o q) <=> IsCount(q)
<1>1. Len(P) \in Nat /\ Len(q) \in Nat /\ Len(q) >= 1
  BY DEF Paths
<1>2. Len(P \o q) = Len(P) + Len(q) /\ (P \o q)[Len(P) + Len(q)] = q[Len(q)]
  BY <1>1, Joined
<1> QED BY <1>2 DEF IsCount

\* A struct that is copied is as it was.
LEMMA Copied ==
  ASSUME NEW outer, NEW P, NEW schema, Holds(outer, P, schema), NEW mem, NEW inner,
         DOMAIN inner = CellPaths[schema],
         \A q \in CellPaths[schema] : P \o q \in DOMAIN mem /\ mem[P \o q] = inner[q],
         NEW n \in Nat, n <= Len(P), NEW q \in CellPaths[schema], Sound(inner, schema, 0, q)
  PROVE  Sound(mem, outer, n, P \o q)
<1>1. /\ outer \in Schemas /\ P \in Paths /\ schema \in Schemas
      /\ \A r \in CellPaths[schema] : FieldAt[<<outer, P \o r>>] = FieldAt[<<schema, r>>]
  BY DEF Holds
<1>2. q \in Paths /\ q # << >>
  BY <1>1, CellCases
<1>3. Len(P) \in Nat /\ Len(q) \in Nat
  BY <1>1, <1>2 DEF Paths
<1> SUFFICES ASSUME Live(mem, n, P \o q) PROVE Safe(mem, outer, P \o q)
  BY DEF Sound
<1>4. Live(inner, 0, q)
  <2> SUFFICES ASSUME NEW k \in DOMAIN q, Counter(q, k) \in DOMAIN inner
               PROVE  q[k] <= inner[Counter(q, k)]
    BY DEF Live
  <2>1. k \in 1..Len(q) /\ DOMAIN q = 1..Len(q)
    BY <1>2 DEF Paths
  <2>2. Counter(P \o q, Len(P) + k) = P \o Counter(q, k)
    BY <1>1, <1>2, <2>1, CounterWithin
  <2>3. /\ P \o Counter(q, k) \in DOMAIN mem
        /\ mem[P \o Counter(q, k)] = inner[Counter(q, k)]
    OBVIOUS
  <2>4. Len(P) + k \in DOMAIN (P \o q) /\ (P \o q)[Len(P) + k] = q[k]
    BY <1>1, <1>2, <1>3, <2>1, Joined
  <2>5. Len(P) + k > n
    BY <1>3, <2>1
  <2>6. (P \o q)[Len(P) + k] <= mem[Counter(P \o q, Len(P) + k)]
    BY <2>2, <2>3, <2>4, <2>5 DEF Live
  <2> QED BY <2>2, <2>3, <2>4, <2>6
<1>5. Safe(inner, schema, q)
  BY <1>4 DEF Sound
<1>6. mem[P \o q] = inner[q] /\ FieldAt[<<outer, P \o q>>] = FieldAt[<<schema, q>>]
  BY <1>1
<1>7. IsCount(P \o q) <=> IsCount(q)
  BY <1>1, <1>2, LastWithin
<1>8. ASSUME NEW k \in 1..inner[q], ItemPath(q, k) \in DOMAIN inner
      PROVE  ItemPath(P \o q, k) \in DOMAIN mem
  <2>1. k \in Nat
    OBVIOUS
  <2>2. ItemPath(P \o q, k) = P \o ItemPath(q, k)
    BY <1>1, <1>2, <2>1, ItemPathWithin
  <2> QED BY <1>8, <2>2
<1> QED BY <1>5, <1>6, <1>7, <1>8 DEF Safe

-----------------------------------------------------------------------------
(* The items of an array. *)
LEMMA ItemCells ==
  ASSUME NEW schema \in Schemas, NEW i, i \in DOMAIN Fields[schema], Fields[schema][i].array,
         NEW k, k \in 1..Fields[schema][i].capacity
  PROVE  /\ <<i, k>> \in Heads(schema) /\ HeadField(schema, <<i, k>>) = Fields[schema][i]
         /\ Fields[schema][i].type # "STRUCT" => <<i, k>> \in CellPaths[schema]
<1>1. i \in Nat /\ k \in Nat
  BY FieldParts
<1>2. <<i, k>> \in Paths /\ Len(<<i, k>>) = 2 /\ <<i, k>>[1] = i /\ <<i, k>>[2] = k
  BY <1>1 DEF Paths
<1>3. <<i, k>> \in Heads(schema) /\ HeadField(schema, <<i, k>>) = Fields[schema][i]
  BY <1>2 DEF Heads, HeadField
<1>4. ASSUME Fields[schema][i].type # "STRUCT" PROVE <<i, k>> \in CellPaths[schema]
  <2>1. << >> \in Paths /\ << >> \in Of(HeadField(schema, <<i, k>>))
    BY <1>3, <1>4 DEF Paths, Of, OfBy
  <2>2. <<i, k>> \o << >> \in CellPaths[schema]
    BY <1>3, <2>1, HeadCells
  <2>3. <<i, k>> \o << >> = <<i, k>>
    BY <1>2 DEF Paths
  <2> QED BY <2>2, <2>3
<1> QED BY <1>3, <1>4

MemoryOf(schema, object) == [q \in CellPaths[schema] |-> CellOf[<<schema, object, q>>]]

LEMMA HeadOnly ==
  ASSUME NEW schema \in Schemas, NEW h, h \in Heads(schema),
         HeadField(schema, h).type # "STRUCT"
  PROVE  /\ Of(HeadField(schema, h)) = {<< >>} /\ h \o << >> = h /\ << >> \in Paths
         /\ h \in CellPaths[schema] /\ FieldAt[<<schema, h>>] = HeadField(schema, h)
         /\ ~IsCount(h)
<1>1. Of(HeadField(schema, h)) = {<< >>} /\ << >> \in Paths
  BY DEF Of, OfBy, Paths
<1>2. h \in Paths /\ Len(h) \in {1, 2} /\ h[1] \in DOMAIN Fields[schema] /\ h[1] \in Nat
  BY HeadIs
<1>3. h \o << >> = h
  BY <1>2 DEF Paths
<1>4. h \in CellPaths[schema]
  BY <1>1, <1>3, HeadCells
<1>5. FieldAt[<<schema, h \o << >>>>] = HeadField(schema, h)
  BY <1>1, HeadFieldAt
<1>6. h[Len(h)] # 0
  <2>1. h[1] >= 1
    BY <1>2, FieldParts
  <2>2. Len(h) = 2 => h[2] \in 1..HeadField(schema, h).capacity
    BY HeadIs
  <2>3. Len(h) = 2 => h[2] # 0
    BY <2>2
  <2> QED BY <1>2, <2>1, <2>3
<1> QED BY <1>1, <1>3, <1>4, <1>5, <1>6 DEF IsCount

\* The place of a count, and of an item.
CountAt(P, i) == P \o <<i, 0>>
ItemAt(P, i, k) == P \o <<i, k>>

\* What is behind the count of an array is not read.
LEMMA BehindCount ==
  ASSUME NEW schema \in Schemas, NEW h, h \in Heads(schema), HeadField(schema, h).array,
         NEW r \in Paths, NEW P \in Paths, NEW mem, NEW n \in Nat, n <= Len(P) + 1,
         CountAt(P, h[1]) \in DOMAIN mem, ~(h[2] <= mem[CountAt(P, h[1])])
  PROVE  ~Live(mem, n, P \o (h \o r))
<1>1. h \in Paths /\ Len(h) = 2 /\ h[1] \in Nat /\ Len(P) \in Nat /\ Len(r) \in Nat
  BY HeadIs DEF Paths
<1> DEFINE q == h \o r
<1>2. q \in Paths /\ Len(q) = 2 + Len(r) /\ q[1] = h[1] /\ q[2] = h[2]
  <2>1. q \in Paths /\ Len(q) = Len(h) + Len(r) /\ \A k \in 1..Len(h) : q[k] = h[k]
    BY <1>1, Joined
  <2> HIDE DEF q
  <2> QED BY <1>1, <2>1
<1>3. 2 \in 1..Len(q)
  BY <1>1, <1>2
<1> HIDE DEF q
<1>4. Counter(q, 2) = <<h[1], 0>>
  <2>1. /\ Counter(q, 2) \in Seq(Nat) /\ Len(Counter(q, 2)) = 2 /\ Counter(q, 2)[2] = 0
        /\ Counter(q, 2)[1] = q[1]
    <3>1. /\ Counter(q, 2) \in Paths /\ Len(Counter(q, 2)) = 2 /\ Counter(q, 2)[2] = 0
          /\ \A j \in 1..(2 - 1) : Counter(q, 2)[j] = q[j]
      BY <1>2, <1>3, CounterIs
    <3> QED BY <3>1 DEF Paths
  <2>2. \A s \in Seq(Nat) : Len(s) = 2 => s = <<s[1], s[2]>>
    OBVIOUS
  <2>3. Counter(q, 2) = <<Counter(q, 2)[1], Counter(q, 2)[2]>>
    BY <2>1, <2>2
  <2> QED BY <1>2, <2>1, <2>3
<1>5. Counter(P \o q, Len(P) + 2) = CountAt(P, h[1])
  <2>1. Counter(P \o q, Len(P) + 2) = P \o Counter(q, 2)
    BY <1>2, <1>3, CounterWithin
  <2> QED BY <1>4, <2>1 DEF CountAt
<1>6. /\ Len(P) + 2 \in DOMAIN (P \o q) /\ (P \o q)[Len(P) + 2] = h[2]
      /\ Len(P) + 2 > n
  BY <1>1, <1>2, <1>3, Joined
<1>7. ~Live(mem, n, P \o q)
  BY <1>5, <1>6 DEF Live, CountAt
<1> QED BY <1>7 DEF q

LEMMA Pair ==
  ASSUME NEW b \in Nat
  PROVE  /\ <<b>> \in Paths /\ Len(<<b>>) = 1 /\ <<b>>[1] = b
         /\ \A j \in Nat : <<b>> \o <<j>> = <<b, j>> /\ <<b, j>> \in Paths
<1>1. <<b>> \in Paths /\ Len(<<b>>) = 1 /\ <<b>>[1] = b
  BY DEF Paths
<1>2. ASSUME NEW j \in Nat PROVE <<b>> \o <<j>> = <<b, j>> /\ <<b, j>> \in Paths
  <2>1. /\ <<j>> \in Paths /\ Len(<<j>>) = 1 /\ <<j>>[1] = j
    BY DEF Paths
  <2>2. /\ <<b, j>> \in Paths /\ Len(<<b, j>>) = 2 /\ <<b, j>>[1] = b /\ <<b, j>>[2] = j
    BY DEF Paths
  <2>3. /\ <<b>> \o <<j>> \in Paths /\ Len(<<b>> \o <<j>>) = 2
        /\ (<<b>> \o <<j>>)[1] = b /\ (<<b>> \o <<j>>)[2] = j
    <3>1. 1 \in 1..Len(<<b>>) /\ 1 \in 1..Len(<<j>>) /\ 1 + 1 = 2
      BY <1>1, <2>1
    <3>2. (<<b>> \o <<j>>)[Len(<<b>>) + 1] = <<j>>[1]
      BY <1>1, <2>1, <3>1, Joined
    <3>3. (<<b>> \o <<j>>)[1] = <<b>>[1] /\ Len(<<b>> \o <<j>>) = Len(<<b>>) + Len(<<j>>)
          /\ <<b>> \o <<j>> \in Paths
      BY <1>1, <2>1, <3>1, Joined
    <3> QED BY <1>1, <2>1, <3>1, <3>2, <3>3
  <2> DEFINE x == <<b>> \o <<j>>
             y == <<b, j>>
  <2> HIDE DEF x, y
  <2>4. x \in Paths /\ y \in Paths /\ Len(x) = Len(y) /\ \A k \in 1..Len(x) : x[k] = y[k]
    BY <2>2, <2>3 DEF x, y
  <2>5. x = y
    BY <2>4, SamePath
  <2> QED BY <2>2, <2>5 DEF x, y
<1> QED BY <1>1, <1>2

LEMMA ObjectSafe ==
  ASSUME NEW at \in StructsAt, kason_schema_object_valid[at], NEW q \in CellPaths[at[1]]
  PROVE  Sound(MemoryOf(at[1], at[2]), at[1], 0, q)
<1> DEFINE Good == {n \in Nat : \A a \in StructsAt : kason_schema_object_valid[a] =>
                      \A p \in CellPaths[a[1]] :
                        Len(p) <= n => Sound(MemoryOf(a[1], a[2]), a[1], 0, p)}
<1>0. ASSUME NEW a \in StructsAt
      PROVE  a[1] \in Schemas /\ a[2] \in Instances[a[1]] /\ a[3] \in Nat
  BY DEF StructsAt
<1>1. 0 \in Good
  <2> SUFFICES ASSUME NEW a \in StructsAt, NEW p \in CellPaths[a[1]], Len(p) <= 0 PROVE FALSE
    OBVIOUS
  <2>1. Len(p) >= 1 /\ p \in Seq(Nat)
    BY <1>0, CellCases DEF Paths
  <2> QED BY <2>1
<1>2. ASSUME NEW n \in Good PROVE n + 1 \in Good
  <2> SUFFICES ASSUME NEW a \in StructsAt, kason_schema_object_valid[a],
                      NEW p \in CellPaths[a[1]], Len(p) <= n + 1
               PROVE  Sound(MemoryOf(a[1], a[2]), a[1], 0, p)
    OBVIOUS
  <2>1. ASSUME NEW b \in StructsAt, kason_schema_object_valid[b],
               NEW r \in CellPaths[b[1]], Len(r) <= n
        PROVE  Sound(MemoryOf(b[1], b[2]), b[1], 0, r)
    BY <2>1
  <2> HIDE DEF Good
  <2> DEFINE s == a[1]
             o == a[2]
             mem == MemoryOf(s, o)
             field == Fields[s][p[1]]
             value == Objects[o][p[1]]
  <2>2. s \in Schemas /\ o \in Instances[s] /\ a[3] \in Nat
    BY <1>0
  <2>3. p[1] \in DOMAIN Fields[s] /\ p \in Paths
    BY <2>2, CellCases
  <2>4. FieldTyped(field) /\ ValueTyped(field, value)
    BY <2>2, <2>3, FieldsAssumption, ObjectsAssumption
  <2>5. FieldBy(kason_schema_object_valid, field, value, a[3])
    BY <2>3, ValidIs DEF StructBy
  <2>6. field.array => value.count <= field.capacity
    BY <2>5 DEF FieldBy
  <2>7. DOMAIN mem = CellPaths[s] /\ \A r \in CellPaths[s] : mem[r] = CellOf[<<s, o, r>>]
    BY DEF MemoryOf
  <2>8. field.array => /\ <<p[1], 0>> \in CellPaths[s]
                       /\ mem[<<p[1], 0>>] = value.count
    <3>1. field.array => <<p[1], 0>> \in CellPaths[s]
      BY <2>2, <2>3, CountCell
    <3>2. field.array => CellOf[<<s, o, <<p[1], 0>>>>] = value.count
      BY <2>2, <2>3, CountOf
    <3> HIDE DEF mem, field, value
    <3> QED BY <2>7, <3>1, <3>2
  <2> HIDE DEF mem
  <2>9. CASE field.array /\ p = <<p[1], 0>>
    <3>1. FieldAt[<<s, p>>] = field
      BY <2>2, <2>3, <2>9, CountField
    <3>2. mem[p] = value.count
      BY <2>8, <2>9
    <3>3. ASSUME field.type # "STRUCT", NEW k \in 1..mem[p] PROVE ItemPath(p, k) \in DOMAIN mem
      <4>1. value.count \in Nat /\ field.capacity \in Nat
        BY <2>4, <2>9 DEF ValueTyped, FieldTyped
      <4>2. k \in 1..field.capacity /\ k \in Nat
        BY <2>6, <2>9, <3>2, <3>3, <4>1
      <4>3. <<p[1], k>> \in CellPaths[s]
        BY <2>2, <2>3, <2>9, <3>3, <4>2, ItemCells
      <4>4. ItemPath(p, k) = <<p[1], k>>
        <5>1. <<p[1]>> \in Paths /\ \A j \in Nat : <<p[1]>> \o <<j>> = <<p[1], j>>
          <6>1. p[1] \in Nat
            BY <2>2, <2>3, FieldParts
          <6> QED BY <6>1, Pair
        <5>2. ItemPath(<<p[1]>> \o <<0>>, k) = <<p[1]>> \o <<k>>
          BY <4>2, <5>1, ItemPathIs
        <5>3. <<p[1]>> \o <<0>> = p /\ <<p[1]>> \o <<k>> = <<p[1], k>>
          BY <2>9, <4>2, <5>1
        <5> QED BY <5>2, <5>3
      <4> QED BY <2>7, <4>3, <4>4
    <3>4. IsCount(p)
      <4>1. \A j : Len(<<j, 0>>) = 2 /\ <<j, 0>>[2] = 0
        OBVIOUS
      <4>2. Len(p) = 2 /\ p[2] = 0
        BY <2>9, <4>1
      <4> QED BY <4>2 DEF IsCount
    <3> HIDE DEF s, field, value
    <3>5. Safe(mem, s, p)
      BY <2>6, <2>9, <3>1, <3>2, <3>3, <3>4 DEF Safe
    <3> QED BY <3>5 DEF Sound, mem, s
  <2>10. CASE \E h \in Heads(s), r \in Paths :
             h[1] = p[1] /\ r \in Of(HeadField(s, h)) /\ p = h \o r
    <3>1. PICK h \in Heads(s), r \in Paths :
             h[1] = p[1] /\ r \in Of(HeadField(s, h)) /\ p = h \o r
      BY <2>10
    <3>2. /\ h \in Paths /\ Len(h) \in {1, 2} /\ h[1] \in DOMAIN Fields[s]
          /\ HeadField(s, h) = field /\ (field.array <=> Len(h) = 2)
          /\ (Len(h) = 2 => h[2] \in 1..field.capacity)
      BY <2>2, <3>1, HeadIs
    <3> DEFINE e == Element(s, o, h)
    <3>3. /\ mem[p] = IF field.type = "STRUCT" THEN CellOf[<<field.child, e, r>>] ELSE e
          /\ ElementTyped(field, e)
      <4>1. /\ CellOf[<<s, o, h \o r>>] = IF field.type = "STRUCT"
                                         THEN CellOf[<<field.child, e, r>>] ELSE e
            /\ ElementTyped(field, e)
        <5>1. /\ CellOf[<<s, o, h \o r>>] =
                    IF HeadField(s, h).type = "STRUCT"
                    THEN CellOf[<<HeadField(s, h).child, Element(s, o, h), r>>]
                    ELSE Element(s, o, h)
              /\ ElementTyped(HeadField(s, h), Element(s, o, h))
          <6> HIDE DEF s, o
          <6> QED BY <2>2, <3>1, HeadOf
        <5> HIDE DEF s, o, field
        <5> QED BY <3>2, <5>1
      <4> QED BY <2>7, <3>1, <4>1
    <3>4. CASE field.array /\ ~(h[2] <= value.count)
      <4>1. << >> \in Paths /\ Len(<< >>) = 0 /\ << >> \o p = p
            /\ << >> \o <<h[1], 0>> = <<h[1], 0>>
        BY <2>3 DEF Paths
      <4>2. CountAt(<< >>, h[1]) \in DOMAIN mem /\ ~(h[2] <= mem[CountAt(<< >>, h[1])])
        BY <2>7, <2>8, <3>1, <3>4, <4>1 DEF CountAt
      <4>3. ~Live(mem, 0, << >> \o (h \o r))
        <5>1. 0 <= Len(<< >>) + 1 /\ HeadField(s, h).array
          BY <3>2, <3>4, <4>1
        <5> HIDE DEF s, value, field
        <5> QED BY <2>2, <3>1, <4>1, <4>2, <5>1, BehindCount
      <4> QED BY <3>1, <4>1, <4>3 DEF Sound, mem
    <3>5. CASE ~(field.array /\ ~(h[2] <= value.count))
      <4> DEFINE i == IF field.array THEN h[2] ELSE 1
      <4>1. i \in DOMAIN Elements(field, value) /\ Elements(field, value)[i] = e
        <5>1. value.count \in Nat \/ ~field.array
          BY <2>4 DEF ValueTyped
        <5>2. i \in IF field.array THEN 1..value.count ELSE {1}
          BY <3>2, <3>5, <5>1
        <5>3. e = IF field.array THEN value.items[i] ELSE value
          BY <3>1, <3>2 DEF Element
        <5> HIDE DEF i, e, field, value
        <5>4. /\ DOMAIN Elements(field, value) = IF field.array THEN 1..value.count ELSE {1}
              /\ \A j \in DOMAIN Elements(field, value) :
                   /\ Elements(field, value)[j] = IF field.array THEN value.items[j] ELSE value
                   /\ ElementTyped(field, Elements(field, value)[j])
          BY <2>4, <2>6, ElementsIs
        <5>5. i \in DOMAIN Elements(field, value)
          BY <5>2, <5>4
        <5> QED BY <5>3, <5>4, <5>5
      <4>2. ElementBy(kason_schema_object_valid, field, e, a[3])
        BY <2>5, <4>1 DEF FieldBy
      <4>3. CASE field.type = "STRUCT"
        <5> DEFINE b == <<field.child, e, a[3] + 1>>
        <5>1. kason_schema_object_valid[b]
          BY <4>2, <4>3 DEF ElementBy
        <5>2. b \in StructsAt
          <6>1. <<Fields[a[1]][p[1]].child,
                  Elements(Fields[a[1]][p[1]], Objects[a[2]][p[1]])[i], a[3] + 1>> \in StructsAt
            BY <2>3, <2>6, <4>1, <4>3, ChildAt
          <6> QED BY <4>1, <6>1
        <5>3. b[1] = field.child /\ b[2] = e
          OBVIOUS
        <5>4. r \in CellPaths[b[1]]
          BY <3>1, <3>2, <4>3, <5>3 DEF Of, OfBy
        <5>5. Len(r) <= n
          <6>1. Len(p) = Len(h) + Len(r) /\ Len(r) \in Nat
            BY <3>1, <3>2, Joined DEF Paths
          <6>2. n \in Nat /\ Len(p) <= n + 1 /\ Len(h) \in {1, 2}
            BY <3>2 DEF Good
          <6> DEFINE x == Len(p)
                     y == Len(h)
                     z == Len(r)
          <6>3. x = y + z /\ z \in Nat /\ n \in Nat /\ x <= n + 1 /\ y \in {1, 2}
            BY <6>1, <6>2
          <6> HIDE DEF x, y, z
          <6>4. z <= n
            BY ONLY <6>3
          <6> QED BY <6>4 DEF z
        <5>6. Sound(MemoryOf(b[1], b[2]), b[1], 0, r)
          BY <2>1, <5>1, <5>2, <5>4, <5>5
        <5>7. Holds(s, h, field.child)
          <6>1. << >> \o h = h
            BY <3>2 DEF Paths
          <6>2. Holds(s, << >> \o h, HeadField(s, h).child)
            BY <2>2, <3>1, <3>2, <4>3, HoldsHere, HoldsWithin
          <6> QED BY <3>2, <6>1, <6>2
        <5> DEFINE inner == MemoryOf(field.child, e)
        <5>8. /\ DOMAIN inner = CellPaths[field.child]
              /\ \A t \in CellPaths[field.child] : inner[t] = CellOf[<<field.child, e, t>>]
          BY DEF MemoryOf
        <5>9. ASSUME NEW t \in CellPaths[field.child]
              PROVE  h \o t \in DOMAIN mem /\ mem[h \o t] = inner[t]
          <6>1. t \in Paths /\ t \in Of(HeadField(s, h))
            <7>1. field.child \in Schemas
              BY <2>2, <2>3, <4>3, FieldParts
            <7> QED BY <3>2, <4>3, <7>1, CellPathsIs DEF Of, OfBy
          <6>2. h \o t \in CellPaths[s]
            BY <2>2, <3>1, <6>1, HeadCells
          <6>3. CellOf[<<s, o, h \o t>>] = CellOf[<<field.child, e, t>>]
            <7>1. CellOf[<<s, o, h \o t>>] = IF HeadField(s, h).type = "STRUCT"
                    THEN CellOf[<<HeadField(s, h).child, Element(s, o, h), t>>]
                    ELSE Element(s, o, h)
              <8> HIDE DEF s, o
              <8> QED BY <2>2, <3>1, <6>1, HeadOf
            <7> HIDE DEF s, o, field
            <7> QED BY <3>2, <4>3, <7>1
          <6> HIDE DEF inner
          <6> QED BY <2>7, <5>8, <6>2, <6>3
        <5>10. Sound(inner, field.child, 0, r) /\ r \in CellPaths[field.child]
          BY <5>3, <5>4, <5>6
        <5> HIDE DEF inner, field, e, b, s
        <5>11. 0 <= Len(h)
          BY <3>2
        <5>12. Sound(mem, s, 0, h \o r)
          BY <5>7, <5>8, <5>9, <5>10, <5>11, Copied
        <5> QED BY <3>1, <5>12 DEF mem, s
      <4>4. CASE field.type # "STRUCT"
        <5>1. /\ Of(HeadField(s, h)) = {<< >>} /\ h \o << >> = h
              /\ FieldAt[<<s, h>>] = HeadField(s, h) /\ ~IsCount(h)
          BY <2>2, <3>1, <3>2, <4>4, HeadOnly
        <5>2. p = h
          BY <3>1, <5>1
        <5>3. mem[p] = e
          BY <3>3, <4>4
        <5>4. field.type \in StringTypes => Terminated(e)
          <6>1. ScalarValid(field.type, e)
            BY <4>2, <4>4 DEF ElementBy
          <6> HIDE DEF field, e
          <6> QED BY <6>1, Zenon DEF ScalarValid, StringTypes
        <5> HIDE DEF field, e, s
        <5>5. Safe(mem, s, p)
          BY <3>2, <5>1, <5>2, <5>3, <5>4 DEF Safe
        <5> QED BY <5>5 DEF Sound, mem, s
      <4> QED BY <4>3, <4>4
    <3> QED BY <3>4, <3>5
  <2> QED BY <2>2, <2>9, <2>10, CellCases
<1>3. Good = Nat
  <2> HIDE DEF Good
  <2>1. Good \in SUBSET Nat
    BY DEF Good
  <2> QED BY <1>1, <1>2, <2>1, SetInduction
<1>4. Len(q) \in Nat
  BY <1>0, CellCases DEF Paths
<1>5. Len(q) \in Good
  BY <1>3, <1>4
<1> QED BY <1>4, <1>5

-----------------------------------------------------------------------------
(* A valid struct, copied to a place. *)

\* What a struct has at a place has room there.
LEMMA ObjectFits ==
  ASSUME NEW schema \in Schemas, NEW object, object \in Instances[schema],
         NEW q \in CellPaths[schema]
  PROVE  Fits(schema, q, CellOf[<<schema, object, q>>])
<1> DEFINE Good == {n \in Nat : \A s \in Schemas : \A o \in Instances[s] : \A p \in CellPaths[s] :
                      Len(p) <= n => Fits(s, p, CellOf[<<s, o, p>>])}
<1>1. 0 \in Good
  <2> SUFFICES ASSUME NEW s \in Schemas, NEW p \in CellPaths[s], Len(p) <= 0 PROVE FALSE
    OBVIOUS
  <2>1. Len(p) >= 1 /\ p \in Seq(Nat)
    BY CellCases DEF Paths
  <2> QED BY <2>1
<1>2. ASSUME NEW n \in Good PROVE n + 1 \in Good
  <2> SUFFICES ASSUME NEW s \in Schemas, NEW o \in Instances[s], NEW p \in CellPaths[s],
                      Len(p) <= n + 1
               PROVE  Fits(s, p, CellOf[<<s, o, p>>])
    OBVIOUS
  <2>1. ASSUME NEW c, c \in Schemas, NEW e, e \in Instances[c], NEW r, r \in CellPaths[c],
               Len(r) <= n
        PROVE  Fits(c, r, CellOf[<<c, e, r>>])
    BY <2>1
  <2>2. n \in Nat
    OBVIOUS
  <2> HIDE DEF Good
  <2> DEFINE field == Fields[s][p[1]]
  <2>3. CASE field.array /\ p = <<p[1], 0>>
    <3>1. IsCount(p)
      <4>1. \A j : Len(<<j, 0>>) = 2 /\ <<j, 0>>[2] = 0
        OBVIOUS
      <4>2. Len(p) = 2 /\ p[2] = 0
        BY <2>3, <4>1
      <4> QED BY <4>2 DEF IsCount
    <3> QED BY <3>1 DEF Fits, CellFits
  <2>4. CASE \E h \in Heads(s), r \in Paths :
               h[1] = p[1] /\ r \in Of(HeadField(s, h)) /\ p = h \o r
    <3>1. PICK h \in Heads(s), r \in Paths :
               h[1] = p[1] /\ r \in Of(HeadField(s, h)) /\ p = h \o r
      BY <2>4
    <3>2. HeadField(s, h) = field /\ h \in Paths /\ Len(h) \in {1, 2}
          /\ h[1] \in DOMAIN Fields[s]
      BY <3>1, HeadIs
    <3> DEFINE e == Element(s, o, h)
    <3>3. /\ CellOf[<<s, o, h \o r>>] =
                IF HeadField(s, h).type = "STRUCT"
                THEN CellOf[<<HeadField(s, h).child, e, r>>] ELSE e
          /\ ElementTyped(HeadField(s, h), e)
      BY <3>1, HeadOf
    <3>4. FieldAt[<<s, h \o r>>] = IF HeadField(s, h).type = "STRUCT"
                                   THEN FieldAt[<<HeadField(s, h).child, r>>] ELSE HeadField(s, h)
      BY <3>1, HeadFieldAt
    <3> HIDE DEF e, field
    <3>5. CASE field.type = "STRUCT"
      <4>1. field.child \in Schemas
        BY <3>1, <3>2, <3>5, FieldParts DEF field
      <4>2. e \in Instances[field.child]
        BY <3>2, <3>3, <3>5, Zenon DEF ElementTyped, StringTypes, IntegerTypes
      <4>3. r \in CellPaths[field.child]
        BY <3>1, <3>2, <3>5 DEF Of, OfBy
      <4>4. Len(r) <= n
        <5>1. Len(p) = Len(h) + Len(r) /\ Len(r) \in Nat
          BY <3>1, <3>2, Joined DEF Paths
        <5> DEFINE x == Len(p)
                   y == Len(h)
                   z == Len(r)
        <5>2. x = y + z /\ z \in Nat /\ n \in Nat /\ x <= n + 1 /\ y \in {1, 2}
          BY <2>2, <3>2, <5>1
        <5> HIDE DEF x, y, z
        <5>3. z <= n
          BY ONLY <5>2
        <5> QED BY <5>3 DEF z
      <4>5. Fits(field.child, r, CellOf[<<field.child, e, r>>])
        BY <2>1, <4>1, <4>2, <4>3, <4>4
      <4>6. IsCount(p) <=> IsCount(r)
        <5>1. r # << >>
          <6>1. Len(r) >= 1
            BY <4>1, <4>3, CellCases
          <6> QED BY <6>1
        <5> QED BY <3>1, <3>2, <5>1, LastWithin
      <4>7. /\ CellOf[<<s, o, p>>] = CellOf[<<field.child, e, r>>]
            /\ FieldAt[<<s, p>>] = FieldAt[<<field.child, r>>]
        BY <3>1, <3>2, <3>3, <3>4, <3>5
      <4> QED BY <4>5, <4>6, <4>7 DEF Fits, CellFits
    <3>6. CASE field.type # "STRUCT"
      <4>1. CellOf[<<s, o, p>>] = e /\ FieldAt[<<s, p>>] = field /\ ElementTyped(field, e)
        BY <3>1, <3>2, <3>3, <3>4, <3>6
      <4>2. CASE field.type \in StringTypes
        <5>1. Len(e) <= field.size
          <6>1. field.type \notin IntegerTypes /\ field.type # "DOUBLE"
            BY <4>2 DEF StringTypes, IntegerTypes
          <6> QED BY <3>6, <4>1, <4>2, <6>1, Zenon DEF ElementTyped
        <5> QED BY <4>1, <4>2, <5>1 DEF Fits, CellFits
      <4>3. CASE field.type \notin StringTypes
        <5>1. InRange(field.type, e)
          <6>1. field.type \in Types
            BY <3>1, <3>2, FieldParts DEF field
          <6>2. CASE field.type = "DOUBLE"
            BY <6>2, Zenon DEF InRange
          <6>3. CASE field.type \in IntegerTypes
            BY <4>1, <6>3, Zenon DEF ElementTyped, StringTypes, IntegerTypes
          <6> QED BY <3>6, <4>3, <6>1, <6>2, <6>3 DEF Types
        <5> QED BY <4>1, <4>3, <5>1 DEF Fits, CellFits
      <4> QED BY <4>2, <4>3
    <3> QED BY <3>5, <3>6
  <2> QED BY <2>3, <2>4, CellCases
<1>3. Good = Nat
  <2> HIDE DEF Good
  <2>1. Good \in SUBSET Nat
    BY DEF Good
  <2> QED BY <1>1, <1>2, <2>1, SetInduction
<1>4. Len(q) \in Nat
  BY CellCases DEF Paths
<1>5. Len(q) \in Good
  BY <1>3, <1>4
<1> QED BY <1>4, <1>5

-----------------------------------------------------------------------------
(* What is in a field of the struct at P. *)
InField(p, P, i) == \E q \in Paths : p = P \o q /\ Len(q) >= 1 /\ q[1] = i

LEMMA Beginning ==
  ASSUME NEW p \in Paths, NEW P \in Paths, Len(P) <= Len(p), \A j \in 1..Len(P) : p[j] = P[j]
  PROVE  \E q \in Paths : p = P \o q
<1>1. p \in Seq(Nat) /\ P \in Seq(Nat) /\ Len(p) \in Nat /\ Len(P) \in Nat
  BY DEF Paths
<1> DEFINE q == SubSeq(p, Len(P) + 1, Len(p))
<1>2. q \in Seq(Nat) /\ Len(q) = Len(p) - Len(P)
      /\ \A j \in 1..(Len(p) - Len(P)) : q[j] = p[Len(P) + j]
  BY <1>1
<1> HIDE DEF q
<1>3. q \in Paths
  BY <1>2 DEF Paths
<1>4. P \o q \in Paths /\ Len(P \o q) = Len(p)
  BY <1>1, <1>2, <1>3, Joined
<1>5. ASSUME NEW j \in 1..Len(p) PROVE p[j] = (P \o q)[j]
  <2>1. CASE j <= Len(P)
    <3>1. j \in 1..Len(P)
      BY <1>1, <2>1
    <3>2. (P \o q)[j] = P[j] /\ p[j] = P[j]
      BY <1>3, <3>1, Joined
    <3> QED BY <3>2
  <2>2. CASE ~(j <= Len(P))
    <3>1. PICK k \in 1..(Len(p) - Len(P)) : j = Len(P) + k
      <4>1. j - Len(P) \in 1..(Len(p) - Len(P)) /\ j = Len(P) + (j - Len(P))
        BY <1>1, <2>2
      <4> QED BY <4>1
    <3>2. (P \o q)[Len(P) + k] = q[k]
      BY <1>2, <1>3, <3>1, Joined
    <3> QED BY <1>2, <3>1, <3>2
  <2> QED BY <2>1, <2>2
<1>6. p = P \o q
  BY <1>4, <1>5, SamePath
<1> QED BY <1>3, <1>6

\* A place with a counter at P belongs to a field there.
LEMMA CounterAt ==
  ASSUME NEW p \in Paths, NEW P \in Paths, NEW d \in Paths, NEW k, k \in 1..Len(p),
         Len(d) >= 1, Counter(p, k) = P \o d
  PROVE  /\ k = Len(P) + Len(d)
         /\ d[Len(d)] = 0
         /\ Len(d) >= 2 => InField(p, P, d[1])
<1>1. Len(P) \in Nat /\ Len(d) \in Nat /\ Len(p) \in Nat
  BY DEF Paths
<1>2. /\ Len(Counter(p, k)) = k /\ Counter(p, k)[k] = 0
      /\ \A j \in 1..(k - 1) : Counter(p, k)[j] = p[j]
  BY CounterIs
<1>3. /\ Len(P \o d) = Len(P) + Len(d)
      /\ \A j \in 1..Len(P) : (P \o d)[j] = P[j]
      /\ \A j \in 1..Len(d) : (P \o d)[Len(P) + j] = d[j]
  BY Joined
<1>4. k = Len(P) + Len(d)
  BY <1>2, <1>3
<1>5. d[Len(d)] = 0
  <2>1. Len(d) \in 1..Len(d)
    BY <1>1
  <2>2. (P \o d)[k] = d[Len(d)]
    BY <1>3, <1>4, <2>1
  <2> QED BY <1>2, <2>2
<1>6. ASSUME Len(d) >= 2 PROVE InField(p, P, d[1])
  <2>1. \A j \in 1..Len(P) : p[j] = P[j]
    <3> SUFFICES ASSUME NEW j \in 1..Len(P) PROVE p[j] = P[j]
      OBVIOUS
    <3>1. j \in 1..(k - 1)
      BY <1>1, <1>4, <1>6
    <3> QED BY <1>2, <1>3, <3>1
  <2>2. Len(P) <= Len(p) /\ Len(P) + 1 \in 1..(k - 1) /\ Len(P) + 1 <= Len(p) /\ 1 \in 1..Len(d)
    BY <1>1, <1>4, <1>6
  <2>3. p[Len(P) + 1] = d[1]
    <3>1. Counter(p, k)[Len(P) + 1] = p[Len(P) + 1] /\ (P \o d)[Len(P) + 1] = d[1]
      BY <1>2, <1>3, <2>2
    <3> QED BY <3>1
  <2>4. PICK q \in Paths : p = P \o q
    BY <2>1, <2>2, Beginning
  <2>5. Len(p) = Len(P) + Len(q) /\ Len(q) \in Nat
    BY <2>4, Joined DEF Paths
  <2>6. Len(q) >= 1
    BY <1>1, <2>2, <2>5
  <2>7. 1 \in 1..Len(q)
    BY <2>5, <2>6
  <2>8. q[1] = p[Len(P) + 1]
    BY <2>4, <2>7, Joined
  <2> QED BY <2>3, <2>4, <2>6, <2>8 DEF InField
<1> QED BY <1>4, <1>5, <1>6

LEMMA Kept ==
  ASSUME NEW mem, NEW new, DOMAIN mem \subseteq DOMAIN new, NEW schema, NEW n, NEW p,
         new[p] = mem[p],
         \A k \in DOMAIN p : k > n /\ Counter(p, k) \in DOMAIN mem =>
           new[Counter(p, k)] = mem[Counter(p, k)],
         Sound(mem, schema, n, p)
  PROVE  Sound(new, schema, n, p)
<1> SUFFICES ASSUME Live(new, n, p) PROVE Safe(new, schema, p)
  BY DEF Sound
<1>1. Live(mem, n, p)
  <2> SUFFICES ASSUME NEW k \in DOMAIN p, k > n, Counter(p, k) \in DOMAIN mem
               PROVE  p[k] <= mem[Counter(p, k)]
    BY DEF Live
  <2>1. p[k] <= new[Counter(p, k)]
    BY DEF Live
  <2> QED BY <2>1
<1>2. Safe(mem, schema, p)
  BY <1>1 DEF Sound
<1> QED BY <1>2 DEF Safe

\* What is used from farther out is used from farther in.
LEMMA Farther ==
  ASSUME NEW mem, NEW schema, NEW n \in Nat, NEW m \in Nat, m <= n, NEW p \in Paths,
         Sound(mem, schema, n, p)
  PROVE  Sound(mem, schema, m, p)
<1>1. DOMAIN p \subseteq Nat
  BY DEF Paths
<1>2. \A k \in DOMAIN p : k > n => k > m
  BY <1>1
<1> QED BY <1>2 DEF Sound, Live

-----------------------------------------------------------------------------
(* What is written, and what it leaves safe. *)

LEMMA WrittenIs ==
  ASSUME NEW mem, NEW cells
  PROVE  /\ DOMAIN Written(mem, cells) = DOMAIN mem \cup DOMAIN cells
         /\ \A p \in DOMAIN cells : Written(mem, cells)[p] = cells[p]
         /\ \A p \in DOMAIN mem \ DOMAIN cells : Written(mem, cells)[p] = mem[p]
BY DEF Written

LEMMA CellIs == ASSUME NEW p, NEW v PROVE DOMAIN Cell(p, v) = {p} /\ Cell(p, v)[p] = v
BY DEF Cell

\* A place within that of another, and where.
LEMMA PlaceAt ==
  ASSUME NEW outer, NEW P, NEW schema, Holds(outer, P, schema),
         NEW q \in Paths, P \o q \in CellPaths[outer]
  PROVE  /\ q \in CellPaths[schema] /\ q # << >>
         /\ FieldAt[<<outer, P \o q>>] = FieldAt[<<schema, q>>]
         /\ IsCount(P \o q) <=> IsCount(q)
<1>1. P \in Paths /\ schema \in Schemas /\ q \in CellPaths[schema]
  BY DEF Holds
<1>2. Len(q) >= 1
  BY <1>1, CellCases
<1>3. q # << >>
  BY <1>2
<1> QED BY <1>1, <1>3, LastWithin DEF Holds

\* The place of a scalar.
LEMMA ScalarPlace ==
  ASSUME NEW outer, NEW P, NEW schema, Holds(outer, P, schema),
         NEW h, h \in Heads(schema), HeadField(schema, h).type # "STRUCT"
  PROVE  /\ P \o h \in CellPaths[outer] /\ P \o h \in Paths
         /\ FieldAt[<<outer, P \o h>>] = HeadField(schema, h) /\ ~IsCount(P \o h)
<1>1. P \in Paths /\ schema \in Schemas /\ outer \in Schemas
  BY DEF Holds
<1>2. /\ Of(HeadField(schema, h)) = {<< >>} /\ h \o << >> = h
      /\ h \in CellPaths[schema] /\ FieldAt[<<schema, h>>] = HeadField(schema, h)
      /\ ~IsCount(h)
  BY <1>1, HeadOnly
<1>3. h \in Paths
  BY <1>1, HeadIs
<1>4. P \o h \in CellPaths[outer] /\ P \o h \in Paths
  BY <1>1, <1>2, <1>3, Joined DEF Holds
<1>5. FieldAt[<<outer, P \o h>>] = HeadField(schema, h) /\ ~IsCount(P \o h)
  BY SMTT(40), <1>2, <1>3, <1>4, PlaceAt
<1> QED BY <1>4, <1>5

Only(outer, P, h) ==
  \A r \in Paths : P \o (h \o r) \in CellPaths[outer] => P \o (h \o r) = P \o h

LEMMA ScalarOnly ==
  ASSUME NEW outer, NEW P, NEW schema, Holds(outer, P, schema),
         NEW h, h \in Heads(schema), HeadField(schema, h).type # "STRUCT"
  PROVE  Only(outer, P, h)
<1>1. P \in Paths /\ schema \in Schemas /\ h \in Paths
  BY HeadIs DEF Holds
<1>2. ASSUME NEW r \in Paths, P \o (h \o r) \in CellPaths[outer]
      PROVE  P \o (h \o r) = P \o h
  <2>1. h \o r \in Paths
    BY <1>1, Joined
  <2>2. h \o r \in CellPaths[schema]
    BY <1>2, <2>1, PlaceAt
  <2>3. r \in Of(HeadField(schema, h))
    BY <1>1, <2>2, HeadCells
  <2> QED BY <1>1, <2>3, HeadOnly
<1> QED BY <1>2 DEF Only

LEMMA ScalarWritten ==
  ASSUME NEW outer, NEW w \in Paths, ~IsCount(w), NEW v,
         ScalarSafe(FieldAt[<<outer, w>>], v),
         NEW mem, NEW new, new = Written(mem, Cell(w, v)), DOMAIN mem \subseteq Paths
  PROVE  /\ DOMAIN new = DOMAIN mem \cup {w} /\ Fits(outer, w, new[w])
         /\ \A p \in DOMAIN mem \ {w} : new[p] = mem[p]
         /\ \A n \in Nat, p \in DOMAIN new :
              p = w \/ Sound(mem, outer, n, p) => Sound(new, outer, n, p)
<1>1. /\ DOMAIN new = DOMAIN mem \cup {w} /\ new[w] = v
      /\ \A p \in DOMAIN mem \ {w} : new[p] = mem[p]
  <2> DEFINE cells == Cell(w, v)
  <2>1. DOMAIN cells = {w} /\ cells[w] = v
    BY CellIs
  <2> HIDE DEF cells
  <2>2. /\ DOMAIN new = DOMAIN mem \cup DOMAIN cells
        /\ \A p \in DOMAIN cells : new[p] = cells[p]
        /\ \A p \in DOMAIN mem \ DOMAIN cells : new[p] = mem[p]
    <3>1. new = Written(mem, cells)
      BY DEF cells
    <3> QED BY <3>1 DEF Written
  <2> QED BY <2>1, <2>2
<1>2. Fits(outer, w, v) /\ Safe(new, outer, w)
  BY <1>1 DEF Fits, CellFits, Safe, ScalarSafe, ScalarFits
<1>3. ASSUME NEW n \in Nat, NEW p \in DOMAIN new, p # w, Sound(mem, outer, n, p)
      PROVE  Sound(new, outer, n, p)
  <2>1. p \in Paths /\ new[p] = mem[p] /\ DOMAIN mem \subseteq DOMAIN new
    BY <1>1, <1>3
  <2>2. ASSUME NEW k \in DOMAIN p, k > n, Counter(p, k) \in DOMAIN mem
        PROVE  new[Counter(p, k)] = mem[Counter(p, k)]
    <3>1. k \in 1..Len(p)
      BY <2>1 DEF Paths
    <3>2. IsCount(Counter(p, k))
      BY <2>1, <3>1, CounterIs DEF IsCount
    <3>3. Counter(p, k) # w
      BY <3>2
    <3> QED BY <1>1, <2>2, <3>3
  <2> QED BY <1>3, <2>1, <2>2, Kept
<1>4. \A n \in Nat : Sound(new, outer, n, w)
  BY <1>2 DEF Sound
<1> QED BY <1>1, <1>2, <1>3, <1>4

\* The place of a count.
LEMMA CountPlace ==
  ASSUME NEW outer, NEW P, NEW schema, Holds(outer, P, schema),
         NEW i, i \in DOMAIN Fields[schema], Fields[schema][i].array
  PROVE  /\ CountAt(P, i) \in CellPaths[outer] /\ CountAt(P, i) \in Paths
         /\ FieldAt[<<outer, CountAt(P, i)>>] = Fields[schema][i] /\ IsCount(CountAt(P, i))
         /\ \A k \in Nat : ItemPath(CountAt(P, i), k) = ItemAt(P, i, k)
<1>1. P \in Paths /\ schema \in Schemas /\ outer \in Schemas /\ i \in Nat
  BY FieldParts DEF Holds
<1>2. <<i, 0>> \in CellPaths[schema] /\ FieldAt[<<schema, <<i, 0>>>>] = Fields[schema][i]
  BY <1>1, CountCell, CountField
<1>3. /\ <<i>> \in Paths /\ <<i, 0>> \in Paths
      /\ \A j \in Nat : <<i>> \o <<j>> = <<i, j>> /\ <<i, j>> \in Paths
  BY <1>1, Pair
<1> DEFINE d == <<i, 0>>
<1>4. d \in Paths /\ d \in CellPaths[schema] /\ FieldAt[<<schema, d>>] = Fields[schema][i]
      /\ CountAt(P, i) = P \o d
  BY <1>2, <1>3 DEF CountAt
<1>5. IsCount(d) /\ d # << >> /\ d = <<i>> \o <<0>>
  BY <1>3 DEF IsCount
<1> HIDE DEF d
<1>6. P \o d \in CellPaths[outer] /\ P \o d \in Paths
  BY <1>1, <1>4, Joined DEF Holds
<1>7. FieldAt[<<outer, P \o d>>] = Fields[schema][i] /\ IsCount(P \o d)
  <2>1. FieldAt[<<outer, P \o d>>] = FieldAt[<<schema, d>>]
    BY <1>4 DEF Holds
  <2>2. IsCount(P \o d) <=> IsCount(d)
    BY <1>1, <1>4, <1>5, LastWithin
  <2> QED BY <1>4, <1>5, <2>1, <2>2
<1>8. ASSUME NEW k \in Nat PROVE ItemPath(P \o d, k) = ItemAt(P, i, k)
  <2>1. ItemPath(P \o d, k) = P \o ItemPath(d, k)
    BY <1>1, <1>4, <1>5, ItemPathWithin
  <2>2. ItemPath(<<i>> \o <<0>>, k) = <<i>> \o <<k>>
    BY <1>3, ItemPathIs
  <2>3. <<i>> \o <<k>> = <<i, k>>
    BY <1>3
  <2> QED BY <1>5, <2>1, <2>2, <2>3 DEF ItemAt
<1> QED BY <1>4, <1>6, <1>7, <1>8

LEMMA CounterOfArray ==
  ASSUME NEW p, NEW k, NEW P, NEW i, p \in Paths, P \in Paths, i \in Nat, k \in 1..Len(p),
         Counter(p, k) = CountAt(P, i)
  PROVE  k = Len(P) + 2 /\ InField(p, P, i)
<1>1. /\ <<i, 0>> \in Paths /\ Len(<<i, 0>>) = 2 /\ <<i, 0>>[1] = i
  BY Pair
<1> DEFINE d == <<i, 0>>
<1>2. d \in Paths /\ Len(d) = 2 /\ d[1] = i /\ Counter(p, k) = P \o d
  BY <1>1 DEF CountAt
<1> HIDE DEF d
<1>3. Len(d) >= 2 /\ Len(d) >= 1
  BY <1>2
<1>4. Counter(p, k) = P \o d /\ d \in Paths /\ p \in Paths /\ P \in Paths /\ k \in 1..Len(p)
  BY <1>2
<1>5. k = Len(P) + Len(d) /\ InField(p, P, d[1])
  BY ONLY <1>3, <1>4, CounterAt
<1> QED BY <1>2, <1>5

ItemsDone(mem, outer, P, schema, i, n) ==
  /\ Fields[schema][i].type # "STRUCT" => \A k \in 1..n : ItemAt(P, i, k) \in DOMAIN mem
  /\ \A k \in 1..n : \A r \in Paths : ItemAt(P, i, k) \o r \in DOMAIN mem =>
       Sound(mem, outer, Len(P) + 2, ItemAt(P, i, k) \o r)
WithCount(mem, P, i, n) == Written(mem, Cell(CountAt(P, i), n))
\* What was safe to read is, and what is in a field.
Settled(mem, new, outer, P, i) ==
  \A m \in Nat : m <= Len(P) => \A p \in DOMAIN new :
    InField(p, P, i) \/ Sound(mem, outer, m, p) => Sound(new, outer, m, p)

LEMMA CountWritten ==
  ASSUME NEW outer, NEW P, NEW schema, Holds(outer, P, schema),
         NEW i, i \in DOMAIN Fields[schema], Fields[schema][i].array,
         NEW n \in Nat, n <= Fields[schema][i].capacity,
         NEW mem, DOMAIN mem \subseteq CellPaths[outer], ItemsDone(mem, outer, P, schema, i, n)
  PROVE  Settled(mem, WithCount(mem, P, i, n), outer, P, i)
<1> DEFINE new == WithCount(mem, P, i, n)
           c == CountAt(P, i)
<1>a. new = Written(mem, Cell(c, n))
  BY DEF WithCount
<1>b. /\ Fields[schema][i].type # "STRUCT" => \A k \in 1..n : ItemAt(P, i, k) \in DOMAIN mem
      /\ \A k \in 1..n : \A r \in Paths : ItemAt(P, i, k) \o r \in DOMAIN mem =>
           Sound(mem, outer, Len(P) + 2, ItemAt(P, i, k) \o r)
  BY DEF ItemsDone
<1> HIDE DEF new
<1>1. P \in Paths /\ schema \in Schemas /\ outer \in Schemas /\ Len(P) \in Nat
      /\ i \in DOMAIN Fields[schema] /\ i \in Nat
  BY FieldParts DEF Holds, Paths
<1>2. /\ c \in CellPaths[outer] /\ c \in Paths
      /\ FieldAt[<<outer, c>>] = Fields[schema][i] /\ IsCount(c)
      /\ \A k \in Nat : ItemPath(c, k) = ItemAt(P, i, k)
  BY CountPlace
<1>3. /\ DOMAIN new = DOMAIN mem \cup {c} /\ new[c] = n
      /\ \A p \in DOMAIN mem \ {c} : new[p] = mem[p]
  <2> DEFINE cells == Cell(c, n)
  <2>1. DOMAIN cells = {c} /\ cells[c] = n
    BY CellIs
  <2> HIDE DEF cells
  <2>2. /\ DOMAIN new = DOMAIN mem \cup DOMAIN cells
        /\ \A p \in DOMAIN cells : new[p] = cells[p]
        /\ \A p \in DOMAIN mem \ DOMAIN cells : new[p] = mem[p]
    <3>1. new = Written(mem, cells)
      BY <1>a DEF cells
    <3> QED BY <3>1 DEF Written
  <2> QED BY <2>1, <2>2
<1>4. DOMAIN new \subseteq CellPaths[outer] /\ CellPaths[outer] \subseteq Paths
  BY <1>1, <1>2, <1>3, CellPathsIs
<1>5. <<i, 0>> \in Paths /\ Len(<<i, 0>>) = 2 /\ <<i, 0>>[1] = i
  BY <1>1, Pair
<1>6. Safe(new, outer, c)
  <2>1. ASSUME Fields[schema][i].type # "STRUCT", NEW k \in 1..n
        PROVE  ItemPath(c, k) \in DOMAIN new
    <3>1. ItemPath(c, k) = ItemAt(P, i, k) /\ ItemAt(P, i, k) \in DOMAIN mem
      BY <1>b, <1>2, <2>1
    <3> QED BY <1>3, <3>1
  <2> HIDE DEF c
  <2> QED BY <1>2, <1>3, <2>1 DEF Safe
<1> HIDE DEF c
\* The counters of a place are not this one, when it is elsewhere or far in.
<1>7. ASSUME NEW p \in DOMAIN mem, p # c, NEW l \in Nat,
             l >= Len(P) + 2 \/ ~InField(p, P, i), Sound(mem, outer, l, p)
      PROVE  Sound(new, outer, l, p)
  <2>1. p \in Paths /\ new[p] = mem[p] /\ DOMAIN mem \subseteq DOMAIN new
    BY <1>3, <1>4, <1>7
  <2>2. ASSUME NEW k \in DOMAIN p, k > l, Counter(p, k) \in DOMAIN mem
        PROVE  new[Counter(p, k)] = mem[Counter(p, k)]
    <3>1. k \in 1..Len(p)
      BY <2>1 DEF Paths
    <3>2. Counter(p, k) # c
      <4> SUFFICES ASSUME Counter(p, k) = CountAt(P, i) PROVE FALSE
        BY DEF c
      <4>1. k = Len(P) + 2 /\ InField(p, P, i)
        BY <1>1, <2>1, <3>1, CounterOfArray
      <4> QED BY <1>1, <1>7, <2>2, <4>1
    <3> QED BY <1>3, <2>2, <3>2
  <2> QED BY <1>7, <2>1, <2>2, Kept
<1>8. ASSUME NEW m \in Nat, m <= Len(P), NEW p \in DOMAIN new, InField(p, P, i), p # c
      PROVE  Sound(new, outer, m, p)
  <2>1. PICK q \in Paths : p = P \o q /\ Len(q) >= 1 /\ q[1] = i
    BY <1>8 DEF InField
  <2>2. q \in CellPaths[schema] /\ p \in DOMAIN mem
    BY <1>3, <1>4, <1>8, <2>1, PlaceAt
  <2>3. PICK h \in Heads(schema), r \in Paths :
          h[1] = i /\ r \in Of(HeadField(schema, h)) /\ q = h \o r
    <3>1. q # <<i, 0>>
      BY <1>8, <2>1 DEF c, CountAt
    <3> QED BY <1>1, <2>1, <2>2, <3>1, CellCases
  <2>4. /\ HeadField(schema, h) = Fields[schema][i] /\ HeadField(schema, h).array
        /\ h = <<i, h[2]>> /\ h[2] \in 1..Fields[schema][i].capacity
    <3>1. /\ HeadField(schema, h) = Fields[schema][h[1]]
          /\ h = IF HeadField(schema, h).array THEN <<h[1], h[2]>> ELSE <<h[1]>>
          /\ HeadField(schema, h).array <=> Len(h) = 2
          /\ Len(h) = 2 => h[2] \in 1..HeadField(schema, h).capacity
      BY <1>1, <2>3, HeadIs
    <3> QED BY <2>3, <3>1
  <2>5. CASE h[2] <= n
    <3>1. h[2] \in 1..n
      BY <2>4, <2>5
    <3>2. ItemAt(P, i, h[2]) \o r = p
      <4>1. h \in Paths
        BY <1>1, <2>3, HeadIs
      <4>2. (P \o h) \o r = P \o (h \o r)
        BY SMTT(40), <1>1, <2>3, <4>1, Regroup
      <4>3. ItemAt(P, i, h[2]) = P \o h
        BY <2>4 DEF ItemAt
      <4> QED BY <2>1, <2>3, <4>2, <4>3
    <3>3. Sound(mem, outer, Len(P) + 2, p)
      BY <1>b, <2>2, <2>3, <3>1, <3>2
    <3>4. Len(P) + 2 \in Nat /\ Len(P) + 2 >= Len(P) + 2 /\ m <= Len(P) + 2
      BY <1>1, <1>8
    <3>5. Sound(new, outer, Len(P) + 2, p)
      BY <1>7, <1>8, <2>2, <3>3, <3>4
    <3> QED BY <1>4, <3>4, <3>5, Farther
  <2>6. CASE ~(h[2] <= n)
    <3>1. CountAt(P, h[1]) = c
      BY <2>3 DEF c
    <3>2. CountAt(P, h[1]) \in DOMAIN new /\ ~(h[2] <= new[CountAt(P, h[1])])
      BY <1>3, <2>6, <3>1
    <3>3. m <= Len(P) + 1
      BY <1>1, <1>8
    <3>4. ~Live(new, m, P \o (h \o r))
      BY <1>1, <2>3, <2>4, <3>2, <3>3, BehindCount
    <3> QED BY <2>1, <2>3, <3>4 DEF Sound
  <2> QED BY <2>5, <2>6
<1>9. ASSUME NEW m \in Nat, m <= Len(P), NEW p \in DOMAIN new,
             InField(p, P, i) \/ Sound(mem, outer, m, p)
      PROVE  Sound(new, outer, m, p)
  <2>1. CASE p = c
    BY <1>6, <2>1 DEF Sound
  <2>2. CASE p # c /\ InField(p, P, i)
    BY <1>8, <1>9, <2>2
  <2>3. CASE p # c /\ ~InField(p, P, i)
    BY <1>3, <1>7, <1>9, <2>3
  <2> QED BY <2>1, <2>2, <2>3
<1> QED BY <1>9 DEF Settled, new

-----------------------------------------------------------------------------
(* Defaults: their places. *)

Initialisable(schema) ==
  /\ Len(Fields[schema]) <= MAX_FIELDS
  /\ \A i \in DOMAIN Fields[schema] : kason_schema_validate_default(Fields[schema][i])
IsDefault(schema, d) == \E i \in DefaultsOf(schema) : d \in DefaultPaths(i, Fields[schema][i])

LEMMA OneHead ==
  ASSUME NEW schema \in Schemas, NEW i, i \in DOMAIN Fields[schema], ~Fields[schema][i].array
  PROVE  /\ <<i>> \in Heads(schema) /\ <<i>> \in Paths /\ Len(<<i>>) = 1 /\ <<i>>[1] = i
         /\ HeadField(schema, <<i>>) = Fields[schema][i]
         /\ \A h \in Heads(schema) : h[1] = i => h = <<i>>
<1>1. i \in Nat
  BY FieldParts
<1>2. <<i>> \in Paths /\ Len(<<i>>) = 1 /\ <<i>>[1] = i
  BY <1>1, Pair
<1>3. <<i>> \in Heads(schema) /\ HeadField(schema, <<i>>) = Fields[schema][i]
  BY <1>2 DEF Heads, HeadField
<1>4. ASSUME NEW h \in Heads(schema), h[1] = i PROVE h = <<i>>
  <2>1. /\ HeadField(schema, h) = Fields[schema][h[1]]
        /\ h = IF HeadField(schema, h).array THEN <<h[1], h[2]>> ELSE <<h[1]>>
    BY HeadIs
  <2> QED BY <1>4, <2>1
<1> QED BY <1>2, <1>3, <1>4

LEMMA DefaultPlace ==
  ASSUME NEW schema \in Schemas, NEW i, i \in DefaultsOf(schema),
         NEW d, d \in DefaultPaths(i, Fields[schema][i])
  PROVE  d \in CellPaths[schema] /\ d \in Paths /\ Len(d) >= 1 /\ d[1] = i
<1> DEFINE field == Fields[schema][i]
<1>1. i \in DOMAIN Fields[schema] /\ i \in Nat
  BY FieldParts DEF DefaultsOf
<1>2. CASE field.array
  <2>1. d = <<i, 0>>
    BY <1>2 DEF DefaultPaths
  <2>2. <<i, 0>> \in CellPaths[schema] /\ <<i, 0>> \in Paths
    BY <1>1, <1>2, CountCell, Pair
  <2>3. \A a : Len(<<a, 0>>) >= 1 /\ <<a, 0>>[1] = a
    OBVIOUS
  <2> QED BY <2>1, <2>2, <2>3
<1>3. CASE ~field.array /\ field.type = "STRUCT"
  <2>1. PICK q \in CellPaths[field.child] \cap Seq(Nat) : d = <<i>> \o q
    <3> HIDE DEF field
    <3>1. DefaultPaths(i, field) = Under(<<i>>, CellPaths[field.child])
      BY <1>3 DEF DefaultPaths
    <3>2. d \in Under(<<i>>, CellPaths[field.child])
      BY <3>1 DEF field
    <3> QED BY <3>2 DEF Under
  <2>2. /\ <<i>> \in Heads(schema) /\ <<i>> \in Paths /\ <<i>>[1] = i /\ 1 \in 1..Len(<<i>>)
        /\ HeadField(schema, <<i>>) = field
    BY <1>1, <1>3, OneHead
  <2>3. q \in Paths /\ q \in Of(HeadField(schema, <<i>>))
    BY <1>3, <2>1, <2>2 DEF Paths, Of, OfBy
  <2>4. <<i>> \o q \in CellPaths[schema]
    BY <2>2, <2>3, HeadCells
  <2>5. (<<i>> \o q)[1] = <<i>>[1] /\ Len(<<i>> \o q) = Len(<<i>>) + Len(q)
        /\ <<i>> \o q \in Paths /\ Len(q) \in Nat
    BY <2>2, <2>3, Joined DEF Paths
  <2> QED BY <2>1, <2>2, <2>4, <2>5
<1>4. CASE ~field.array /\ field.type # "STRUCT"
  <2>1. d = <<i>>
    BY <1>4 DEF DefaultPaths
  <2>2. /\ <<i>> \in Heads(schema) /\ <<i>> \in Paths /\ HeadField(schema, <<i>>) = field
    BY <1>1, <1>4, OneHead
  <2>3. <<i>> \in CellPaths[schema]
    BY <1>4, <2>2, HeadOnly
  <2>4. \A a : Len(<<a>>) >= 1 /\ <<a>>[1] = a
    OBVIOUS
  <2> QED BY <2>1, <2>2, <2>3, <2>4
<1> QED BY <1>2, <1>3, <1>4

LEMMA DefaultsAre ==
  ASSUME NEW schema \in Schemas, NEW P \in Paths
  PROVE  /\ \A p : p \in DOMAIN Defaults(schema, P) <=>
                     \E d \in Paths : IsDefault(schema, d) /\ p = P \o d
         /\ \A d \in Paths : IsDefault(schema, d) =>
              Defaults(schema, P)[P \o d] = DefaultAt(Fields[schema][d[1]], Tail(d))
<1> DEFINE D == UNION {Under(P, DefaultPaths(i, Fields[schema][i])) : i \in DefaultsOf(schema)}
           FieldAtPlace(p) == DefaultAt(Fields[schema][Head(Below(P, p))], Tail(Below(P, p)))
<1>1. Defaults(schema, P) = [p \in D |-> FieldAtPlace(p)]
  BY DEF Defaults
<1>2. ASSUME NEW p
      PROVE  p \in D <=> \E d \in Paths : IsDefault(schema, d) /\ p = P \o d
  <2>1. p \in D <=> \E i \in DefaultsOf(schema) :
                      \E d \in DefaultPaths(i, Fields[schema][i]) \cap Seq(Nat) : p = P \o d
    BY DEF Under
  <2> QED BY <2>1 DEF IsDefault, Paths
<1>3. ASSUME NEW d \in Paths, IsDefault(schema, d)
      PROVE  FieldAtPlace(P \o d) = DefaultAt(Fields[schema][d[1]], Tail(d)) /\ P \o d \in D
  <2>1. PICK i \in DefaultsOf(schema) : d \in DefaultPaths(i, Fields[schema][i])
    BY <1>3 DEF IsDefault
  <2>2. Len(d) >= 1 /\ d \in Seq(Nat)
    BY <2>1, DefaultPlace DEF Paths
  <2>3. Below(P, P \o d) = d
    <3>1. Len(P \o d) = Len(P) + Len(d) /\ Len(P) \in Nat /\ Len(d) \in Nat
          /\ \A k \in 1..Len(d) : (P \o d)[Len(P) + k] = d[k]
      BY Joined DEF Paths
    <3>2. P \o d \in Seq(Nat)
      BY Joined DEF Paths
    <3> DEFINE x == P \o d
               b == SubSeq(x, Len(P) + 1, Len(x))
    <3>3. x \in Seq(Nat) /\ Len(x) = Len(P) + Len(d)
          /\ \A k \in 1..Len(d) : x[Len(P) + k] = d[k]
      BY <3>1, <3>2
    <3> HIDE DEF x
    <3>4. b \in Paths /\ Len(b) = Len(d) /\ \A k \in 1..Len(d) : b[k] = x[Len(P) + k]
      <4>1. \A n, m \in Nat : \A y \in Seq(Nat) : Len(y) = n + m =>
              /\ SubSeq(y, n + 1, Len(y)) \in Seq(Nat) /\ Len(SubSeq(y, n + 1, Len(y))) = m
              /\ \A k \in 1..m : SubSeq(y, n + 1, Len(y))[k] = y[n + k]
        OBVIOUS
      <4> QED BY <3>1, <3>3, <4>1 DEF Paths
    <3> HIDE DEF b
    <3>5. \A k \in 1..Len(b) : b[k] = d[k]
      BY <3>3, <3>4
    <3>6. b = d
      BY <3>4, <3>5, SamePath
    <3> QED BY <3>6 DEF Below, b, x
  <2>4. Head(d) = d[1]
    BY <2>2
  <2> HIDE DEF D
  <2>5. P \o d \in D
    BY <1>2, <1>3
  <2> QED BY <2>3, <2>4, <2>5
<1> HIDE DEF D, FieldAtPlace
<1>4. DOMAIN Defaults(schema, P) = D /\ \A p \in D : Defaults(schema, P)[p] = FieldAtPlace(p)
  BY <1>1
<1> QED BY <1>2, <1>3, <1>4

\* What a default is, by the type of its field.
LEMMA DefaultCount ==
  ASSUME NEW schema \in Schemas, NEW i, i \in DefaultsOf(schema), Fields[schema][i].array,
         NEW P \in Paths
  PROVE  /\ CountAt(P, i) \in DOMAIN Defaults(schema, P)
         /\ Defaults(schema, P)[CountAt(P, i)] = 0
<1>1. i \in DOMAIN Fields[schema] /\ i \in Nat
  BY FieldParts DEF DefaultsOf
<1> DEFINE d == <<i, 0>>
<1>2. d \in Paths /\ d[1] = i
  BY <1>1, Pair
<1>3. IsDefault(schema, d)
  <2>1. d \in DefaultPaths(i, Fields[schema][i])
    BY DEF DefaultPaths
  <2> HIDE DEF d
  <2> QED BY <2>1 DEF IsDefault
<1> HIDE DEF d
<1>4. /\ P \o d \in DOMAIN Defaults(schema, P)
      /\ Defaults(schema, P)[P \o d] = DefaultAt(Fields[schema][d[1]], Tail(d))
  BY <1>2, <1>3, DefaultsAre
<1>5. DefaultAt(Fields[schema][i], Tail(d)) = 0
  BY DEF DefaultAt
<1>6. CountAt(P, i) = P \o d
  BY DEF CountAt, d
<1> QED BY <1>2, <1>4, <1>5, <1>6

LEMMA DefaultStruct ==
  ASSUME NEW schema \in Schemas, NEW i, i \in DefaultsOf(schema), ~Fields[schema][i].array,
         Fields[schema][i].type = "STRUCT", NEW P \in Paths,
         NEW q, q \in CellPaths[Fields[schema][i].child]
  PROVE  /\ (P \o <<i>>) \o q \in DOMAIN Defaults(schema, P)
         /\ Defaults(schema, P)[(P \o <<i>>) \o q] =
              CellOf[<<Fields[schema][i].child, Fields[schema][i].default, q>>]
<1> DEFINE field == Fields[schema][i]
           d == <<i>> \o q
<1>1. i \in DOMAIN Fields[schema] /\ i \in Nat /\ field.child \in Schemas
  BY FieldParts DEF DefaultsOf
<1>2. q \in Paths /\ q \in Seq(Nat)
  BY <1>1, CellPathsIs DEF Paths
<1>3. <<i>> \in Paths /\ Len(<<i>>) = 1 /\ <<i>>[1] = i
  BY <1>1, Pair
<1>4. d \in DefaultPaths(i, field)
  <2> HIDE DEF field
  <2>1. DefaultPaths(i, field) = Under(<<i>>, CellPaths[field.child])
    BY DEF DefaultPaths, field
  <2>2. d \in Under(<<i>>, CellPaths[field.child])
    BY <1>2 DEF Under, field
  <2> QED BY <2>1, <2>2
<1>5. d \in Paths /\ d[1] = i /\ Tail(d) = q
  <2>1. \A a \in Nat : Tail(<<a>> \o q) = q
    BY <1>2
  <2>2. d \in Paths /\ d[1] = i
    BY <1>4, DefaultPlace
  <2> QED BY <1>1, <2>1, <2>2
<1>6. (P \o <<i>>) \o q = P \o d
  BY <1>2, <1>3, Regroup
<1> HIDE DEF d
<1>7. IsDefault(schema, d)
  BY <1>4 DEF IsDefault
<1>8. /\ P \o d \in DOMAIN Defaults(schema, P)
      /\ Defaults(schema, P)[P \o d] = DefaultAt(field, q)
  BY <1>5, <1>7, DefaultsAre
<1>9. DefaultAt(field, q) = CellOf[<<field.child, field.default, q>>]
  BY DEF DefaultAt
<1> QED BY <1>6, <1>8, <1>9

LEMMA DefaultScalar ==
  ASSUME NEW schema \in Schemas, NEW i, i \in DefaultsOf(schema), ~Fields[schema][i].array,
         Fields[schema][i].type # "STRUCT", NEW P \in Paths,
         kason_schema_validate_default(Fields[schema][i])
  PROVE  /\ P \o <<i>> \in DOMAIN Defaults(schema, P)
         /\ ScalarSafe(Fields[schema][i], Defaults(schema, P)[P \o <<i>>])
<1> DEFINE field == Fields[schema][i]
           d == <<i>>
<1>1. i \in DOMAIN Fields[schema] /\ i \in Nat /\ field.policy = "DEFAULT"
      /\ FieldTyped(field)
  BY FieldIs, FieldParts DEF DefaultsOf, HasDefault
<1>2. d \in Paths /\ d[1] = i
  BY <1>1, Pair
<1>3. IsDefault(schema, d)
  <2>1. d \in DefaultPaths(i, Fields[schema][i])
    BY DEF DefaultPaths
  <2> HIDE DEF d
  <2> QED BY <2>1 DEF IsDefault
<1> HIDE DEF d, field
<1>4. /\ P \o d \in DOMAIN Defaults(schema, P)
      /\ Defaults(schema, P)[P \o d] = DefaultAt(field, Tail(d))
  BY <1>2, <1>3, DefaultsAre DEF field
<1> DEFINE v == DefaultAt(field, Tail(d))
<1>5. CASE field.type \in StringTypes
  <2>1. v = Append(field.default, 0)
    BY <1>5 DEF DefaultAt, field
  <2>2. field.default \in Seq(Unit(field.type))
    BY <1>1, <1>5 DEF FieldTyped, field
  <2>3. DefaultFits(field)
    <3>1. field.type # "STRUCT"
      BY DEF field
    <3>2. kason_schema_validate_default(field) /\ ~field.array
      BY DEF field
    <3> QED BY <1>1, <1>5, <3>1, <3>2, Zenon DEF kason_schema_validate_default
  <2>4. Len(field.default) < field.size /\ field.size \in Nat
    BY <1>1, <2>3 DEF DefaultFits, FieldTyped
  <2> DEFINE s == field.default
             u == Append(s, 0)
  <2>5. s \in Seq(Unit(field.type))
    BY <2>2
  <2> HIDE DEF s
  <2>6. Len(u) = Len(s) + 1 /\ Len(s) \in Nat /\ u[Len(s) + 1] = 0
        /\ DOMAIN u = 1..(Len(s) + 1)
    BY <2>5
  <2> HIDE DEF u
  <2>7. Terminated(u)
    BY <2>6 DEF Terminated
  <2>8. Len(u) <= field.size
    BY <2>4, <2>6 DEF s
  <2> HIDE DEF v
  <2>9. v = u
    BY <2>1 DEF v, u, s
  <2> QED BY <1>4, <1>5, <2>7, <2>8, <2>9 DEF ScalarSafe, ScalarFits, v, d, field
<1>6. CASE field.type \notin StringTypes
  <2>1. v = field.default
    BY <1>6 DEF DefaultAt, field
  <2>2. InRange(field.type, field.default)
    <3>1. field.type # "STRUCT" /\ kason_schema_validate_default(field) /\ ~field.array
      BY DEF field
    <3> QED BY <1>1, <1>6, <3>1, Zenon DEF kason_schema_validate_default
  <2> QED BY <1>4, <1>6, <2>1, <2>2 DEF ScalarSafe, ScalarFits, d, field
<1> QED BY <1>5, <1>6

-----------------------------------------------------------------------------
(* Defaults: what is written is safe. *)

\* A default struct: it is a struct of its schema, and one that is valid.
LEMMA DefaultObject ==
  ASSUME NEW schema \in Schemas, NEW i, i \in DefaultsOf(schema), ~Fields[schema][i].array,
         Fields[schema][i].type = "STRUCT", kason_schema_validate_default(Fields[schema][i])
  PROVE  /\ Fields[schema][i].child \in Schemas
         /\ Fields[schema][i].default \in Instances[Fields[schema][i].child]
         /\ <<Fields[schema][i].child, Fields[schema][i].default, 0>> \in StructsAt
         /\ kason_schema_object_valid[<<Fields[schema][i].child, Fields[schema][i].default, 0>>]
<1> DEFINE field == Fields[schema][i]
<1>1. FieldTyped(field) /\ field.policy = "DEFAULT" /\ field.child \in Schemas
  BY FieldIs, FieldParts DEF DefaultsOf, HasDefault
<1>2. field.default \in Instances[field.child]
  BY <1>1 DEF FieldTyped
<1>3. field.default \in Structs
  BY <1>1, <1>2, ObjectsAssumption
<1>4. <<field.child, field.default, 0>> \in StructsAt
  BY <1>1, <1>2, <1>3 DEF StructsAt
<1>5. kason_schema_object_valid[<<field.child, field.default, 0>>]
  <2>1. kason_schema_validate_default(field) /\ field.policy = "DEFAULT" /\ ~field.array
        /\ field.type = "STRUCT"
    BY <1>1
  <2>2. field.type \notin StringTypes
    BY <2>1 DEF StringTypes
  <2> HIDE DEF field
  <2> QED BY <2>1, <2>2, ZenonT(30) DEF kason_schema_validate_default
<1> QED BY <1>1, <1>2, <1>4, <1>5

LEMMA MemberPlace ==
  ASSUME NEW outer, NEW P, NEW schema, Holds(outer, P, schema),
         NEW i, i \in DOMAIN Fields[schema], ~Fields[schema][i].array,
         Fields[schema][i].type # "STRUCT"
  PROVE  /\ FieldAt[<<outer, P \o <<i>>>>] = Fields[schema][i]
         /\ ~IsCount(P \o <<i>>)
<1> DEFINE h == <<i>>
<1>1. schema \in Schemas
  BY DEF Holds
<1>2. h \in Heads(schema)
  BY <1>1, OneHead
<1>3. HeadField(schema, h) = Fields[schema][i]
  BY <1>1, OneHead
<1>4. HeadField(schema, h).type # "STRUCT"
  BY <1>3
<1> HIDE DEF h
<1>5. FieldAt[<<outer, P \o h>>] = HeadField(schema, h)
  BY <1>2, <1>4, ScalarPlace
<1>6. ~IsCount(P \o h)
  BY <1>2, <1>4, ScalarPlace
<1> QED BY <1>3, <1>5, <1>6 DEF h

LEMMA DefaultsFit ==
  ASSUME NEW outer, NEW P, NEW schema, Holds(outer, P, schema), Initialisable(schema),
         NEW p, p \in DOMAIN Defaults(schema, P)
  PROVE  p \in CellPaths[outer] /\ Fits(outer, p, Defaults(schema, P)[p])
<1> DEFINE v == Defaults(schema, P)[p]
<1>1. P \in Paths /\ schema \in Schemas /\ outer \in Schemas
  BY DEF Holds
<1>2. PICK d \in Paths : IsDefault(schema, d) /\ p = P \o d
  BY <1>1, DefaultsAre
<1>3. PICK i \in DefaultsOf(schema) : d \in DefaultPaths(i, Fields[schema][i])
  BY <1>2 DEF IsDefault
<1>4. i \in DOMAIN Fields[schema] /\ kason_schema_validate_default(Fields[schema][i])
      /\ i \in Nat
  BY <1>1, FieldParts DEF DefaultsOf, Initialisable
<1>5. p \in CellPaths[outer]
  <2>1. d \in CellPaths[schema]
    BY <1>1, <1>3, DefaultPlace
  <2> QED BY <1>2, <2>1 DEF Holds
<1> DEFINE field == Fields[schema][i]
<1> HIDE DEF v
<1>6. CASE field.array
  <2>1. d = <<i, 0>>
    BY <1>3, <1>6 DEF DefaultPaths
  <2>2. p = CountAt(P, i)
    BY <1>2, <2>1 DEF CountAt
  <2>3. IsCount(p)
    BY <1>4, <1>6, <2>2, CountPlace
  <2> QED BY <1>5, <2>3 DEF Fits, CellFits
<1>7. CASE ~field.array /\ field.type = "STRUCT"
  <2>1. PICK q \in CellPaths[field.child] \cap Seq(Nat) : d = <<i>> \o q
    <3> HIDE DEF field
    <3>1. DefaultPaths(i, field) = Under(<<i>>, CellPaths[field.child])
      BY <1>7 DEF DefaultPaths
    <3>2. d \in Under(<<i>>, CellPaths[field.child])
      BY <1>3, <3>1 DEF field
    <3> QED BY <3>2 DEF Under
  <2>2. /\ <<i>> \in Heads(schema) /\ <<i>> \in Paths /\ HeadField(schema, <<i>>) = field
    BY <1>1, <1>4, <1>7, OneHead
  <2>3. q \in Paths
    BY <2>1 DEF Paths
  <2>4. p = (P \o <<i>>) \o q
    BY SMTT(40), <1>1, <1>2, <2>1, <2>2, <2>3, Regroup
  <2>5. v = CellOf[<<field.child, field.default, q>>]
    BY SMTT(40), <1>1, <1>7, <2>1, <2>4, DefaultStruct DEF v
  <2>6. Holds(outer, P \o <<i>>, field.child)
    BY <1>7, <2>2, HoldsWithin
  <2>7. field.child \in Schemas /\ field.default \in Instances[field.child]
    BY <1>1, <1>4, <1>7, DefaultObject
  <2>8. Fits(field.child, q, v)
    <3> HIDE DEF field
    <3> QED BY <2>1, <2>5, <2>7, ObjectFits
  <2>9. FieldAt[<<outer, p>>] = FieldAt[<<field.child, q>>] /\ (IsCount(p) <=> IsCount(q))
    <3> HIDE DEF field
    <3> DEFINE R == P \o <<i>>
    <3>1. R \o q \in CellPaths[outer] /\ Holds(outer, R, field.child)
      BY <1>5, <2>4, <2>6
    <3>0. p = R \o q
      BY <2>4
    <3> HIDE DEF R
    <3> DEFINE child == field.child
    <3>2. R \o q \in CellPaths[outer] /\ Holds(outer, R, child) /\ q \in Paths
      BY <2>3, <3>1
    <3> HIDE DEF child
    <3>3. FieldAt[<<outer, R \o q>>] = FieldAt[<<child, q>>]
      <4>1. q \in CellPaths[child]
        BY ONLY <3>2, PlaceAt
      <4> QED BY ONLY <3>2, <4>1 DEF Holds
    <3>4. IsCount(R \o q) <=> IsCount(q)
      BY ONLY <3>2, PlaceAt
    <3> QED BY <3>0, <3>3, <3>4 DEF child
  <2>10. Fits(outer, p, v)
    BY <2>8, <2>9 DEF Fits, CellFits
  <2> QED BY <1>5, <2>10 DEF v
<1>8. CASE ~field.array /\ field.type # "STRUCT"
  <2>1. d = <<i>>
    BY <1>3, <1>8 DEF DefaultPaths
  <2>2. /\ <<i>> \in Heads(schema) /\ HeadField(schema, <<i>>) = field
    BY <1>1, <1>4, <1>8, OneHead
  <2>3. ScalarSafe(field, v)
    BY <1>1, <1>2, <1>4, <1>8, <2>1, DefaultScalar DEF v
  <2>0. /\ Holds(outer, P, schema) /\ i \in DOMAIN Fields[schema]
        /\ ~Fields[schema][i].array /\ Fields[schema][i].type # "STRUCT"
    BY <1>4, <1>8
  <2>4. FieldAt[<<outer, P \o <<i>>>>] = Fields[schema][i] /\ ~IsCount(P \o <<i>>)
    BY ONLY <2>0, MemberPlace
  <2>5. FieldAt[<<outer, p>>] = field
    BY <1>2, <2>1, <2>4
  <2> HIDE DEF field
  <2>6. Fits(outer, p, v)
    BY <2>3, <2>5 DEF Fits, CellFits, ScalarSafe, ScalarFits
  <2> QED BY <1>5, <2>6 DEF v
<1> QED BY <1>6, <1>7, <1>8

\* Every place of a field with a default is read only when it is safe.
LEMMA DefaultSafe ==
  ASSUME NEW outer, NEW P, NEW schema, Holds(outer, P, schema), Initialisable(schema),
         NEW new, DOMAIN Defaults(schema, P) \subseteq DOMAIN new,
         \A p \in DOMAIN Defaults(schema, P) : new[p] = Defaults(schema, P)[p],
         NEW m \in Nat, m <= Len(P),
         NEW i, i \in DefaultsOf(schema),
         NEW p, p \in CellPaths[outer], InField(p, P, i)
  PROVE  Sound(new, outer, m, p)
<1> DEFINE field == Fields[schema][i]
<1>1. P \in Paths /\ schema \in Schemas /\ outer \in Schemas /\ Len(P) \in Nat
  BY DEF Holds, Paths
<1>2. i \in DOMAIN field \/ i \in DOMAIN Fields[schema]
  BY DEF DefaultsOf
<1>3. i \in DOMAIN Fields[schema] /\ kason_schema_validate_default(field)
  BY DEF DefaultsOf, Initialisable
<1>4. i \in Nat
  BY <1>1, <1>3, FieldParts
<1>5. PICK q \in Paths : p = P \o q /\ Len(q) >= 1 /\ q[1] = i
  BY DEF InField
<1>6. q \in CellPaths[schema]
  BY <1>5, PlaceAt
<1>7. CASE field.array
  <2>1. CountAt(P, i) \in DOMAIN new /\ new[CountAt(P, i)] = 0
    BY <1>1, <1>7, DefaultCount
  <2>2. CASE q = <<i, 0>>
    <3>1. p = CountAt(P, i)
      BY <1>5, <2>2 DEF CountAt
    <3>2. FieldAt[<<outer, p>>] = field /\ IsCount(p)
      BY <1>3, <1>7, <3>1, CountPlace
    <3>3. field.capacity \in Nat
      BY <1>1, <1>3, FieldParts
    <3>4. new[p] = 0
      BY <2>1, <3>1
    <3> HIDE DEF field
    <3>5. Safe(new, outer, p)
      BY <3>2, <3>3, <3>4 DEF Safe
    <3> QED BY <3>5 DEF Sound
  <2>3. CASE q # <<i, 0>>
    <3>1. PICK h \in Heads(schema), r \in Paths :
            h[1] = i /\ r \in Of(HeadField(schema, h)) /\ q = h \o r
      BY <1>1, <1>5, <1>6, <2>3, CellCases
    <3>2. /\ HeadField(schema, h) = field /\ HeadField(schema, h).array
          /\ h[2] \in 1..field.capacity
      <4>1. /\ HeadField(schema, h) = Fields[schema][h[1]]
            /\ HeadField(schema, h).array <=> Len(h) = 2
            /\ Len(h) = 2 => h[2] \in 1..HeadField(schema, h).capacity
        BY <1>1, <3>1, HeadIs
      <4> QED BY <1>7, <3>1, <4>1
    <3>3. ~(h[2] <= 0)
      BY <3>2
    <3>4. CountAt(P, h[1]) \in DOMAIN new /\ ~(h[2] <= new[CountAt(P, h[1])])
      BY <2>1, <3>1, <3>3
    <3>5. m <= Len(P) + 1
      BY <1>1
    <3>6. ~Live(new, m, P \o (h \o r))
      BY <1>1, <3>1, <3>2, <3>4, <3>5, BehindCount
    <3> QED BY <1>5, <3>1, <3>6 DEF Sound
  <2> QED BY <2>2, <2>3
<1>8. CASE ~field.array
  <2>1. /\ <<i>> \in Heads(schema) /\ <<i>> \in Paths /\ HeadField(schema, <<i>>) = field
        /\ \A h \in Heads(schema) : h[1] = i => h = <<i>>
        /\ Len(<<i>>) \in Nat
    BY <1>1, <1>3, <1>8, OneHead
  <2>2. PICK r \in Paths : r \in Of(field) /\ q = <<i>> \o r
    <3>1. \E h \in Heads(schema), r \in Paths :
            h[1] = q[1] /\ r \in Of(HeadField(schema, h)) /\ q = h \o r
      BY <1>1, <1>5, <1>6, <1>8, CellCases
    <3> QED BY <1>5, <2>1, <3>1
  <2>3. CASE field.type = "STRUCT"
    <3> DEFINE c == field.child
               o == field.default
               inner == MemoryOf(c, o)
    <3>1. /\ c \in Schemas /\ <<c, o, 0>> \in StructsAt
          /\ kason_schema_object_valid[<<c, o, 0>>]
      BY <1>1, <1>3, <1>8, <2>3, DefaultObject
    <3>2. r \in CellPaths[c]
      BY <2>2, <2>3 DEF Of, OfBy
    <3>3. Sound(inner, c, 0, r)
      <4> HIDE DEF c, o
      <4>1. <<c, o, 0>>[1] = c /\ <<c, o, 0>>[2] = o
        OBVIOUS
      <4>2. \A at \in StructsAt : kason_schema_object_valid[at] =>
              \A t \in CellPaths[at[1]] : Sound(MemoryOf(at[1], at[2]), at[1], 0, t)
        BY ObjectSafe
      <4> QED BY <3>1, <3>2, <4>1, <4>2
    <3>4. Holds(outer, P \o <<i>>, c)
      BY <2>1, <2>3, HoldsWithin
    <3>5. DOMAIN inner = CellPaths[c] /\ \A t \in CellPaths[c] : inner[t] = CellOf[<<c, o, t>>]
      BY DEF MemoryOf
    <3>6. ASSUME NEW t \in CellPaths[c]
          PROVE  (P \o <<i>>) \o t \in DOMAIN new /\ new[(P \o <<i>>) \o t] = inner[t]
      <4>1. /\ (P \o <<i>>) \o t \in DOMAIN Defaults(schema, P)
            /\ Defaults(schema, P)[(P \o <<i>>) \o t] = CellOf[<<c, o, t>>]
        BY <1>1, <1>8, <2>3, DefaultStruct
      <4> HIDE DEF c, o, inner, field
      <4> QED BY <3>5, <4>1
    <3>7. m <= Len(P \o <<i>>)
      <4>1. Len(P \o <<i>>) = Len(P) + Len(<<i>>)
        BY <1>1, <2>1, Joined
      <4> QED BY <1>1, <2>1, <4>1
    <3> HIDE DEF c, o, inner, field
    <3>8. Sound(new, outer, m, (P \o <<i>>) \o r)
      BY <3>2, <3>3, <3>4, <3>5, <3>6, <3>7, Copied
    <3>9. (P \o <<i>>) \o r = p
      BY <1>1, <1>5, <2>1, <2>2, Regroup
    <3> QED BY <3>8, <3>9
  <2>4. CASE field.type # "STRUCT"
    <3>1. r = << >> /\ <<i>> \o << >> = <<i>>
      BY <1>1, <2>1, <2>2, <2>4, HeadOnly
    <3>2. p = P \o <<i>>
      BY <1>5, <2>2, <3>1
    <3>3. FieldAt[<<outer, P \o <<i>>>>] = field /\ ~IsCount(P \o <<i>>)
      BY <1>1, <1>3, <1>8, <2>4, MemberPlace
    <3>4. ScalarSafe(field, new[P \o <<i>>])
      BY <1>1, <1>3, <1>8, <2>4, DefaultScalar
    <3> HIDE DEF field
    <3>5. Safe(new, outer, p)
      BY <3>2, <3>3, <3>4 DEF Safe, ScalarSafe
    <3> QED BY <3>5 DEF Sound
  <2> QED BY <2>3, <2>4
<1> QED BY <1>7, <1>8

LEMMA DefaultsWritten ==
  ASSUME NEW outer, NEW P, NEW schema, Holds(outer, P, schema), Initialisable(schema),
         NEW mem, DOMAIN mem \subseteq CellPaths[outer],
         NEW new, new = Written(mem, Defaults(schema, P))
  PROVE  /\ DOMAIN mem \subseteq DOMAIN new /\ DOMAIN new \subseteq CellPaths[outer]
         /\ \A p \in DOMAIN new :
              (p \in DOMAIN mem /\ new[p] = mem[p]) \/ Fits(outer, p, new[p])
         /\ \A p \in DOMAIN new \ DOMAIN mem : \E i \in DefaultsOf(schema) : InField(p, P, i)
         /\ \A m \in Nat : m <= Len(P) => \A p \in DOMAIN new :
              \/ \E i \in DefaultsOf(schema) : InField(p, P, i)
              \/ p \in DOMAIN mem /\ Sound(mem, outer, m, p)
              => Sound(new, outer, m, p)
<1>1. P \in Paths /\ schema \in Schemas /\ outer \in Schemas /\ Len(P) \in Nat
  BY DEF Holds, Paths
<1> DEFINE cells == Defaults(schema, P)
<1>2. ASSUME NEW p, p \in DOMAIN cells PROVE p \in CellPaths[outer] /\ Fits(outer, p, cells[p])
  BY <1>2, DefaultsFit
<1>3. ASSUME NEW p, p \in DOMAIN cells
      PROVE  \E i \in DefaultsOf(schema) : InField(p, P, i)
  <2>1. PICK d \in Paths : IsDefault(schema, d) /\ p = P \o d
    <3>1. \A x : x \in DOMAIN Defaults(schema, P) <=> \E d \in Paths : IsDefault(schema, d) /\ x = P \o d
      BY <1>1, DefaultsAre
    <3> QED BY <1>3, <3>1
  <2>2. PICK i \in DefaultsOf(schema) : d \in DefaultPaths(i, Fields[schema][i])
    BY <2>1 DEF IsDefault
  <2>3. Len(d) >= 1 /\ d[1] = i
    BY <1>1, <2>2, DefaultPlace
  <2> QED BY <2>1, <2>2, <2>3 DEF InField
<1> HIDE DEF cells
<1>4. /\ DOMAIN new = DOMAIN mem \cup DOMAIN cells
      /\ \A p \in DOMAIN cells : new[p] = cells[p]
      /\ \A p \in DOMAIN mem \ DOMAIN cells : new[p] = mem[p]
  <2>1. new = Written(mem, cells)
    BY DEF cells
  <2> QED BY <2>1 DEF Written
<1>5. DOMAIN new \subseteq CellPaths[outer] /\ CellPaths[outer] \subseteq Paths
  BY <1>1, <1>2, <1>4, CellPathsIs
<1>6. ASSUME NEW p \in DOMAIN new
      PROVE  (p \in DOMAIN mem /\ new[p] = mem[p]) \/ Fits(outer, p, new[p])
  BY <1>2, <1>4
<1>7. ASSUME NEW m \in Nat, m <= Len(P), NEW p \in DOMAIN new,
             NEW i \in DefaultsOf(schema), InField(p, P, i)
      PROVE  Sound(new, outer, m, p)
  <2>1. DOMAIN Defaults(schema, P) \subseteq DOMAIN new
    BY <1>4 DEF cells
  <2>2. \A x \in DOMAIN Defaults(schema, P) : new[x] = Defaults(schema, P)[x]
    BY <1>4 DEF cells
  <2>3. p \in CellPaths[outer]
    BY <1>5
  <2> QED BY <1>7, <2>1, <2>2, <2>3, DefaultSafe
<1>8. ASSUME NEW m \in Nat, m <= Len(P), NEW p \in DOMAIN new,
             ~\E i \in DefaultsOf(schema) : InField(p, P, i),
             Sound(mem, outer, m, p)
      PROVE  Sound(new, outer, m, p)
  <2>1. p \notin DOMAIN cells
    BY <1>3, <1>8
  <2>2. p \in Paths /\ new[p] = mem[p] /\ DOMAIN mem \subseteq DOMAIN new
    BY <1>4, <1>5, <2>1
  <2>3. ASSUME NEW k \in DOMAIN p, k > m, Counter(p, k) \in DOMAIN mem
        PROVE  new[Counter(p, k)] = mem[Counter(p, k)]
    <3>1. k \in 1..Len(p)
      BY <2>2 DEF Paths
    <3>2. Counter(p, k) \notin DOMAIN cells
      <4> SUFFICES ASSUME Counter(p, k) \in DOMAIN cells PROVE FALSE
        OBVIOUS
      <4>1. PICK d \in Paths : IsDefault(schema, d) /\ Counter(p, k) = P \o d
        <5>1. \A x : x \in DOMAIN Defaults(schema, P) <=> \E d \in Paths : IsDefault(schema, d) /\ x = P \o d
          BY <1>1, DefaultsAre
        <5>2. Counter(p, k) \in DOMAIN Defaults(schema, P)
          BY DEF cells
        <5> DEFINE x == Counter(p, k)
        <5>3. x \in DOMAIN Defaults(schema, P)
          BY <5>2
        <5> HIDE DEF x
        <5>4. \E d \in Paths : IsDefault(schema, d) /\ x = P \o d
          BY ONLY <5>1, <5>3
        <5> QED BY <5>4 DEF x
      <4>2. PICK i \in DefaultsOf(schema) : d \in DefaultPaths(i, Fields[schema][i])
        BY <4>1 DEF IsDefault
      <4>3. Len(d) >= 1 /\ d[1] = i /\ i >= 1 /\ i \in Nat /\ Len(d) \in Nat
        BY <1>1, <4>2, DefaultPlace, FieldParts DEF DefaultsOf, Paths
      <4>4. Len(d) >= 1 /\ Counter(p, k) = P \o d /\ d \in Paths
        BY <4>1, <4>3
      <4>5. d[Len(d)] = 0 /\ (Len(d) >= 2 => InField(p, P, d[1]))
        BY ONLY <1>1, <2>2, <3>1, <4>4, CounterAt
      <4>6. CASE Len(d) >= 2
        BY <1>8, <4>3, <4>5, <4>6
      <4>7. CASE Len(d) < 2
        <5> DEFINE n == Len(d)
        <5>1. n \in Nat /\ n >= 1 /\ n < 2 /\ d[n] = 0 /\ d[1] = i /\ i >= 1 /\ i \in Nat
          BY <4>3, <4>5, <4>7
        <5> HIDE DEF n
        <5>2. n = 1
          BY ONLY <5>1
        <5> QED BY ONLY <5>1, <5>2
      <4> QED BY <4>3, <4>6, <4>7
    <3> QED BY <1>4, <2>3, <3>2
  <2> QED BY <1>8, <2>2, <2>3, Kept
<1>9. ASSUME NEW m \in Nat, m <= Len(P), NEW p \in DOMAIN new,
             \/ \E i \in DefaultsOf(schema) : InField(p, P, i)
             \/ p \in DOMAIN mem /\ Sound(mem, outer, m, p)
      PROVE  Sound(new, outer, m, p)
  BY <1>7, <1>8, <1>9
<1>10. DOMAIN mem \subseteq DOMAIN new
  BY <1>4
<1>11. \A p \in DOMAIN new \ DOMAIN mem : \E i \in DefaultsOf(schema) : InField(p, P, i)
  BY <1>3, <1>4
<1> QED BY <1>5, <1>6, <1>9, <1>10, <1>11

-----------------------------------------------------------------------------
(* The invariant. *)

\* n is the length of the document.
ValueWithin(n, value) ==
  value \in Values /\ (value.type # "INVALID" =>
                         value.begin >= 1 /\ value.end \in 0..n /\ value.at >= 1)
RunWithin(n, r) ==
  /\ r \in Run /\ r.ptr >= 1 /\ r.last \in 0..n
  /\ r.key # << >> => Head(r.key).begin >= 1 /\ Head(r.key).end \in 0..n

Frames == [schema : Schemas, path : Paths, depth : Nat, array : Nat, run : Run,
           found : Nat, count : Nat, field : Nat, value : Values]
FrameIs(n, outer, f) ==
  /\ f \in Frames /\ Initialisable(f.schema) /\ Holds(outer, f.path, f.schema)
  /\ RunWithin(n, f.run)
  /\ InArray(f) => /\ f.array \in DOMAIN Fields[f.schema] /\ Fields[f.schema][f.array].array
                   /\ f.count <= Fields[f.schema][f.array].capacity

\* A frame at a value, for which another one may be begun.
Stands(n, g) ==
  /\ g.field \in DOMAIN Fields[g.schema]
  /\ ValueWithin(n, g.value) /\ g.value.type # "INVALID"
  /\ IF InArray(g) THEN g.field = g.array /\ g.count < FieldOf(g).capacity
     ELSE ~Has(g.found, g.field)
Within(f, g) ==
  IF InArray(f)
  THEN f.path = g.path /\ f.schema = g.schema /\ f.array = g.field /\ ~InArray(g)
  ELSE /\ f.path = PathOf(g) /\ f.schema = FieldOf(g).child
       /\ FieldOf(g).type = "STRUCT" /\ (FieldOf(g).array => InArray(g))
\* How far from the root the places are that a frame has finished.
Level(f) == Len(f.path) + (IF InArray(f) THEN 2 ELSE 0)
Around(n, outer, f, rest) ==
  /\ rest \in Seq(Frames)
  /\ \A k \in DOMAIN rest :
       /\ FrameIs(n, outer, rest[k]) /\ Stands(n, rest[k])
       /\ Level(rest[k]) <= Len(f.path)
  /\ \A j, k \in DOMAIN rest : j < k => Level(rest[k]) <= Len(rest[j].path)
  /\ \A k \in 1..(Len(rest) - 1) : Within(rest[k], rest[k + 1])
  /\ rest # << >> => Within(f, rest[1])
  /\ InArray(f) => rest # << >>
  /\ \A k \in DOMAIN rest : InArray(rest[k]) => k < Len(rest)

\* What a frame has finished is read only when it is safe.
FieldDone(f, i) == i \in DefaultsOf(f.schema) \/ Has(f.found, i)
ObjectSound(mem, outer, f) ==
  \A p \in DOMAIN mem, i \in DOMAIN Fields[f.schema] :
    FieldDone(f, i) /\ InField(p, f.path, i) => Sound(mem, outer, Len(f.path), p)
ItemsSound(mem, outer, f) ==
  /\ Fields[f.schema][f.array].type # "STRUCT" =>
       \A k \in 1..f.count : ItemAt(f.path, f.array, k) \in DOMAIN mem
  /\ \A k \in 1..f.count, r \in Paths :
       ItemAt(f.path, f.array, k) \o r \in DOMAIN mem =>
         Sound(mem, outer, Len(f.path) + 2, ItemAt(f.path, f.array, k) \o r)
FrameSound(mem, outer, f) ==
  IF InArray(f) THEN ItemsSound(mem, outer, f) ELSE ObjectSound(mem, outer, f)

MemoryIsSound(mem, outer) ==
  \A p \in DOMAIN mem :
    p \in CellPaths[outer] /\ Fits(outer, p, mem[p]) /\ Sound(mem, outer, 0, p)
StackIs(n, mem, outer, f, rest) ==
  /\ outer \in Schemas /\ FrameIs(n, outer, f) /\ Around(n, outer, f, rest)
  /\ FrameSound(mem, outer, f) /\ \A k \in DOMAIN rest : FrameSound(mem, outer, rest[k])

UnpackInv ==
  /\ doc \in Seq(Byte) /\ setup \in Seq(Schemas)
  /\ \A schema \in initialized : schema \in Schemas /\ Initialisable(schema)
  /\ output = << >> \/ job.schema \in Schemas
  /\ MemoryIsSound(output, job.schema)
  /\ frames = << >> <=> call # "unpacking"
  /\ frames # << >> => /\ frames \in Seq(Frames)
                       /\ StackIs(Len(doc), output, job.schema, frames[1], Tail(frames))

-----------------------------------------------------------------------------
(* What a frame says is kept. *)

LEMMA RunWithinIs ==
  ASSUME NEW r PROVE RunWithin(Len(doc), r) <=> RunInRange(r)
BY DEF RunWithin, RunInRange, KeyInside

LEMMA ValueWithinIs ==
  ASSUME NEW value PROVE ValueWithin(Len(doc), value) <=> ValueInRange(value)
BY DEF ValueWithin, ValueInRange, Inside

LEMMA LevelIs ==
  ASSUME NEW f \in Frames
  PROVE  /\ Level(f) \in Nat /\ Len(f.path) \in Nat /\ Len(f.path) <= Level(f)
         /\ Level(f) = IF InArray(f) THEN Len(f.path) + 2 ELSE Len(f.path)
<1>1. Len(f.path) \in Nat
  BY DEF Frames, Paths
<1> DEFINE x == Len(f.path)
<1> HIDE DEF x
<1>2. Level(f) = x + (IF InArray(f) THEN 2 ELSE 0)
  BY DEF Level, x
<1>3. x \in Nat
  BY <1>1 DEF x
<1>4. CASE InArray(f)
  <2>1. Level(f) = x + 2
    BY <1>2, <1>4
  <2> QED BY <1>3, <1>4, <2>1 DEF x
<1>5. CASE ~InArray(f)
  <2>1. Level(f) = x + 0
    BY <1>2, <1>5
  <2> QED BY <1>3, <1>5, <2>1 DEF x
<1> QED BY <1>4, <1>5

\* What is around a frame depends on where it is only.
LEMMA SameAround ==
  ASSUME NEW n, NEW outer, NEW f, NEW rest, Around(n, outer, f, rest), NEW g,
         g.path = f.path, g.schema = f.schema, g.array = f.array
  PROVE  Around(n, outer, g, rest)
<1>1. rest # << >> => Within(g, rest[1])
  BY DEF Around, Within, InArray
<1>2. InArray(g) <=> InArray(f)
  BY DEF InArray
<1> QED BY <1>1, <1>2 DEF Around

LEMMA PopAround ==
  ASSUME NEW n, NEW outer, NEW f, NEW rest, Around(n, outer, f, rest), rest # << >>
  PROVE  /\ FrameIs(n, outer, rest[1]) /\ Stands(n, rest[1]) /\ Within(f, rest[1])
         /\ Around(n, outer, rest[1], Tail(rest))
         /\ 1 \in DOMAIN rest /\ Level(rest[1]) <= Len(f.path)
         /\ \A k \in DOMAIN Tail(rest) : k + 1 \in DOMAIN rest /\ Tail(rest)[k] = rest[k + 1]
<1>1. rest \in Seq(Frames) /\ Len(rest) \in Nat /\ Len(rest) >= 1
  BY DEF Around
<1> DEFINE t == Tail(rest)
<1>2. /\ t \in Seq(Frames) /\ Len(t) = Len(rest) - 1 /\ DOMAIN t = 1..(Len(rest) - 1)
      /\ \A k \in DOMAIN t : t[k] = rest[k + 1]
  BY <1>1
<1>3. DOMAIN rest = 1..Len(rest)
  BY <1>1
<1> HIDE DEF t
<1>4. \A k \in DOMAIN t : k + 1 \in DOMAIN rest /\ t[k] = rest[k + 1] /\ 1 < k + 1
  BY <1>1, <1>2, <1>3
<1>5. 1 \in DOMAIN rest
  BY <1>1, <1>3
<1>6. \A k \in DOMAIN t :
        FrameIs(n, outer, t[k]) /\ Stands(n, t[k]) /\ Level(t[k]) <= Len(rest[1].path)
  BY <1>4, <1>5 DEF Around
<1>7. \A j, k \in DOMAIN t : j < k => Level(t[k]) <= Len(t[j].path)
  <2> SUFFICES ASSUME NEW j \in DOMAIN t, NEW k \in DOMAIN t, j < k
               PROVE  Level(t[k]) <= Len(t[j].path)
    OBVIOUS
  <2>1. j + 1 < k + 1 /\ j + 1 \in DOMAIN rest /\ k + 1 \in DOMAIN rest
    BY <1>1, <1>2, <1>4
  <2> QED BY <1>4, <2>1 DEF Around
<1>8. \A k \in 1..(Len(t) - 1) : Within(t[k], t[k + 1])
  <2> SUFFICES ASSUME NEW k \in 1..(Len(t) - 1) PROVE Within(t[k], t[k + 1])
    OBVIOUS
  <2>1. /\ k \in DOMAIN t /\ k + 1 \in DOMAIN t
        /\ k + 1 \in 1..(Len(rest) - 1)
    BY <1>1, <1>2
  <2>2. Within(rest[k + 1], rest[(k + 1) + 1])
    BY <2>1 DEF Around
  <2> QED BY <1>4, <2>1, <2>2
<1>9. t # << >> => Within(rest[1], t[1])
  <2> SUFFICES ASSUME t # << >> PROVE Within(rest[1], t[1])
    OBVIOUS
  <2>1. 1 \in DOMAIN t /\ 1 \in 1..(Len(rest) - 1)
    BY <1>1, <1>2
  <2>2. Within(rest[1], rest[1 + 1])
    BY <2>1 DEF Around
  <2> QED BY <1>4, <2>1, <2>2
<1>11. InArray(rest[1]) => t # << >>
  <2>1. InArray(rest[1]) => 1 < Len(rest)
    BY <1>5 DEF Around
  <2> QED BY <1>1, <1>2, <2>1
<1>12. \A k \in DOMAIN t : InArray(t[k]) => k < Len(t)
  <2> SUFFICES ASSUME NEW k \in DOMAIN t, InArray(t[k]) PROVE k < Len(t)
    OBVIOUS
  <2>1. k + 1 \in DOMAIN rest /\ t[k] = rest[k + 1]
    BY <1>4
  <2>2. k + 1 < Len(rest)
    BY <2>1 DEF Around
  <2> QED BY <1>1, <1>2, <2>2
<1>10. Around(n, outer, rest[1], t)
  BY <1>2, <1>6, <1>7, <1>8, <1>9, <1>11, <1>12 DEF Around
<1> QED BY <1>4, <1>5, <1>10 DEF Around, t

LEMMA PushAround ==
  ASSUME NEW n, NEW outer, NEW g, NEW rest, Around(n, outer, g, rest),
         FrameIs(n, outer, g), Stands(n, g),
         NEW f \in Frames, Within(f, g), Level(g) <= Len(f.path)
  PROVE  /\ Around(n, outer, f, <<g>> \o rest)
         /\ \A k \in DOMAIN (<<g>> \o rest) :
              (<<g>> \o rest)[k] = g \/ \E j \in DOMAIN rest : (<<g>> \o rest)[k] = rest[j]
<1>1. rest \in Seq(Frames) /\ Len(rest) \in Nat /\ DOMAIN rest = 1..Len(rest) /\ g \in Frames
  BY DEF Around, FrameIs
<1> DEFINE s == <<g>> \o rest
<1>2. /\ s \in Seq(Frames) /\ Len(s) = Len(rest) + 1 /\ DOMAIN s = 1..(Len(rest) + 1)
      /\ s[1] = g /\ \A k \in 2..(Len(rest) + 1) : s[k] = rest[k - 1]
  BY <1>1
<1> HIDE DEF s
<1>3. \A k \in DOMAIN s : k = 1 \/ (k - 1 \in DOMAIN rest /\ s[k] = rest[k - 1] /\ k > 1)
  BY <1>1, <1>2
<1>4. Len(g.path) <= Level(g) /\ Len(g.path) \in Nat /\ Level(g) \in Nat /\ Len(f.path) \in Nat
  BY <1>1, LevelIs
<1>5. \A k \in DOMAIN rest : Level(rest[k]) \in Nat /\ Level(rest[k]) <= Len(g.path)
  BY <1>1, LevelIs DEF Around
<1>6. \A k \in DOMAIN s :
        FrameIs(n, outer, s[k]) /\ Stands(n, s[k]) /\ Level(s[k]) <= Len(f.path)
  <2> SUFFICES ASSUME NEW k \in DOMAIN s
               PROVE  FrameIs(n, outer, s[k]) /\ Stands(n, s[k]) /\ Level(s[k]) <= Len(f.path)
    OBVIOUS
  <2>1. CASE k = 1
    BY <1>2, <2>1
  <2>2. CASE k # 1
    <3>1. k - 1 \in DOMAIN rest /\ s[k] = rest[k - 1]
      BY <1>3, <2>2
    <3>2. Level(rest[k - 1]) <= Len(f.path)
      BY <1>4, <1>5, <3>1
    <3> QED BY <3>1, <3>2 DEF Around
  <2> QED BY <2>1, <2>2
<1>7. \A j, k \in DOMAIN s : j < k => Level(s[k]) <= Len(s[j].path)
  <2> SUFFICES ASSUME NEW j \in DOMAIN s, NEW k \in DOMAIN s, j < k
               PROVE  Level(s[k]) <= Len(s[j].path)
    OBVIOUS
  <2>1. j \in Nat /\ k \in Nat /\ j >= 1 /\ k # 1
    BY <1>1, <1>2
  <2>2. k - 1 \in DOMAIN rest /\ s[k] = rest[k - 1]
    BY <1>3, <2>1
  <2>3. CASE j = 1
    BY <1>2, <1>5, <2>2, <2>3
  <2>4. CASE j # 1
    <3>1. j - 1 \in DOMAIN rest /\ s[j] = rest[j - 1] /\ j - 1 < k - 1
      BY <1>3, <2>1, <2>4
    <3> QED BY <2>2, <3>1 DEF Around
  <2> QED BY <2>3, <2>4
<1>8. \A k \in 1..(Len(s) - 1) : Within(s[k], s[k + 1])
  <2> SUFFICES ASSUME NEW k \in 1..(Len(s) - 1) PROVE Within(s[k], s[k + 1])
    OBVIOUS
  <2>1. k \in Nat /\ k >= 1 /\ k <= Len(rest) /\ s[k + 1] = rest[k]
    BY <1>1, <1>2
  <2>2. CASE k = 1
    <3>1. rest # << >> /\ s[1] = g /\ s[k + 1] = rest[1]
      BY <1>1, <1>2, <2>1, <2>2
    <3> QED BY <2>2, <3>1 DEF Around
  <2>3. CASE k # 1
    <3> DEFINE j == k - 1
    <3>1. j \in 1..(Len(rest) - 1) /\ s[k] = rest[j] /\ s[k + 1] = rest[j + 1]
      BY <1>1, <1>2, <2>1, <2>3
    <3> HIDE DEF j
    <3>2. Within(rest[j], rest[j + 1])
      BY <3>1 DEF Around
    <3> QED BY <3>1, <3>2
  <2> QED BY <2>2, <2>3
<1>11. s # << >>
  BY <1>1, <1>2
<1>12. \A k \in DOMAIN s : InArray(s[k]) => k < Len(s)
  <2> SUFFICES ASSUME NEW k \in DOMAIN s, InArray(s[k]) PROVE k < Len(s)
    OBVIOUS
  <2>1. CASE k = 1
    <3>1. rest # << >>
      BY <1>2, <2>1 DEF Around
    <3> QED BY <1>1, <1>2, <2>1, <3>1
  <2>2. CASE k # 1
    <3>1. k - 1 \in DOMAIN rest /\ s[k] = rest[k - 1]
      BY <1>3, <2>2
    <3>2. k - 1 < Len(rest)
      BY <3>1 DEF Around
    <3> QED BY <1>1, <1>2, <3>2
  <2> QED BY <2>1, <2>2
<1>9. Around(n, outer, f, s)
  BY <1>2, <1>6, <1>7, <1>8, <1>11, <1>12 DEF Around
<1>10. \A k \in DOMAIN s : s[k] = g \/ \E j \in DOMAIN rest : s[k] = rest[j]
  BY <1>2, <1>3
<1> QED BY <1>9, <1>10 DEF s

Keeps(mem, new, outer, m) ==
  /\ DOMAIN mem \subseteq DOMAIN new
  /\ \A p \in DOMAIN new : p \notin DOMAIN mem \/ Sound(mem, outer, m, p) => Sound(new, outer, m, p)

\* A frame that has finished no more than it had.
LEMMA FrameKept ==
  ASSUME NEW mem, NEW new, NEW outer, NEW f \in Frames, FrameSound(mem, outer, f),
         Keeps(mem, new, outer, Level(f))
  PROVE  FrameSound(new, outer, f)
<1>1. CASE InArray(f)
  <2>1. Level(f) = Len(f.path) + 2
    BY <1>1, LevelIs
  <2>2. ItemsSound(mem, outer, f)
    BY <1>1 DEF FrameSound
  <2>3. ItemsSound(new, outer, f)
    BY <2>1, <2>2 DEF ItemsSound, Keeps
  <2> QED BY <1>1, <2>3 DEF FrameSound
<1>2. CASE ~InArray(f)
  <2>1. Level(f) = Len(f.path)
    BY <1>2, LevelIs
  <2>2. ObjectSound(mem, outer, f)
    BY <1>2 DEF FrameSound
  <2>3. ObjectSound(new, outer, f)
    BY <2>1, <2>2 DEF ObjectSound, Keeps
  <2> QED BY <1>2, <2>3 DEF FrameSound
<1> QED BY <1>1, <1>2

LEMMA RestKept ==
  ASSUME NEW n, NEW mem, NEW new, NEW outer, NEW f \in Frames, NEW rest,
         Around(n, outer, f, rest),
         \A k \in DOMAIN rest : FrameSound(mem, outer, rest[k]),
         \A m \in Nat : m <= Len(f.path) => Keeps(mem, new, outer, m)
  PROVE  \A k \in DOMAIN rest : FrameSound(new, outer, rest[k])
<1> SUFFICES ASSUME NEW k \in DOMAIN rest PROVE FrameSound(new, outer, rest[k])
  OBVIOUS
<1>1. rest[k] \in Frames /\ Level(rest[k]) <= Len(f.path)
  BY DEF Around, FrameIs
<1>2. Level(rest[k]) \in Nat
  BY <1>1, LevelIs
<1>3. Keeps(mem, new, outer, Level(rest[k]))
  BY <1>1, <1>2
<1> QED BY <1>1, <1>3, FrameKept

\* A frame that stands elsewhere, or whose run went on.
Moved(f, g) ==
  /\ g \in Frames /\ g.schema = f.schema /\ g.path = f.path /\ g.array = f.array
  /\ g.found = f.found /\ g.count = f.count

LEMMA MovedStack ==
  ASSUME NEW n, NEW mem, NEW outer, NEW f, NEW rest, StackIs(n, mem, outer, f, rest),
         NEW g, Moved(f, g), RunWithin(n, g.run)
  PROVE  StackIs(n, mem, outer, g, rest)
<1>1. g.path = f.path /\ g.schema = f.schema /\ g.array = f.array
  BY DEF Moved
<1>2. Around(n, outer, g, rest)
  BY <1>1, SameAround DEF StackIs
<1>3. FrameIs(n, outer, g)
  BY DEF StackIs, FrameIs, Moved, InArray
<1>4. FrameSound(mem, outer, g)
  BY DEF StackIs, FrameSound, Moved, InArray, ItemsSound, ObjectSound, FieldDone
<1> QED BY <1>2, <1>3, <1>4 DEF StackIs

-----------------------------------------------------------------------------
(* A frame goes on after the value at which it stands. *)

\* The head of the place for the value at which a frame stands.
NextHead(g) == IF InArray(g) THEN <<g.array, g.count + 1>> ELSE <<g.field>>

LEMMA NextHeadIs ==
  ASSUME NEW n, NEW outer, NEW g, FrameIs(n, outer, g), Stands(n, g),
         FieldOf(g).array => InArray(g)
  PROVE  /\ NextHead(g) \in Heads(g.schema) /\ NextHead(g) \in Paths
         /\ HeadField(g.schema, NextHead(g)) = FieldOf(g) /\ NextHead(g)[1] = g.field
         /\ PathOf(g) = g.path \o NextHead(g) /\ PathOf(g) \in Paths
         /\ Level(g) \in Nat /\ Level(g) <= Len(PathOf(g))
         /\ InArray(g) => PathOf(g) = ItemAt(g.path, g.array, g.count + 1)
         /\ ~InArray(g) => \A h \in Heads(g.schema) : h[1] = g.field => h = NextHead(g)
<1>1. /\ g \in Frames /\ g.schema \in Schemas /\ g.path \in Paths /\ g.count \in Nat
      /\ g.field \in DOMAIN Fields[g.schema] /\ FieldOf(g) = Fields[g.schema][g.field]
  BY DEF FrameIs, Frames, Stands, FieldOf
<1>2. Level(g) \in Nat /\ Level(g) = (IF InArray(g) THEN Len(g.path) + 2 ELSE Len(g.path))
      /\ Len(g.path) \in Nat
  BY <1>1, LevelIs
<1>3. PathOf(g) = g.path \o NextHead(g)
  BY DEF PathOf, NextHead
<1>4. CASE InArray(g)
  <2> DEFINE h == <<g.array, g.count + 1>>
             k == g.count + 1
  <2>1. NextHead(g) = h
    BY <1>4 DEF NextHead
  <2>2. /\ g.field = g.array /\ Fields[g.schema][g.array].array
        /\ g.count < Fields[g.schema][g.array].capacity
    BY <1>1, <1>4 DEF FrameIs, Stands, FieldOf
  <2>3. Fields[g.schema][g.array].capacity \in Nat
    BY <1>1, <2>2, FieldParts
  <2>4. k \in 1..Fields[g.schema][g.array].capacity
    BY <1>1, <2>2, <2>3
  <2>5. h \in Heads(g.schema) /\ HeadField(g.schema, h) = Fields[g.schema][g.array]
    BY <1>1, <2>2, <2>4, ItemCells
  <2>6. Len(h) = 2 /\ h[1] = g.array
    OBVIOUS
  <2>7. ItemAt(g.path, g.array, g.count + 1) = g.path \o h
    BY DEF ItemAt
  <2> HIDE DEF h
  <2>8. h \in Paths
    BY <2>5, HeadIs, <1>1
  <2>9. g.path \o h \in Paths /\ Len(g.path \o h) = Len(g.path) + Len(h)
    BY <1>1, <2>8, Joined
  <2>10. Level(g) <= Len(g.path \o h)
    BY <1>2, <1>4, <2>6, <2>9
  <2> QED BY <1>1, <1>2, <1>3, <1>4, <2>1, <2>2, <2>5, <2>6, <2>7, <2>8, <2>9, <2>10
<1>5. CASE ~InArray(g)
  <2> DEFINE h == <<g.field>>
  <2>1. NextHead(g) = h
    BY <1>5 DEF NextHead
  <2>2. ~Fields[g.schema][g.field].array
    BY <1>1, <1>5
  <2>3. /\ h \in Heads(g.schema) /\ h \in Paths /\ Len(h) = 1 /\ h[1] = g.field
        /\ HeadField(g.schema, h) = Fields[g.schema][g.field]
        /\ \A e \in Heads(g.schema) : e[1] = g.field => e = h
    BY <1>1, <2>2, OneHead
  <2> HIDE DEF h
  <2>4. g.path \o h \in Paths /\ Len(g.path \o h) = Len(g.path) + Len(h)
    BY <1>1, <2>3, Joined
  <2>5. Level(g) <= Len(g.path \o h)
    BY <1>2, <1>5, <2>3, <2>4
  <2> QED BY <1>1, <1>2, <1>3, <1>5, <2>1, <2>3, <2>4, <2>5
<1> QED BY <1>4, <1>5

-----------------------------------------------------------------------------
(* A frame goes on after the value. *)
LEMMA FieldBits ==
  ASSUME NEW schema \in Schemas, Initialisable(schema)
  PROVE  DOMAIN Fields[schema] \subseteq Bits
<1>1. DOMAIN Fields[schema] = 1..Len(Fields[schema]) /\ Len(Fields[schema]) \in Nat
  BY FieldIs
<1>2. Len(Fields[schema]) <= MASK_BITS /\ MASK_BITS \in Nat
  BY MaskAssumption DEF Initialisable
<1> DEFINE x == Len(Fields[schema])
<1>3. DOMAIN Fields[schema] = 1..x /\ x \in Nat /\ x <= MASK_BITS
  BY <1>1, <1>2
<1> HIDE DEF x
<1> QED BY <1>2, <1>3 DEF Bits

LEMMA PastIs ==
  ASSUME NEW outer, NEW g, FrameIs(Len(doc), outer, g), Stands(Len(doc), g)
  PROVE  /\ PastValue(g).path = g.path /\ PastValue(g).schema = g.schema
         /\ PastValue(g).array = g.array
         /\ FrameIs(Len(doc), outer, PastValue(g))
         /\ InArray(g) => PastValue(g).count = g.count + 1
         /\ ~InArray(g) => \A i \in DOMAIN Fields[g.schema] :
              Has(PastValue(g).found, i) <=> Has(g.found, i) \/ i = g.field
<1>1. /\ g \in Frames /\ g.schema \in Schemas /\ g.count \in Nat /\ g.found \in Nat
      /\ g.value \in Values /\ g.field \in DOMAIN Fields[g.schema]
      /\ Initialisable(g.schema) /\ Holds(outer, g.path, g.schema)
  BY DEF FrameIs, Frames, Stands
<1>2. RunInRange(g.run) /\ g.run \in Run
  BY RunWithinIs DEF FrameIs, RunInRange
<1>3. g.value.at \in Nat
  <2>1. g.value.at \in Int /\ g.value.at >= 1
    BY <1>1 DEF Stands, ValueWithin, Values
  <2> QED BY <2>1
<1>4. RunInRange(Commit(g.run, g.value)) /\ RunInRange(Ended(g.run, TRUE))
  <2>1. RunInRange(Commit(g.run, g.value))
    BY <1>2, <1>3, CommitIs
  <2> DEFINE yes == TRUE
  <2>2. yes \in BOOLEAN
    OBVIOUS
  <2> HIDE DEF yes
  <2>3. RunInRange(Ended(g.run, yes))
    BY <1>2, <2>2, EndedIs
  <2> QED BY <2>1, <2>3 DEF yes
<1>5. CASE InArray(g)
  <2> DEFINE run == Commit(g.run, g.value)
             count == g.count + 1
             f == [g EXCEPT !.count = count, !.run = run]
  <2>1. PastValue(g) = f
    BY <1>5 DEF PastValue
  <2>0. count \in Nat
    BY <1>1
  <2>2. run \in Run /\ RunWithin(Len(doc), run)
    BY <1>4, RunWithinIs DEF RunInRange
  <2> HIDE DEF run, count
  <2>3. /\ f \in Frames /\ f.schema = g.schema /\ f.path = g.path /\ f.array = g.array
        /\ f.run = run /\ f.count = count
    BY <1>1, <2>0, <2>2 DEF Frames
  <2> HIDE DEF f
  <2>4. /\ g.array \in DOMAIN Fields[g.schema] /\ Fields[g.schema][g.array].array
        /\ g.count < Fields[g.schema][g.array].capacity
    BY <1>5 DEF FrameIs, Stands, FieldOf
  <2>5. Fields[g.schema][g.array].capacity \in Nat
    BY <1>1, <2>4, FieldParts
  <2>6. f.count <= Fields[g.schema][g.array].capacity
    BY <1>1, <2>3, <2>4, <2>5 DEF count
  <2>7. FrameIs(Len(doc), outer, f)
    BY <1>1, <2>2, <2>3, <2>4, <2>6 DEF FrameIs
  <2> QED BY <1>5, <2>1, <2>3, <2>7 DEF count
<1>6. CASE ~InArray(g)
  <2> DEFINE found == g.found + Bit(g.field)
             run == IF job.flags = "RELAXED" /\ found = complete_mask(g.schema)
                    THEN Ended(g.run, TRUE) ELSE Commit(g.run, g.value)
             f == [g EXCEPT !.found = found, !.run = run]
  <2>1. PastValue(g) = f
    BY <1>6 DEF PastValue, Decode
  <2>2. run \in Run /\ RunWithin(Len(doc), run)
    <3>1. RunInRange(run)
      BY <1>4
    <3> QED BY <3>1, RunWithinIs DEF RunInRange
  <2>3. g.field \in Bits /\ DOMAIN Fields[g.schema] \subseteq Bits
    BY <1>1, FieldBits
  <2>4. found \in Nat
    <3>1. Bit(g.field) \in Nat
      BY <2>3, BitIs
    <3> QED BY <1>1, <3>1
  <2>5. \A i \in DOMAIN Fields[g.schema] : Has(found, i) <=> Has(g.found, i) \/ i = g.field
    <3>1. ~Has(g.found, g.field)
      BY <1>6 DEF Stands
    <3> QED BY <1>1, <2>3, <3>1, SetBit
  <2> HIDE DEF found, run
  <2>6. /\ f \in Frames /\ f.schema = g.schema /\ f.path = g.path /\ f.array = g.array
        /\ f.run = run /\ f.found = found
    BY <1>1, <2>2, <2>4 DEF Frames
  <2> HIDE DEF f
  <2>7. ~InArray(f)
    BY <1>6, <2>6 DEF InArray
  <2>8. FrameIs(Len(doc), outer, f)
    BY <1>1, <2>2, <2>6, <2>7 DEF FrameIs
  <2> QED BY <1>6, <2>1, <2>5, <2>6, <2>8
<1> QED BY <1>5, <1>6

\* The field, or the item, of the value at which a frame stands is finished.
Finished(mem, outer, g) ==
  IF InArray(g)
  THEN /\ FieldOf(g).type # "STRUCT" => ItemAt(g.path, g.array, g.count + 1) \in DOMAIN mem
       /\ \A r \in Paths : ItemAt(g.path, g.array, g.count + 1) \o r \in DOMAIN mem =>
            Sound(mem, outer, Len(g.path) + 2, ItemAt(g.path, g.array, g.count + 1) \o r)
  ELSE \A p \in DOMAIN mem : InField(p, g.path, g.field) => Sound(mem, outer, Len(g.path), p)

LEMMA PastSound ==
  ASSUME NEW outer, NEW g, FrameIs(Len(doc), outer, g), Stands(Len(doc), g),
         NEW mem, FrameSound(mem, outer, g), Finished(mem, outer, g)
  PROVE  FrameSound(mem, outer, PastValue(g))
<1> DEFINE f == PastValue(g)
<1>1. /\ f.path = g.path /\ f.schema = g.schema /\ f.array = g.array
      /\ InArray(g) => f.count = g.count + 1
      /\ ~InArray(g) => \A i \in DOMAIN Fields[g.schema] :
           Has(f.found, i) <=> Has(g.found, i) \/ i = g.field
  BY PastIs
<1> HIDE DEF f
<1>2. InArray(f) <=> InArray(g)
  BY <1>1 DEF InArray
<1>3. CASE InArray(g)
  <2>1. /\ g.count \in Nat /\ f.count = g.count + 1 /\ g.field = g.array
    BY <1>1, <1>3 DEF FrameIs, Frames, Stands
  <2>2. \A k \in 1..f.count : k \in 1..g.count \/ k = g.count + 1
    BY <2>1
  <2>3. ItemsSound(mem, outer, g) /\ Finished(mem, outer, g)
    BY <1>3 DEF FrameSound
  <2>4. ItemsSound(mem, outer, f)
    <3>1. ASSUME Fields[f.schema][f.array].type # "STRUCT", NEW k \in 1..f.count
          PROVE  ItemAt(f.path, f.array, k) \in DOMAIN mem
      BY <1>1, <1>3, <2>1, <2>2, <2>3, <3>1 DEF ItemsSound, Finished, FieldOf
    <3>2. ASSUME NEW k \in 1..f.count, NEW r \in Paths,
                 ItemAt(f.path, f.array, k) \o r \in DOMAIN mem
          PROVE  Sound(mem, outer, Len(f.path) + 2, ItemAt(f.path, f.array, k) \o r)
      BY <1>1, <1>3, <2>1, <2>2, <2>3, <3>2 DEF ItemsSound, Finished
    <3> QED BY <3>1, <3>2 DEF ItemsSound
  <2> QED BY <1>2, <1>3, <2>4 DEF FrameSound, f
<1>4. CASE ~InArray(g)
  <2>1. ObjectSound(mem, outer, g)
    BY <1>4 DEF FrameSound
  <2>2. \A p \in DOMAIN mem : InField(p, g.path, g.field) => Sound(mem, outer, Len(g.path), p)
    BY <1>4 DEF Finished
  <2>3. \A i \in DOMAIN Fields[g.schema] : FieldDone(f, i) => FieldDone(g, i) \/ i = g.field
    BY <1>1, <1>4 DEF FieldDone
  <2>4. ObjectSound(mem, outer, f)
    BY <1>1, <2>1, <2>2, <2>3 DEF ObjectSound
  <2> QED BY <1>2, <1>4, <2>4 DEF FrameSound, f
<1> QED BY <1>3, <1>4

LEMMA PastStack ==
  ASSUME NEW mem, NEW outer \in Schemas, NEW g, NEW rest, FrameIs(Len(doc), outer, g),
         Stands(Len(doc), g), Around(Len(doc), outer, g, rest), FrameSound(mem, outer, g),
         Finished(mem, outer, g), \A k \in DOMAIN rest : FrameSound(mem, outer, rest[k])
  PROVE  StackIs(Len(doc), mem, outer, PastValue(g), rest)
<1>1. /\ PastValue(g).path = g.path /\ PastValue(g).schema = g.schema
      /\ PastValue(g).array = g.array /\ FrameIs(Len(doc), outer, PastValue(g))
  BY PastIs
<1>2. Around(Len(doc), outer, PastValue(g), rest)
  BY <1>1, SameAround
<1>3. FrameSound(mem, outer, PastValue(g))
  BY PastSound
<1> QED BY <1>1, <1>2, <1>3 DEF StackIs

\* A field, or an item, that is not an array is finished with its place.
LEMMA PlaceFinished ==
  ASSUME NEW n, NEW outer, NEW g, FrameIs(n, outer, g), Stands(n, g),
         FieldOf(g).array => InArray(g),
         NEW mem, DOMAIN mem \subseteq CellPaths[outer],
         FieldOf(g).type # "STRUCT" => PathOf(g) \in DOMAIN mem,
         \A r \in Paths : PathOf(g) \o r \in DOMAIN mem =>
           Sound(mem, outer, Level(g), PathOf(g) \o r)
  PROVE  Finished(mem, outer, g)
<1>1. /\ g.path \in Paths /\ g.schema \in Schemas /\ outer \in Schemas /\ g \in Frames
      /\ Holds(outer, g.path, g.schema)
  BY DEF FrameIs, Frames, Holds
<1>2. /\ NextHead(g) \in Heads(g.schema) /\ NextHead(g) \in Paths
      /\ HeadField(g.schema, NextHead(g)) = FieldOf(g) /\ NextHead(g)[1] = g.field
      /\ PathOf(g) = g.path \o NextHead(g)
      /\ InArray(g) => PathOf(g) = ItemAt(g.path, g.array, g.count + 1)
      /\ ~InArray(g) => \A h \in Heads(g.schema) : h[1] = g.field => h = NextHead(g)
  BY NextHeadIs
<1>3. Level(g) = IF InArray(g) THEN Len(g.path) + 2 ELSE Len(g.path)
  BY <1>1, LevelIs
<1>4. CASE InArray(g)
  <2>1. PathOf(g) = ItemAt(g.path, g.array, g.count + 1) /\ Level(g) = Len(g.path) + 2
    BY <1>2, <1>3, <1>4
  <2> QED BY <1>4, <2>1 DEF Finished
<1>5. CASE ~InArray(g)
  <2> SUFFICES ASSUME NEW p \in DOMAIN mem, InField(p, g.path, g.field)
               PROVE  Sound(mem, outer, Len(g.path), p)
    BY <1>5 DEF Finished
  <2>1. PICK q \in Paths : p = g.path \o q /\ Len(q) >= 1 /\ q[1] = g.field
    BY DEF InField
  <2>2. q \in CellPaths[g.schema]
    <3>1. g.path \o q \in CellPaths[outer]
      BY <2>1
    <3> QED BY <1>1, <3>1, PlaceAt
  <2>3. ~Fields[g.schema][g.field].array
    BY <1>5 DEF FieldOf
  <2>4. PICK h \in Heads(g.schema), r \in Paths : h[1] = q[1] /\ q = h \o r
    BY <1>1, <2>1, <2>2, <2>3, CellCases
  <2>5. h = NextHead(g)
    BY <1>2, <1>5, <2>1, <2>4
  <2>6. p = PathOf(g) \o r
    <3>1. (g.path \o NextHead(g)) \o r = g.path \o (NextHead(g) \o r)
      BY <1>1, <1>2, <2>4, Regroup
    <3> QED BY <1>2, <2>1, <2>4, <2>5, <3>1
  <2>7. Level(g) = Len(g.path)
    BY <1>3, <1>5
  <2> QED BY <2>4, <2>6, <2>7
<1> QED BY <1>4, <1>5

-----------------------------------------------------------------------------
(* Frames that begin, and scalars. *)

LEMMA StackParts ==
  ASSUME NEW n, NEW mem, NEW outer, NEW g, NEW rest, StackIs(n, mem, outer, g, rest)
  PROVE  /\ g \in Frames /\ g.schema \in Schemas /\ g.path \in Paths /\ g.found \in Nat
         /\ g.depth \in Nat /\ g.count \in Nat /\ outer \in Schemas
         /\ Level(g) \in Nat /\ Len(g.path) \in Nat /\ Len(g.path) <= Level(g)
         /\ Initialisable(g.schema) /\ Holds(outer, g.path, g.schema)
BY LevelIs DEF StackIs, FrameIs, Frames

LEMMA Remembered ==
  ASSUME NEW n, NEW mem, NEW new, NEW outer, NEW g, NEW rest, StackIs(n, mem, outer, g, rest),
         \A m \in Nat : m <= Level(g) => Keeps(mem, new, outer, m)
  PROVE  StackIs(n, new, outer, g, rest)
<1>1. /\ g \in Frames /\ Level(g) \in Nat /\ Len(g.path) \in Nat /\ Len(g.path) <= Level(g)
  BY StackParts
<1>2. Keeps(mem, new, outer, Level(g))
  BY <1>1
<1>3. FrameSound(new, outer, g)
  BY <1>1, <1>2, FrameKept DEF StackIs
<1>4. \A m \in Nat : m <= Len(g.path) => Keeps(mem, new, outer, m)
  BY <1>1
<1>5. \A k \in DOMAIN rest : FrameSound(new, outer, rest[k])
  BY <1>1, <1>4, RestKept DEF StackIs
<1> QED BY <1>3, <1>5 DEF StackIs

LEMMA PastStackIs ==
  ASSUME NEW mem, NEW outer, NEW g, NEW rest, StackIs(Len(doc), mem, outer, g, rest),
         Stands(Len(doc), g), Finished(mem, outer, g)
  PROVE  StackIs(Len(doc), mem, outer, PastValue(g), rest)
BY PastStack DEF StackIs

-----------------------------------------------------------------------------
(* kason_schema_store_scalar. *)
FieldAtPlace(schema, p) == FieldAt[<<schema, p>>]
LEMMA ScalarField ==
  ASSUME NEW outer, NEW P, NEW schema, Holds(outer, P, schema),
         NEW h, h \in Heads(schema), HeadField(schema, h).type # "STRUCT"
  PROVE  FieldAtPlace(outer, P \o h) = HeadField(schema, h)
<1>1. FieldAt[<<outer, P \o h>>] = HeadField(schema, h)
  BY ScalarPlace
<1> QED BY <1>1 DEF FieldAtPlace

LEMMA ScalarStored ==
  ASSUME NEW mem, NEW outer, NEW g, NEW rest, StackIs(Len(doc), mem, outer, g, rest),
         Stands(Len(doc), g), FieldOf(g).array => InArray(g), FieldOf(g).type # "STRUCT",
         MemoryIsSound(mem, outer), NEW v, ScalarSafe(FieldOf(g), v),
         NEW new, new = Written(mem, Cell(PathOf(g), v))
  PROVE  /\ MemoryIsSound(new, outer)
         /\ StackIs(Len(doc), new, outer, PastValue(g), rest)
<1> DEFINE w == PathOf(g)
           h == NextHead(g)
<1>1. /\ g.schema \in Schemas /\ g.path \in Paths /\ outer \in Schemas
      /\ Level(g) \in Nat /\ Holds(outer, g.path, g.schema)
  BY StackParts
<1>2. FrameIs(Len(doc), outer, g)
  BY DEF StackIs
<1>3. /\ h \in Heads(g.schema) /\ h \in Paths /\ HeadField(g.schema, h) = FieldOf(g)
      /\ w = g.path \o h /\ w \in Paths
  BY <1>2, NextHeadIs
<1> HIDE DEF w, h
<1>4. HeadField(g.schema, h).type # "STRUCT"
  BY <1>3
<1>0. h \in Heads(g.schema) /\ Holds(outer, g.path, g.schema)
  BY <1>1, <1>3
<1>5. w \in CellPaths[outer] /\ FieldAt[<<outer, w>>] = FieldOf(g) /\ ~IsCount(w)
  <2>1. /\ g.path \o h \in CellPaths[outer]
        /\ FieldAt[<<outer, g.path \o h>>] = HeadField(g.schema, h) /\ ~IsCount(g.path \o h)
    <3>1. g.path \o h \in CellPaths[outer]
      BY ONLY <1>0, <1>4, ScalarPlace
    <3>2. FieldAt[<<outer, g.path \o h>>] = HeadField(g.schema, h)
      <4>1. FieldAtPlace(outer, g.path \o h) = HeadField(g.schema, h)
        BY <1>0, <1>4, ScalarField
      <4> QED BY <4>1 DEF FieldAtPlace
    <3>3. ~IsCount(g.path \o h)
      BY ONLY <1>0, <1>4, ScalarPlace
    <3> QED BY <3>1, <3>2, <3>3
  <2> QED BY <1>3, <2>1
<1>6. ScalarSafe(FieldAt[<<outer, w>>], v)
  BY <1>5
<1>7. new = Written(mem, Cell(w, v)) /\ DOMAIN mem \subseteq CellPaths[outer]
      /\ DOMAIN mem \subseteq Paths
  BY <1>1, CellPathsIs DEF w, MemoryIsSound
<1>8. /\ DOMAIN new = DOMAIN mem \cup {w} /\ Fits(outer, w, new[w])
      /\ \A p \in DOMAIN mem \ {w} : new[p] = mem[p]
      /\ \A n \in Nat, p \in DOMAIN new :
           p = w \/ Sound(mem, outer, n, p) => Sound(new, outer, n, p)
  <2>1. w \in Paths /\ ~IsCount(w)
    BY <1>3, <1>5
  <2>2. /\ DOMAIN new = DOMAIN mem \cup {w} /\ new[w] = v
        /\ \A p \in DOMAIN mem \ {w} : new[p] = mem[p]
    <3> DEFINE c == Cell(w, v)
    <3>1. DOMAIN c = {w} /\ c[w] = v /\ new = Written(mem, c)
      BY <1>7, CellIs
    <3> HIDE DEF c
    <3> QED BY <3>1 DEF Written
  <2>3. Fits(outer, w, new[w])
    BY ONLY <1>6, <1>7, <2>1, ScalarWritten
  <2>4. \A n \in Nat, p \in DOMAIN new :
          p = w \/ Sound(mem, outer, n, p) => Sound(new, outer, n, p)
    BY ONLY <1>6, <1>7, <2>1, ScalarWritten
  <2> QED BY <2>2, <2>3, <2>4
<1>9. \A m \in Nat : m <= Level(g) => Keeps(mem, new, outer, m)
  BY <1>8 DEF Keeps
<1>10. StackIs(Len(doc), new, outer, g, rest)
  BY <1>9, Remembered
<1>11. MemoryIsSound(new, outer)
  BY <1>5, <1>8 DEF MemoryIsSound
<1>12. DOMAIN new \subseteq CellPaths[outer]
  BY <1>11 DEF MemoryIsSound
<1>13. ASSUME NEW r \in Paths, w \o r \in DOMAIN new
       PROVE  Sound(new, outer, Level(g), w \o r)
  <2>1. (g.path \o h) \o r = g.path \o (h \o r)
    BY <1>1, <1>3, Regroup
  <2>2. w \o r = w
    <3>1. g.path \o (h \o r) \in CellPaths[outer]
      BY <1>3, <1>12, <1>13, <2>1
    <3>2. g.path \o (h \o r) = g.path \o h
      <4>1. Only(outer, g.path, h)
        BY <1>0, <1>4, ScalarOnly
      <4> QED BY <3>1, <4>1 DEF Only
    <3> QED BY <1>3, <2>1, <3>2
  <2> QED BY <1>1, <1>8, <2>2
<1>14. Finished(new, outer, g)
  <2>1. PathOf(g) \in DOMAIN new
    BY <1>8 DEF w
  <2>2. \A r \in Paths : PathOf(g) \o r \in DOMAIN new =>
          Sound(new, outer, Level(g), PathOf(g) \o r)
    BY <1>13 DEF w
  <2> QED BY <1>2, <1>12, <2>1, <2>2, PlaceFinished
<1> QED BY <1>10, <1>11, <1>14, PastStackIs

-----------------------------------------------------------------------------
(* Frames that begin. *)
LEMMA FrameNew ==
  ASSUME NEW schema \in Schemas, NEW path \in Paths, NEW depth \in Nat, NEW array \in Nat,
         NEW run \in Run
  PROVE  /\ Frame(schema, path, depth, array, run) \in Frames
         /\ Frame(schema, path, depth, array, run).schema = schema
         /\ Frame(schema, path, depth, array, run).path = path
         /\ Frame(schema, path, depth, array, run).array = array
         /\ Frame(schema, path, depth, array, run).run = run
         /\ Frame(schema, path, depth, array, run).found = 0
         /\ Frame(schema, path, depth, array, run).count = 0
<1>1. NotFound \in Values
  BY NotFoundIs DEF ValueInRange
<1> QED BY <1>1 DEF Frame, Frames

LEMMA Pushed ==
  ASSUME NEW mem, NEW new, NEW outer, NEW g, NEW rest, StackIs(Len(doc), mem, outer, g, rest),
         Stands(Len(doc), g), \A m \in Nat : m <= Level(g) => Keeps(mem, new, outer, m),
         NEW f, FrameIs(Len(doc), outer, f), FrameSound(new, outer, f), Within(f, g),
         Level(g) <= Len(f.path)
  PROVE  StackIs(Len(doc), new, outer, f, <<g>> \o rest)
<1>1. StackIs(Len(doc), new, outer, g, rest)
  BY Remembered
<1>2. Around(Len(doc), outer, g, rest) /\ FrameIs(Len(doc), outer, g) /\ f \in Frames
  BY DEF StackIs, FrameIs
<1> DEFINE s == <<g>> \o rest
<1>3. /\ Around(Len(doc), outer, f, s)
      /\ \A k \in DOMAIN s : s[k] = g \/ \E j \in DOMAIN rest : s[k] = rest[j]
  BY <1>2, PushAround
<1> HIDE DEF s
<1>4. \A k \in DOMAIN s : FrameSound(new, outer, s[k])
  BY <1>1, <1>3 DEF StackIs
<1>5. StackIs(Len(doc), new, outer, f, s)
  BY <1>3, <1>4 DEF StackIs
<1> QED BY <1>5 DEF s

LEMMA ArrayPushed ==
  ASSUME doc \in Seq(Byte), NEW mem, NEW outer, NEW g, NEW rest,
         StackIs(Len(doc), mem, outer, g, rest),
         Stands(Len(doc), g), FieldOf(g).array, ~InArray(g)
  PROVE  StackIs(Len(doc), mem, outer,
                 Frame(g.schema, g.path, g.depth, g.field, ContainerRun(g.value)), <<g>> \o rest)
<1> DEFINE f == Frame(g.schema, g.path, g.depth, g.field, ContainerRun(g.value))
<1>1. /\ g.schema \in Schemas /\ g.path \in Paths /\ g.depth \in Nat /\ outer \in Schemas
      /\ Initialisable(g.schema) /\ Holds(outer, g.path, g.schema)
      /\ Len(g.path) \in Nat
  BY StackParts
<1>2. /\ g.field \in DOMAIN Fields[g.schema] /\ ValueInRange(g.value)
      /\ g.value.type # "INVALID" /\ Fields[g.schema][g.field].array
  BY ValueWithinIs DEF Stands, FieldOf
<1>3. RunInRange(ContainerRun(g.value))
  BY <1>2, ContainerRunIs
<1>4. /\ g.field \in Nat /\ g.field >= 1
      /\ Fields[g.schema][g.field].capacity \in Nat
  BY <1>1, <1>2, FieldParts
<1>5. ContainerRun(g.value) \in Run /\ RunWithin(Len(doc), ContainerRun(g.value))
  BY <1>3, RunWithinIs DEF RunInRange
<1>6. /\ f \in Frames /\ f.schema = g.schema /\ f.path = g.path /\ f.array = g.field
      /\ f.run = ContainerRun(g.value) /\ f.count = 0
  BY <1>1, <1>4, <1>5, FrameNew
<1> HIDE DEF f
<1>7. InArray(f)
  BY <1>4, <1>6 DEF InArray, NotInArray
<1>8. FrameIs(Len(doc), outer, f)
  BY <1>1, <1>2, <1>4, <1>5, <1>6 DEF FrameIs
<1>9. FrameSound(mem, outer, f)
  BY <1>6, <1>7 DEF FrameSound, ItemsSound
<1>10. Within(f, g)
  BY <1>6, <1>7 DEF Within
<1>11. Level(g) <= Len(f.path)
  <2>1. g \in Frames
    BY StackParts
  <2>2. Level(g) = Len(g.path)
    BY <2>1, LevelIs
  <2> QED BY <1>1, <1>6, <2>2
<1>12. \A m \in Nat : m <= Level(g) => Keeps(mem, mem, outer, m)
  <2> SUFFICES ASSUME NEW m \in Nat PROVE Keeps(mem, mem, outer, m)
    OBVIOUS
  <2>1. \A p \in DOMAIN mem : p \notin DOMAIN mem \/ Sound(mem, outer, m, p) => Sound(mem, outer, m, p)
    OBVIOUS
  <2> QED BY <2>1 DEF Keeps
<1>13. StackIs(Len(doc), mem, outer, f, <<g>> \o rest)
  BY <1>8, <1>9, <1>10, <1>11, <1>12, Pushed
<1> QED BY <1>13 DEF f

WithDefaults(mem, schema, P) == Written(mem, Defaults(schema, P))
Begun(schema, P, depth, slice) == Frame(schema, P, depth, NotInArray, RunAuto(slice, 0, TRUE))

LEMMA ObjectBegun ==
  ASSUME doc \in Seq(Byte), NEW mem, NEW outer, NEW P, NEW schema, Holds(outer, P, schema),
         Initialisable(schema), MemoryIsSound(mem, outer), NEW depth \in Nat,
         NEW slice, slice.begin \in Nat, slice.begin >= 1, slice.end \in 0..Len(doc)
  PROVE  /\ MemoryIsSound(WithDefaults(mem, schema, P), outer)
         /\ \A m \in Nat : m <= Len(P) => Keeps(mem, WithDefaults(mem, schema, P), outer, m)
         /\ FrameIs(Len(doc), outer, Begun(schema, P, depth, slice))
         /\ FrameSound(WithDefaults(mem, schema, P), outer, Begun(schema, P, depth, slice))
         /\ ~InArray(Begun(schema, P, depth, slice))
         /\ Begun(schema, P, depth, slice).path = P
         /\ Begun(schema, P, depth, slice).schema = schema
<1> DEFINE new == WithDefaults(mem, schema, P)
           f == Begun(schema, P, depth, slice)
<1>a. new = Written(mem, Defaults(schema, P))
  BY DEF WithDefaults
<1>b. f = Frame(schema, P, depth, NotInArray, RunAuto(slice, 0, TRUE))
  BY DEF Begun
<1> HIDE DEF new, f
<1>1. P \in Paths /\ schema \in Schemas /\ outer \in Schemas /\ Len(P) \in Nat
  BY DEF Holds, Paths
<1>2. DOMAIN mem \subseteq CellPaths[outer]
  BY DEF MemoryIsSound
<1>3. /\ DOMAIN mem \subseteq DOMAIN new /\ DOMAIN new \subseteq CellPaths[outer]
      /\ \A p \in DOMAIN new :
           (p \in DOMAIN mem /\ new[p] = mem[p]) \/ Fits(outer, p, new[p])
      /\ \A p \in DOMAIN new \ DOMAIN mem : \E i \in DefaultsOf(schema) : InField(p, P, i)
      /\ \A m \in Nat : m <= Len(P) => \A p \in DOMAIN new :
           \/ \E i \in DefaultsOf(schema) : InField(p, P, i)
           \/ p \in DOMAIN mem /\ Sound(mem, outer, m, p)
           => Sound(new, outer, m, p)
  BY <1>a, <1>1, <1>2, DefaultsWritten
<1>4. \A m \in Nat : m <= Len(P) => Keeps(mem, new, outer, m)
  <2> SUFFICES ASSUME NEW m \in Nat, m <= Len(P), NEW p \in DOMAIN new,
                      p \notin DOMAIN mem \/ Sound(mem, outer, m, p)
               PROVE  Sound(new, outer, m, p)
    BY <1>3 DEF Keeps
  <2>1. \/ \E i \in DefaultsOf(schema) : InField(p, P, i)
        \/ p \in DOMAIN mem /\ Sound(mem, outer, m, p)
    BY <1>3
  <2> QED BY <1>3, <2>1
<1>5. MemoryIsSound(new, outer)
  <2> SUFFICES ASSUME NEW p \in DOMAIN new
               PROVE  p \in CellPaths[outer] /\ Fits(outer, p, new[p]) /\ Sound(new, outer, 0, p)
    BY DEF MemoryIsSound
  <2>1. Fits(outer, p, new[p])
    BY <1>3 DEF MemoryIsSound
  <2> DEFINE zero == 0
  <2>2. zero \in Nat /\ zero <= Len(P) /\ (p \in DOMAIN mem => Sound(mem, outer, zero, p))
    BY <1>1 DEF MemoryIsSound
  <2> HIDE DEF zero
  <2>3. Keeps(mem, new, outer, zero)
    BY <1>4, <2>2
  <2>4. Sound(new, outer, zero, p)
    BY <2>2, <2>3 DEF Keeps
  <2> QED BY <1>3, <2>1, <2>4 DEF zero
<1> DEFINE run == RunAuto(slice, 0, TRUE)
           none == 0
<1>6. run \in Run /\ RunWithin(Len(doc), run)
  <2>1. RunInRange(run)
    BY RunAutoIs
  <2> QED BY <2>1, RunWithinIs DEF RunInRange
<1>7. none \in Nat /\ f = Frame(schema, P, depth, none, run)
  BY <1>b DEF NotInArray
<1> HIDE DEF run, none
<1>8. /\ f \in Frames /\ f.schema = schema /\ f.path = P /\ f.array = none
      /\ f.run = run /\ f.found = 0
  <2> DEFINE x == Frame(schema, P, depth, none, run)
  <2>1. /\ x \in Frames /\ x.schema = schema /\ x.path = P /\ x.array = none
        /\ x.run = run /\ x.found = 0
    BY <1>1, <1>6, <1>7, FrameNew
  <2>2. f = x
    BY <1>7
  <2> HIDE DEF x
  <2> QED BY ONLY <2>1, <2>2
<1>9. ~InArray(f)
  BY <1>8 DEF InArray, NotInArray, none
<1>10. FrameIs(Len(doc), outer, f)
  BY <1>6, <1>8, <1>9 DEF FrameIs
<1>11. FrameSound(new, outer, f)
  <2> SUFFICES ASSUME NEW p \in DOMAIN new, NEW i \in DOMAIN Fields[schema],
                      FieldDone(f, i), InField(p, P, i)
               PROVE  Sound(new, outer, Len(P), p)
    BY <1>8, <1>9 DEF FrameSound, ObjectSound
  <2>1. ~Has(f.found, i)
    BY <1>1, <1>8, FieldBits, NoBit
  <2>2. i \in DefaultsOf(schema)
    BY <1>8, <2>1 DEF FieldDone
  <2>3. Len(P) <= Len(P)
    BY <1>1
  <2> QED BY <1>1, <1>3, <2>2, <2>3
<1> QED BY <1>4, <1>5, <1>8, <1>9, <1>10, <1>11 DEF new, f

LEMMA StructPushed ==
  ASSUME doc \in Seq(Byte), NEW mem, NEW outer, NEW g, NEW rest,
         StackIs(Len(doc), mem, outer, g, rest), MemoryIsSound(mem, outer),
         Stands(Len(doc), g), FieldOf(g).array => InArray(g), FieldOf(g).type = "STRUCT",
         Initialisable(FieldOf(g).child),
         NEW slice, slice.begin \in Nat, slice.begin >= 1, slice.end \in 0..Len(doc)
  PROVE  /\ MemoryIsSound(WithDefaults(mem, FieldOf(g).child, PathOf(g)), outer)
         /\ StackIs(Len(doc), WithDefaults(mem, FieldOf(g).child, PathOf(g)), outer,
                    Begun(FieldOf(g).child, PathOf(g), g.depth + 1, slice), <<g>> \o rest)
<1>1. /\ g.schema \in Schemas /\ g.path \in Paths /\ g.depth \in Nat /\ outer \in Schemas
      /\ Holds(outer, g.path, g.schema) /\ FrameIs(Len(doc), outer, g)
  BY StackParts DEF StackIs
<1>2. /\ NextHead(g) \in Heads(g.schema) /\ HeadField(g.schema, NextHead(g)) = FieldOf(g)
      /\ PathOf(g) = g.path \o NextHead(g) /\ PathOf(g) \in Paths
      /\ Level(g) \in Nat /\ Level(g) <= Len(PathOf(g))
  BY <1>1, NextHeadIs
<1> DEFINE P == PathOf(g)
           child == FieldOf(g).child
           depth == g.depth + 1
<1>3. Holds(outer, P, child)
  <2>1. HeadField(g.schema, NextHead(g)).type = "STRUCT"
    BY <1>2
  <2>2. Holds(outer, g.path \o NextHead(g), HeadField(g.schema, NextHead(g)).child)
    BY <1>1, <1>2, <2>1, HoldsWithin
  <2> QED BY <1>2, <2>2
<1>4. depth \in Nat
  BY <1>1
<1>5. /\ Initialisable(child) /\ P \in Paths
      /\ Level(g) \in Nat /\ Level(g) <= Len(P)
  BY <1>2
<1> HIDE DEF P, child, depth
<1> DEFINE new == WithDefaults(mem, child, P)
           f == Begun(child, P, depth, slice)
<1>6. /\ MemoryIsSound(new, outer) /\ \A m \in Nat : m <= Len(P) => Keeps(mem, new, outer, m)
      /\ FrameIs(Len(doc), outer, f) /\ FrameSound(new, outer, f)
      /\ ~InArray(f) /\ f.path = P /\ f.schema = child
  <2>1. MemoryIsSound(new, outer)
    BY <1>3, <1>4, <1>5, ObjectBegun
  <2>2. FrameIs(Len(doc), outer, f)
    BY <1>3, <1>4, <1>5, ObjectBegun
  <2>3. FrameSound(new, outer, f)
    BY <1>3, <1>4, <1>5, ObjectBegun
  <2>4. ~InArray(f)
    BY <1>3, <1>4, <1>5, ObjectBegun
  <2>5. f.path = P /\ f.schema = child
    BY DEF f, Begun, Frame
  <2>7. \A m \in Nat : m <= Len(P) => Keeps(mem, new, outer, m)
    BY <1>3, <1>4, <1>5, ObjectBegun
  <2> QED BY <2>1, <2>2, <2>3, <2>4, <2>5, <2>7
<1> HIDE DEF new, f
<1>7. Within(f, g)
  BY <1>6 DEF Within, P, child
<1>8. Len(P) \in Nat
  BY <1>5 DEF Paths
<1>9. \A m \in Nat : m <= Level(g) => Keeps(mem, new, outer, m)
  BY <1>5, <1>6, <1>8
<1>10. Level(g) <= Len(f.path)
  BY <1>5, <1>6
<1>11. StackIs(Len(doc), new, outer, f, <<g>> \o rest)
  BY <1>6, <1>7, <1>9, <1>10, Pushed
<1> QED BY <1>6, <1>11 DEF new, f, P, child, depth

-----------------------------------------------------------------------------
(* Frames that end. *)

LEMMA ArrayLeft ==
  ASSUME NEW mem, NEW outer, NEW f, NEW rest, StackIs(Len(doc), mem, outer, f, rest),
         MemoryIsSound(mem, outer), InArray(f), rest # << >>
  PROVE  /\ MemoryIsSound(Written(mem, Cell(CountAt(f.path, f.array), f.count)), outer)
         /\ StackIs(Len(doc), Written(mem, Cell(CountAt(f.path, f.array), f.count)), outer,
                    PastValue(rest[1]), Tail(rest))
<1> DEFINE g == rest[1]
           t == Tail(rest)
           P == f.path
           schema == f.schema
           i == f.array
           n == f.count
           new == Written(mem, Cell(CountAt(P, i), n))
<1>1. /\ f \in Frames /\ schema \in Schemas /\ P \in Paths /\ n \in Nat /\ outer \in Schemas
      /\ Len(P) \in Nat /\ Holds(outer, P, schema)
  BY StackParts
<1>2. /\ i \in DOMAIN Fields[schema] /\ Fields[schema][i].array
      /\ n <= Fields[schema][i].capacity
  BY DEF StackIs, FrameIs
<1>3. ItemsSound(mem, outer, f)
  BY DEF StackIs, FrameSound
<1>4. Around(Len(doc), outer, f, rest)
  BY DEF StackIs
<1>5. /\ FrameIs(Len(doc), outer, g) /\ Stands(Len(doc), g) /\ Within(f, g)
      /\ Around(Len(doc), outer, g, t) /\ 1 \in DOMAIN rest /\ Level(g) <= Len(P)
      /\ \A k \in DOMAIN t : k + 1 \in DOMAIN rest /\ t[k] = rest[k + 1]
  BY <1>4, PopAround
<1>6. g.path = P /\ g.schema = schema /\ g.field = i /\ ~InArray(g)
  BY <1>5 DEF Within
<1>7. FrameSound(mem, outer, g) /\ \A k \in DOMAIN t : FrameSound(mem, outer, t[k])
  BY <1>5 DEF StackIs
<1> HIDE DEF g, t
<1>8. DOMAIN mem \subseteq CellPaths[outer]
  BY DEF MemoryIsSound
<1>9. /\ Fields[schema][i].type # "STRUCT" => \A k \in 1..n : ItemAt(P, i, k) \in DOMAIN mem
      /\ \A k \in 1..n : \A r \in Paths : ItemAt(P, i, k) \o r \in DOMAIN mem =>
           Sound(mem, outer, Len(P) + 2, ItemAt(P, i, k) \o r)
  BY <1>3 DEF ItemsSound
<1> HIDE DEF P, schema, i, n
<1>10. new = Written(mem, Cell(CountAt(P, i), n))
  OBVIOUS
<1> HIDE DEF new
<1>11. DOMAIN new = DOMAIN mem \cup {CountAt(P, i)} /\ new[CountAt(P, i)] = n
       /\ \A p \in DOMAIN mem \ {CountAt(P, i)} : new[p] = mem[p]
  <2> DEFINE w == CountAt(P, i)
             c == Cell(w, n)
  <2>1. DOMAIN c = {w} /\ c[w] = n /\ new = Written(mem, c)
    BY <1>10, CellIs
  <2> HIDE DEF c, w
  <2>2. DOMAIN new = DOMAIN mem \cup {w} /\ new[w] = n
        /\ \A p \in DOMAIN mem \ {w} : new[p] = mem[p]
    BY <2>1 DEF Written
  <2> QED BY <2>2 DEF w
<1>12. \A m \in Nat : m <= Len(P) => \A p \in DOMAIN new :
         InField(p, P, i) \/ Sound(mem, outer, m, p) => Sound(new, outer, m, p)
  <2>1. ItemsDone(mem, outer, P, schema, i, n)
    BY <1>9 DEF ItemsDone
  <2>2. Settled(mem, WithCount(mem, P, i, n), outer, P, i)
    BY <1>1, <1>2, <1>8, <2>1, CountWritten
  <2>3. WithCount(mem, P, i, n) = new
    BY <1>10 DEF WithCount
  <2> QED BY <2>2, <2>3 DEF Settled
<1>13. /\ CountAt(P, i) \in CellPaths[outer] /\ CountAt(P, i) \in Paths
       /\ IsCount(CountAt(P, i))
  BY <1>1, <1>2, CountPlace
<1>14. InField(CountAt(P, i), P, i)
  <2> DEFINE q == <<i, 0>>
  <2>1. i \in Nat
    BY <1>1, <1>2, FieldParts
  <2>2. q \in Paths /\ Len(q) >= 1 /\ q[1] = i
    BY <2>1 DEF Paths
  <2> HIDE DEF q
  <2>3. InField(P \o q, P, i)
    BY <2>2 DEF InField
  <2> QED BY <2>3 DEF q, CountAt
<1>15. \A m \in Nat : m <= Len(P) => Keeps(mem, new, outer, m)
  <2> SUFFICES ASSUME NEW m \in Nat, m <= Len(P), NEW p \in DOMAIN new,
                      p \notin DOMAIN mem \/ Sound(mem, outer, m, p)
               PROVE  Sound(new, outer, m, p)
    BY <1>11 DEF Keeps
  <2>1. InField(p, P, i) \/ Sound(mem, outer, m, p)
    BY <1>11, <1>14
  <2> QED BY <1>12, <2>1
<1>16. MemoryIsSound(new, outer)
  <2> SUFFICES ASSUME NEW p \in DOMAIN new
               PROVE  p \in CellPaths[outer] /\ Fits(outer, p, new[p]) /\ Sound(new, outer, 0, p)
    BY DEF MemoryIsSound
  <2>1. p \in CellPaths[outer]
    BY <1>8, <1>11, <1>13
  <2>2. Fits(outer, p, new[p])
    <3>1. CASE p = CountAt(P, i)
      BY <1>13, <3>1 DEF Fits, CellFits
    <3>2. CASE p # CountAt(P, i)
      BY <1>11, <3>2 DEF MemoryIsSound
    <3> QED BY <3>1, <3>2
  <2> DEFINE zero == 0
  <2>3. zero \in Nat /\ zero <= Len(P) /\ (p \in DOMAIN mem => Sound(mem, outer, zero, p))
    BY <1>1 DEF MemoryIsSound
  <2> HIDE DEF zero
  <2>4. Keeps(mem, new, outer, zero)
    BY <1>15, <2>3
  <2>5. Sound(new, outer, zero, p)
    BY <2>3, <2>4 DEF Keeps
  <2> QED BY <2>1, <2>2, <2>5 DEF zero
<1>17. StackIs(Len(doc), mem, outer, g, t)
  BY <1>1, <1>5, <1>7 DEF StackIs
<1>18. StackIs(Len(doc), new, outer, g, t)
  <2>1. Level(g) \in Nat
    BY <1>17, StackParts
  <2>2. \A m \in Nat : m <= Level(g) => Keeps(mem, new, outer, m)
    BY <1>1, <1>5, <1>15, <2>1
  <2> QED BY <1>17, <2>2, Remembered
<1>19. Finished(new, outer, g)
  <2>1. Len(P) <= Len(P)
    BY <1>1
  <2>2. \A p \in DOMAIN new : InField(p, P, i) => Sound(new, outer, Len(P), p)
    BY <1>1, <1>12, <2>1
  <2> QED BY <1>6, <2>2 DEF Finished
<1>20. StackIs(Len(doc), new, outer, PastValue(g), t)
  BY <1>5, <1>18, <1>19, PastStackIs
<1> QED BY <1>16, <1>20 DEF new, P, i, n, g, t

\* A field that a complete object does not lack.
LEMMA NoneMissing ==
  ASSUME NEW schema \in Schemas, Initialisable(schema), NEW found \in Nat,
         missing(schema, found) = {}, NEW i \in DOMAIN Fields[schema]
  PROVE  i \in DefaultsOf(schema) \/ Has(found, i)
<1>1. CASE Fields[schema][i].policy = "DEFAULT"
  BY <1>1 DEF DefaultsOf, HasDefault
<1>2. CASE Fields[schema][i].policy = "REQUIRED"
  <2> DEFINE S == {j \in DOMAIN Fields[schema] : Fields[schema][j].policy = "REQUIRED"}
  <2>1. S \in SUBSET Bits /\ i \in Bits /\ i \in S
    BY <1>2, FieldBits
  <2>2. required_mask(schema) = Mask(S)
    BY DEF required_mask
  <2> HIDE DEF S
  <2>3. Has(required_mask(schema), i)
    BY <2>1, <2>2, MaskIs
  <2> QED BY <2>3 DEF missing
<1> QED BY <1>1, <1>2, FieldParts

LEMMA ObjectLeft ==
  ASSUME NEW mem, NEW outer, NEW f, NEW rest, StackIs(Len(doc), mem, outer, f, rest),
         MemoryIsSound(mem, outer), ~InArray(f), rest # << >>, missing(f.schema, f.found) = {}
  PROVE  StackIs(Len(doc), mem, outer, PastValue(rest[1]), Tail(rest))
<1> DEFINE g == rest[1]
           t == Tail(rest)
<1>1. /\ f \in Frames /\ f.schema \in Schemas /\ f.path \in Paths /\ outer \in Schemas
      /\ Len(f.path) \in Nat /\ Holds(outer, f.path, f.schema)
      /\ f.found \in Nat /\ Initialisable(f.schema)
  BY StackParts
<1>2. Around(Len(doc), outer, f, rest) /\ ObjectSound(mem, outer, f)
  BY DEF StackIs, FrameSound
<1>3. /\ FrameIs(Len(doc), outer, g) /\ Stands(Len(doc), g) /\ Within(f, g)
      /\ Around(Len(doc), outer, g, t) /\ 1 \in DOMAIN rest /\ Level(g) <= Len(f.path)
      /\ \A k \in DOMAIN t : k + 1 \in DOMAIN rest /\ t[k] = rest[k + 1]
  BY <1>2, PopAround
<1>4. /\ f.path = PathOf(g) /\ FieldOf(g).type = "STRUCT" /\ (FieldOf(g).array => InArray(g))
  BY <1>3 DEF Within
<1>5. FrameSound(mem, outer, g) /\ \A k \in DOMAIN t : FrameSound(mem, outer, t[k])
  BY <1>3 DEF StackIs
<1> HIDE DEF g, t
<1>6. DOMAIN mem \subseteq CellPaths[outer] /\ CellPaths[outer] \subseteq Paths
  BY <1>1, CellPathsIs DEF MemoryIsSound
<1>7. StackIs(Len(doc), mem, outer, g, t)
  BY <1>1, <1>3, <1>5 DEF StackIs
<1>8. Level(g) \in Nat
  BY <1>7, StackParts
<1>9. ASSUME NEW r \in Paths, f.path \o r \in DOMAIN mem
      PROVE  Sound(mem, outer, Level(g), f.path \o r)
  <2>1. r \in CellPaths[f.schema]
    <3>1. f.path \o r \in CellPaths[outer]
      BY <1>6, <1>9
    <3> QED BY <1>1, <3>1, PlaceAt
  <2>2. Len(r) >= 1 /\ r[1] \in DOMAIN Fields[f.schema]
    BY <1>1, <2>1, CellCases
  <2>3. FieldDone(f, r[1])
    BY <1>1, <2>2, NoneMissing DEF FieldDone
  <2> DEFINE p == f.path \o r
  <2>4. InField(p, f.path, r[1])
    BY <2>2 DEF InField
  <2>5. p \in DOMAIN mem /\ p \in Paths
    BY <1>6, <1>9
  <2> HIDE DEF p
  <2>6. Sound(mem, outer, Len(f.path), p)
    BY <1>2, <2>2, <2>3, <2>4, <2>5 DEF ObjectSound
  <2>7. Sound(mem, outer, Level(g), p)
    BY <1>1, <1>3, <1>8, <2>5, <2>6, Farther
  <2> QED BY <2>7 DEF p
<1>10. Finished(mem, outer, g)
  <2>1. \A r \in Paths : PathOf(g) \o r \in DOMAIN mem =>
          Sound(mem, outer, Level(g), PathOf(g) \o r)
    BY <1>4, <1>9
  <2> QED BY <1>3, <1>4, <1>6, <2>1, PlaceFinished
<1>11. StackIs(Len(doc), mem, outer, PastValue(g), t)
  BY <1>3, <1>7, <1>10, PastStackIs
<1> QED BY <1>11 DEF g, t

-----------------------------------------------------------------------------
(* Steps of a parse. *)

Idle == UNCHANGED <<doc, setup, initialized, calls, job>>

LEMMA StackHere ==
  ASSUME UnpackInv, call = "unpacking"
  PROVE  /\ frames # << >> /\ frames \in Seq(Frames) /\ Len(frames) \in Nat /\ Len(frames) >= 1
         /\ Tail(frames) \in Seq(Frames) /\ Len(Tail(frames)) = Len(frames) - 1
         /\ StackIs(Len(doc), output, job.schema, top, Tail(frames))
         /\ doc \in Seq(Byte) /\ MemoryIsSound(output, job.schema) /\ job.schema \in Schemas
         /\ RunInRange(top.run) /\ top \in Frames /\ (InArray(top) => Tail(frames) # << >>)
<1>1. frames # << >>
  BY DEF UnpackInv
<1>2. frames \in Seq(Frames) /\ StackIs(Len(doc), output, job.schema, frames[1], Tail(frames))
  BY <1>1 DEF UnpackInv
<1>3. top = frames[1]
  BY DEF top
<1>4. /\ Len(frames) \in Nat /\ Len(frames) >= 1
      /\ Tail(frames) \in Seq(Frames) /\ Len(Tail(frames)) = Len(frames) - 1
  BY <1>1, <1>2
<1>5. StackIs(Len(doc), output, job.schema, top, Tail(frames))
  BY <1>2, <1>3
<1>6. RunWithin(Len(doc), top.run) /\ job.schema \in Schemas /\ top \in Frames
      /\ (InArray(top) => Tail(frames) # << >>)
  BY <1>5 DEF StackIs, FrameIs, Around
<1> QED BY <1>1, <1>2, <1>4, <1>5, <1>6, RunWithinIs DEF UnpackInv

LEMMA Continues ==
  ASSUME UnpackInv, call = "unpacking", Idle, NEW f, NEW rest, Goes(<<f>> \o rest),
         MemoryIsSound(output', job.schema), StackIs(Len(doc), output', job.schema, f, rest)
  PROVE  UnpackInv'
<1>1. f \in Frames /\ rest \in Seq(Frames) /\ job.schema \in Schemas
  BY DEF StackIs, FrameIs, Around
<1> DEFINE s == <<f>> \o rest
<1>2. s \in Seq(Frames) /\ s # << >> /\ s[1] = f /\ Tail(s) = rest
  BY <1>1
<1>3. frames' = s /\ call' = call
  BY DEF Goes
<1> HIDE DEF s
<1>4. StackIs(Len(doc), output', job.schema, s[1], Tail(s))
  BY <1>2
<1>5. /\ doc' = doc /\ setup' = setup /\ initialized' = initialized /\ job' = job
  BY DEF Idle
<1>6. frames' # << >> /\ call' = "unpacking"
  BY <1>2, <1>3
<1> QED BY <1>1, <1>2, <1>3, <1>4, <1>5, <1>6 DEF UnpackInv

LEMMA Returns ==
  ASSUME UnpackInv, call = "unpacking", Idle, NEW code, NEW at, Return(code, at),
         MemoryIsSound(output', job.schema)
  PROVE  UnpackInv'
<1>1. job.schema \in Schemas
  BY StackHere
<1>2. frames' = << >> /\ call' = "done"
  BY DEF Return
<1>3. /\ doc' = doc /\ setup' = setup /\ initialized' = initialized /\ job' = job
  BY DEF Idle
<1> QED BY <1>1, <1>2, <1>3 DEF UnpackInv

LEMMA RunGoesOn ==
  ASSUME UnpackInv, call = "unpacking", Idle, NEW run, RunInRange(run), RunGoes(run)
  PROVE  UnpackInv'
<1> DEFINE f == [top EXCEPT !.run = run]
           rest == Tail(frames)
<1>1. /\ StackIs(Len(doc), output, job.schema, top, rest) /\ top \in Frames
      /\ MemoryIsSound(output, job.schema)
  BY StackHere
<1>2. run \in Run /\ RunWithin(Len(doc), run)
  BY RunWithinIs DEF RunInRange
<1>3. /\ f \in Frames /\ f.schema = top.schema /\ f.path = top.path /\ f.array = top.array
      /\ f.found = top.found /\ f.count = top.count /\ f.run = run
  <2> HIDE DEF top
  <2> QED BY <1>1, <1>2 DEF Frames
<1>4. Goes(<<f>> \o rest) /\ output' = output
  BY DEF RunGoes
<1> HIDE DEF f, rest
<1>5. Moved(top, f)
  BY <1>3 DEF Moved
<1>6. StackIs(Len(doc), output, job.schema, f, rest)
  BY <1>1, <1>2, <1>3, <1>5, MovedStack
<1>7. MemoryIsSound(output', job.schema) /\ StackIs(Len(doc), output', job.schema, f, rest)
  BY <1>1, <1>4, <1>6
<1> QED BY <1>4, <1>7, Continues

\* The innermost frame at a value.
LEMMA StandingIs ==
  ASSUME UnpackInv, call = "unpacking", NEW value, value = ValueOf(top.run),
         value.type # "INVALID", NEW i \in DOMAIN Fields[top.schema]
  PROVE  /\ StackIs(Len(doc), output, job.schema, Standing(value, i), Tail(frames))
         /\ Standing(value, i).field = i /\ Standing(value, i).value = value
         /\ Standing(value, i).array = top.array /\ Standing(value, i).found = top.found
         /\ Standing(value, i).count = top.count /\ Standing(value, i).schema = top.schema
         /\ ValueWithin(Len(doc), value)
<1> DEFINE f == Standing(value, i)
<1>1. /\ StackIs(Len(doc), output, job.schema, top, Tail(frames)) /\ top \in Frames
      /\ RunInRange(top.run) /\ doc \in Seq(Byte)
  BY StackHere
<1>2. top.schema \in Schemas
  BY <1>1 DEF Frames
<1>3. i \in Nat
  BY <1>2, FieldParts
<1>4. ValueInRange(value)
  BY <1>1, ValueOfIs
<1>5. value \in Values /\ ValueWithin(Len(doc), value)
  BY <1>4, ValueWithinIs DEF ValueInRange
<1>6. /\ f \in Frames /\ f.schema = top.schema /\ f.path = top.path /\ f.array = top.array
      /\ f.found = top.found /\ f.count = top.count /\ f.run = top.run
      /\ f.field = i /\ f.value = value
  <2> HIDE DEF top
  <2>1. f = [top EXCEPT !.value = value, !.field = i]
    BY DEF Standing
  <2> QED BY <1>1, <1>3, <1>5, <2>1 DEF Frames
<1> HIDE DEF f
<1>7. Moved(top, f) /\ RunWithin(Len(doc), f.run)
  BY <1>1, <1>6, RunWithinIs DEF Moved
<1>8. StackIs(Len(doc), output, job.schema, f, Tail(frames))
  BY <1>1, <1>7, MovedStack
<1> QED BY <1>5, <1>6, <1>8 DEF f

LEMMA ArrayStored ==
  ASSUME UnpackInv, call = "unpacking", Idle, NEW frame,
         StackIs(Len(doc), output, job.schema, frame, Tail(frames)),
         Stands(Len(doc), frame), FieldOf(frame).array, ~InArray(frame), StoreArray(frame)
  PROVE  UnpackInv'
<1>1. doc \in Seq(Byte) /\ MemoryIsSound(output, job.schema) /\ Tail(frames) \in Seq(Frames)
      /\ frame \in Frames
  BY StackHere, StackParts
<1>2. CASE frame.value.type = "ARRAY"
  <2> DEFINE f == Frame(frame.schema, frame.path, frame.depth, frame.field,
                        ContainerRun(frame.value))
             below == <<frame>> \o Tail(frames)
  <2>1. StackIs(Len(doc), output, job.schema, f, below)
    BY <1>1, ArrayPushed
  <2>2. Goes(<<f, frame>> \o Tail(frames)) /\ output' = output
    BY <1>2 DEF StoreArray
  <2>3. <<f, frame>> \o Tail(frames) = <<f>> \o below
    <3> DEFINE t == Tail(frames)
    <3>1. t \in Seq(Frames) /\ f \in Frames
      BY <1>1, <2>1 DEF StackIs, FrameIs
    <3> HIDE DEF t, f
    <3> QED BY <1>1, <3>1 DEF t
  <2> HIDE DEF f, below
  <2>4. Goes(<<f>> \o below)
    BY <2>2, <2>3
  <2>5. MemoryIsSound(output', job.schema) /\ StackIs(Len(doc), output', job.schema, f, below)
    BY <1>1, <2>1, <2>2
  <2> QED BY <2>4, <2>5, Continues
<1>3. CASE frame.value.type # "ARRAY"
  <2>1. Return("TYPE", AtField(frame, -1)) /\ output' = output
    BY <1>3 DEF StoreArray
  <2>2. MemoryIsSound(output', job.schema)
    BY <1>1, <2>1
  <2> QED BY <2>1, <2>2, Returns
<1> QED BY <1>2, <1>3

LEMMA StructStored ==
  ASSUME UnpackInv, call = "unpacking", Idle, NEW frame,
         StackIs(Len(doc), output, job.schema, frame, Tail(frames)),
         Stands(Len(doc), frame), FieldOf(frame).array => InArray(frame),
         FieldOf(frame).type = "STRUCT", StoreStruct(frame, FieldOf(frame))
  PROVE  UnpackInv'
<1> DEFINE child == FieldOf(frame).child
           P == PathOf(frame)
           depth == frame.depth + 1
           slice == Slice(frame.value.begin, frame.value.end)
           below == <<frame>> \o Tail(frames)
<1>1. doc \in Seq(Byte) /\ MemoryIsSound(output, job.schema)
  BY StackHere
<1>2. /\ slice.begin \in Nat /\ slice.begin >= 1 /\ slice.end \in 0..Len(doc)
  <2>1. /\ frame.value \in Values /\ frame.value.begin >= 1 /\ frame.value.end \in 0..Len(doc)
    BY DEF Stands, ValueWithin
  <2> QED BY <2>1 DEF Slice, Values
<1>3. CASE frame.value.type = "OBJECT"
  <2>1. kason_unpack_range_internal(child, P, slice, depth, below, output)
    BY <1>3 DEF StoreStruct
  <2>0. depth \in Nat
    BY StackParts DEF Frames
  <2> HIDE DEF slice, depth, child, P, below
  <2> DEFINE code == RejectObject(child, slice, depth)
  <2>2. CASE code = "SUCCESS"
    <3>1. EnterObject(child, P, slice, depth, below, output)
      BY <2>1, <2>2 DEF kason_unpack_range_internal
    <3>2. child \in initialized
      <4>1. CASE depth >= MAX_NESTING
        <5>1. ~(depth < MAX_NESTING)
          BY <2>0, <4>1, NestingAssumption
        <5>2. code = "NESTING"
          BY <4>1, <5>1, Zenon DEF RejectObject
        <5> QED BY <2>2, <5>2
      <4>2. CASE child \notin initialized /\ depth < MAX_NESTING
        <5>1. ~(depth >= MAX_NESTING)
          BY <2>0, <4>2, NestingAssumption
        <5>2. code = "INVALID_SCHEMA"
          BY <4>2, <5>1, Zenon DEF RejectObject
        <5> QED BY <2>2, <5>2
      <4> QED BY <2>0, <4>1, <4>2, NestingAssumption
    <3>3. Initialisable(child)
      BY <3>2 DEF UnpackInv
    <3> DEFINE new == WithDefaults(output, child, P)
               f == Begun(child, P, depth, slice)
    <3>4. output' = new /\ Goes(<<f>> \o below)
      BY <3>1 DEF EnterObject, WithDefaults, Begun
    <3>5. MemoryIsSound(new, job.schema) /\ StackIs(Len(doc), new, job.schema, f, below)
      BY <1>1, <1>2, <3>3, StructPushed DEF child, P, depth, below
    <3> HIDE DEF new, f
    <3>6. MemoryIsSound(output', job.schema) /\ StackIs(Len(doc), output', job.schema, f, below)
      BY <3>4, <3>5
    <3> QED BY <3>4, <3>6, Continues
  <2>3. CASE code # "SUCCESS"
    <3>1. output' = output /\ Return(code, Place(NoField, -1, depth))
      BY <2>1, <2>3 DEF kason_unpack_range_internal
    <3>2. MemoryIsSound(output', job.schema)
      BY <1>1, <3>1
    <3> HIDE DEF code
    <3> QED BY <3>1, <3>2, Returns
  <2> QED BY <2>2, <2>3
<1>4. CASE frame.value.type # "OBJECT"
  <2>1. Return("TYPE", AtField(frame, Index(frame))) /\ output' = output
    BY <1>4 DEF StoreStruct
  <2>2. MemoryIsSound(output', job.schema)
    BY <1>1, <2>1
  <2> QED BY <2>1, <2>2, Returns
<1> QED BY <1>3, <1>4

\* Success is not without a value.
LEMMA StoredIsSomething ==
  ASSUME NEW field, field.type \in Types \ {"STRUCT"}, NEW value,
         kason_schema_store_scalar(field, value).code = "SUCCESS"
  PROVE  kason_schema_store_scalar(field, value).cell # << >>
<1> DEFINE stored == kason_schema_store_scalar(field, value)
           text   == SliceText(value)
<1>1. value.type \in ScalarTypeOf(field.type)
  <2> SUFFICES ASSUME value.type \notin ScalarTypeOf(field.type) PROVE FALSE
    OBVIOUS
  <2>1. stored = Refused("TYPE")
    <3>1. value.type \in {"TRUE", "FALSE"} => field.type # "BOOL"
      BY DEF ScalarTypeOf, StringTypes
    <3>2. value.type = "STRING" => field.type \notin StringTypes
      BY DEF ScalarTypeOf, StringTypes
    <3>3. value.type = "NUMBER" => field.type # "DOUBLE"
      BY DEF ScalarTypeOf, StringTypes
    <3> QED BY <3>1, <3>2, <3>3 DEF kason_schema_store_scalar
  <2> QED BY <2>1 DEF Refused
<1>2. \A v : Stored(v).cell # << >>
  BY DEF Stored
<1>3. CASE field.type = "BOOL"
  <2> DEFINE v == IF value.type = "TRUE" THEN 1 ELSE 0
  <2>1. value.type \in {"TRUE", "FALSE"} /\ field.type \notin StringTypes
        /\ value.type # "STRING" /\ value.type # "NUMBER"
    BY <1>1, <1>3 DEF ScalarTypeOf, StringTypes
  <2>2. stored = Stored(v)
    BY <1>1, <1>3, <2>1, Zenon DEF kason_schema_store_scalar
  <2> QED BY <1>2, <2>2
<1>4. CASE field.type \in StringTypes
  <2> DEFINE units == Units(field.type, text)
  <2>1. value.type = "STRING"
    BY <1>1, <1>4 DEF ScalarTypeOf, StringTypes
  <2>2. stored = UnitsStored(field.size, units)
    BY <1>1, <1>4, <2>1 DEF kason_schema_store_scalar
  <2> HIDE DEF units, stored
  <2>3. stored.code = "SUCCESS"
    BY DEF stored
  <2>4. UnitsStored(field.size, units).cell # << >>
    BY <2>2, <2>3 DEF UnitsStored, Refused, Stored
  <2> QED BY <2>2, <2>4 DEF stored
<1>5. CASE field.type = "DOUBLE"
  <2>1. value.type = "NUMBER" /\ field.type \notin StringTypes
    BY <1>1, <1>5 DEF ScalarTypeOf, StringTypes
  <2> DEFINE c == Number!kason_value_to_double(text)
  <2>2. stored = DoubleStored(text, c)
    BY <1>1, <1>5, <2>1 DEF kason_schema_store_scalar
  <2> HIDE DEF c, stored
  <2>3. stored.code = "SUCCESS"
    BY DEF stored
  <2>4. Refused(kason_schema_conversion_error(c)).code # "SUCCESS"
    BY DEF Refused, kason_schema_conversion_error
  <2>5. stored = Stored(text)
    BY <2>2, <2>3, <2>4 DEF DoubleStored
  <2> QED BY <1>2, <2>5 DEF stored
<1>6. CASE field.type \in {"INT", "INT64", "U32", "U64"}
  <2> DEFINE c == Conversion(field.type, text)
             type == field.type
  <2>1. value.type = "NUMBER" /\ field.type \notin StringTypes
    BY <1>1, <1>6 DEF ScalarTypeOf, StringTypes
  <2>2. stored = NumberStored(type, c)
    BY <1>1, <1>6, <2>1 DEF kason_schema_store_scalar
  <2> HIDE DEF c, stored, type
  <2>3. stored.code = "SUCCESS"
    BY DEF stored
  <2>4. CASE c.result # "SUCCESS"
    <3>1. NumberStored(type, c) = Refused(kason_schema_conversion_error(c))
      BY <2>4, Zenon DEF NumberStored
    <3> QED BY <2>2, <2>3, <3>1 DEF Refused, kason_schema_conversion_error
  <2>5. CASE c.result = "SUCCESS"
    <3>1. NumberStored(type, c) \in {Refused("RANGE"), Stored(c.value)}
      BY <2>5 DEF NumberStored
    <3> QED BY <1>2, <2>2, <2>3, <3>1 DEF Refused, stored
  <2> QED BY <2>4, <2>5
<1> QED BY <1>3, <1>4, <1>5, <1>6 DEF Types, IntegerTypes

LEMMA ScalarGoesOn ==
  ASSUME UnpackInv, call = "unpacking", Idle, NEW frame,
         StackIs(Len(doc), output, job.schema, frame, Tail(frames)),
         Stands(Len(doc), frame), FieldOf(frame).array => InArray(frame),
         FieldOf(frame).type # "STRUCT", StoreScalar(frame, FieldOf(frame))
  PROVE  UnpackInv'
<1> DEFINE stored == kason_schema_store_scalar(FieldOf(frame), frame.value)
           field == FieldOf(frame)
           rest == Tail(frames)
<1>1. doc \in Seq(Byte) /\ MemoryIsSound(output, job.schema)
  BY StackHere
<1>2. /\ frame.schema \in Schemas /\ frame.field \in DOMAIN Fields[frame.schema]
      /\ field = Fields[frame.schema][frame.field]
      /\ ValueInRange(frame.value) /\ frame.value.type # "INVALID"
  BY StackParts, ValueWithinIs DEF Stands, FieldOf
<1>3. field.type \in Types \ {"STRUCT"} /\ field.size \in Nat
  BY <1>2, FieldParts
<1>4. /\ output' = IF stored.cell = << >> THEN output
                   ELSE Written(output, Cell(PathOf(frame), Head(stored.cell)))
      /\ IF stored.code = "SUCCESS" THEN Goes(<<PastValue(frame)>> \o rest)
         ELSE Return(stored.code, AtField(frame, Index(frame)))
  BY DEF StoreScalar
<1>5. stored.code = "SUCCESS" => stored.cell # << >>
  BY <1>1, <1>2, <1>3, StoredIsSomething
<1>6. stored.cell # << >> => ScalarSafe(field, Head(stored.cell))
  BY <1>1, <1>2, <1>3, StoredScalarSafe
<1> HIDE DEF stored
<1>7. CASE stored.cell # << >>
  <2> DEFINE v == Head(stored.cell)
             new == Written(output, Cell(PathOf(frame), v))
  <2>1. ScalarSafe(FieldOf(frame), v) /\ output' = new
    BY <1>4, <1>6, <1>7
  <2> HIDE DEF v
  <2>2. MemoryIsSound(new, job.schema) /\ StackIs(Len(doc), new, job.schema, PastValue(frame), rest)
    BY <1>1, <2>1, ScalarStored
  <2> HIDE DEF new, rest
  <2>3. MemoryIsSound(output', job.schema)
        /\ StackIs(Len(doc), output', job.schema, PastValue(frame), rest)
    BY <2>1, <2>2
  <2>4. CASE stored.code = "SUCCESS"
    <3>1. Goes(<<PastValue(frame)>> \o rest)
      BY <1>4, <2>4
    <3> DEFINE f == PastValue(frame)
    <3>2. Goes(<<f>> \o rest) /\ StackIs(Len(doc), output', job.schema, f, rest)
      BY <2>3, <3>1
    <3> HIDE DEF f
    <3> QED BY <2>3, <3>2, Continues
  <2>5. CASE stored.code # "SUCCESS"
    <3>1. Return(stored.code, AtField(frame, Index(frame)))
      BY <1>4, <2>5
    <3> QED BY <2>3, <3>1, Returns
  <2> QED BY <2>4, <2>5
<1>8. CASE stored.cell = << >>
  <2>1. Return(stored.code, AtField(frame, Index(frame))) /\ output' = output
    BY <1>4, <1>5, <1>8
  <2>2. MemoryIsSound(output', job.schema)
    BY <1>1, <2>1
  <2> QED BY <2>1, <2>2, Returns
<1> QED BY <1>7, <1>8

LEMMA StoreGoesOn ==
  ASSUME UnpackInv, call = "unpacking", Idle, NEW frame,
         StackIs(Len(doc), output, job.schema, frame, Tail(frames)),
         Stands(Len(doc), frame), Store(frame, FieldOf(frame))
  PROVE  UnpackInv'
<1>1. CASE FieldOf(frame).array /\ ~InArray(frame)
  <2>1. StoreArray(frame)
    BY <1>1 DEF Store
  <2> QED BY <1>1, <2>1, ArrayStored
<1>2. CASE ~(FieldOf(frame).array /\ ~InArray(frame)) /\ FieldOf(frame).type = "STRUCT"
  <2>1. StoreStruct(frame, FieldOf(frame))
    BY <1>2 DEF Store
  <2> QED BY <1>2, <2>1, StructStored
<1>3. CASE ~(FieldOf(frame).array /\ ~InArray(frame)) /\ FieldOf(frame).type # "STRUCT"
  <2>1. StoreScalar(frame, FieldOf(frame))
    BY <1>3 DEF Store
  <2> QED BY <1>3, <2>1, ScalarGoesOn
<1> QED BY <1>1, <1>2, <1>3

-----------------------------------------------------------------------------
(* Every action. *)

LEMMA TakeKeeps == ASSUME UnpackInv, Take PROVE UnpackInv'
<1>1. /\ Idle /\ call = "unpacking" /\ RunGoes(Advanced(top.run))
      /\ top.run.state \in {"KEY_BEGIN", "PARAM_SEPARATOR", "COMPLETE"}
  BY DEF Take, Running, Unpacking, Idle
<1>2. RunInRange(Advanced(top.run))
  BY <1>1, StackHere, AdvancedIs
<1> QED BY <1>1, <1>2, RunGoesOn

LEMMA BadValueKeeps == ASSUME UnpackInv, BadValue PROVE UnpackInv'
<1> DEFINE no == FALSE
<1>0. no \in BOOLEAN
  OBVIOUS
<1>1. Idle /\ call = "unpacking" /\ RunGoes(Ended(top.run, no))
  BY DEF BadValue, Running, Unpacking, Idle
<1> HIDE DEF no
<1>2. RunInRange(Ended(top.run, no))
  BY <1>0, <1>1, StackHere, EndedIs
<1> QED BY <1>1, <1>2, RunGoesOn

LEMMA IgnoreMemberKeeps == ASSUME UnpackInv, IgnoreMember PROVE UnpackInv'
<1> DEFINE value == ValueOf(top.run)
<1>1. /\ Idle /\ call = "unpacking" /\ Valid(top.run, value)
      /\ RunGoes(Commit(top.run, value))
  BY DEF IgnoreMember, Running, Unpacking, Idle
<1>2. value.type # "INVALID"
  BY <1>1 DEF Valid
<1>3. RunInRange(top.run) /\ doc \in Seq(Byte)
  BY <1>1, StackHere
<1>4. ValueInRange(value)
  BY <1>3, ValueOfIs
<1> HIDE DEF value
<1>5. value.at \in Nat
  BY <1>2, <1>4 DEF ValueInRange, Values, Inside
<1>6. RunInRange(Commit(top.run, value))
  BY <1>3, <1>5, CommitIs
<1> QED BY <1>1, <1>6, RunGoesOn

LEMMA TakeItemKeeps == ASSUME UnpackInv, TakeItem PROVE UnpackInv'
<1> DEFINE value == ValueOf(top.run)
           f     == Standing(value, top.array)
<1>1. Idle /\ call = "unpacking" /\ InArray(top) /\ Valid(top.run, value) /\ Item(f)
  BY DEF TakeItem, Running, Unpacking, Idle
<1>2. value.type # "INVALID"
  BY <1>1 DEF Valid
<1>3. /\ StackIs(Len(doc), output, job.schema, top, Tail(frames))
      /\ MemoryIsSound(output, job.schema) /\ top \in Frames
  BY <1>1, StackHere
<1>4. top.array \in DOMAIN Fields[top.schema]
  BY <1>1, <1>3 DEF StackIs, FrameIs
<1>5. /\ StackIs(Len(doc), output, job.schema, f, Tail(frames))
      /\ f.field = top.array /\ f.value = value /\ f.array = top.array
      /\ f.count = top.count /\ f.schema = top.schema /\ ValueWithin(Len(doc), value)
  BY <1>1, <1>2, <1>4, StandingIs
<1> HIDE DEF f, value
<1>6. InArray(f) /\ f.count \in Nat /\ f.schema \in Schemas
  BY <1>1, <1>5, StackParts DEF InArray
<1>7. CASE f.count >= FieldOf(f).capacity
  <2>1. Return("ARRAY_CAPACITY", AtField(f, f.count)) /\ output' = output
    BY <1>1, <1>7 DEF Item
  <2>2. MemoryIsSound(output', job.schema)
    BY <1>3, <2>1
  <2> QED BY <1>1, <2>1, <2>2, Returns
<1>8. CASE ~(f.count >= FieldOf(f).capacity)
  <2>1. Store(f, FieldOf(f))
    BY <1>1, <1>8 DEF Item
  <2>2. f.field \in DOMAIN Fields[f.schema]
    BY <1>4, <1>5
  <2>3. FieldOf(f).capacity \in Nat
    BY <1>6, <2>2, FieldParts DEF FieldOf
  <2>4. Stands(Len(doc), f)
    <3>1. f.count < FieldOf(f).capacity
      BY <1>6, <1>8, <2>3
    <3>2. f.field = f.array /\ f.value.type # "INVALID" /\ ValueWithin(Len(doc), f.value)
      BY <1>2, <1>5
    <3> QED BY <1>6, <2>2, <3>1, <3>2 DEF Stands
  <2> QED BY <1>1, <1>5, <2>1, <2>4, StoreGoesOn
<1> QED BY <1>7, <1>8

LEMMA TakeMemberKeeps == ASSUME UnpackInv, TakeMember PROVE UnpackInv'
<1> DEFINE value == ValueOf(top.run)
<1>0. Idle /\ call = "unpacking" /\ ~InArray(top) /\ Valid(top.run, value)
  BY DEF TakeMember, Running, Unpacking, Idle
<1>1. PICK i \in Selected : Member(Standing(value, i))
  BY DEF TakeMember
<1>2. i \in DOMAIN Fields[top.schema]
  BY <1>1 DEF Selected
<1> DEFINE f == Standing(value, i)
<1>3. Member(f)
  BY <1>1
<1>4. value.type # "INVALID"
  BY <1>0 DEF Valid
<1>5. /\ StackIs(Len(doc), output, job.schema, f, Tail(frames))
      /\ f.field = i /\ f.value = value /\ f.array = top.array
      /\ f.schema = top.schema /\ ValueWithin(Len(doc), value)
  BY <1>0, <1>2, <1>4, StandingIs
<1>6. MemoryIsSound(output, job.schema)
  BY <1>0, StackHere
<1> HIDE DEF f, value
<1>7. ~InArray(f)
  BY <1>0, <1>5 DEF InArray
<1>8. CASE Has(f.found, f.field)
  <2>1. Return("DUPLICATE_FIELD", AtField(f, -1)) /\ output' = output
    BY <1>3, <1>8 DEF Member
  <2>2. MemoryIsSound(output', job.schema)
    BY <1>6, <2>1
  <2> QED BY <1>0, <2>1, <2>2, Returns
<1>9. CASE ~Has(f.found, f.field)
  <2>1. Store(f, FieldOf(f))
    BY <1>3, <1>9 DEF Member
  <2>2. Stands(Len(doc), f)
    <3>1. f.field \in DOMAIN Fields[f.schema]
      BY <1>2, <1>5
    <3>2. f.value.type # "INVALID" /\ ValueWithin(Len(doc), f.value)
      BY <1>4, <1>5
    <3> QED BY <1>7, <1>9, <3>1, <3>2 DEF Stands
  <2> QED BY <1>0, <1>5, <2>1, <2>2, StoreGoesOn
<1> QED BY <1>8, <1>9

LEMMA FailParseKeeps == ASSUME UnpackInv, FailParse PROVE UnpackInv'
<1>1. Idle /\ call = "unpacking" /\ output' = output
  BY DEF FailParse, Running, Unpacking, Idle
<1>2. \E at : Return("ERROR", at)
  BY DEF FailParse
<1>3. MemoryIsSound(output', job.schema)
  BY <1>1, StackHere
<1> QED BY <1>1, <1>2, <1>3, Returns

LEMMA MissFieldKeeps == ASSUME UnpackInv, MissField PROVE UnpackInv'
<1>1. Idle /\ call = "unpacking" /\ output' = output
  BY DEF MissField, Running, Unpacking, Idle
<1>2. \E at : Return("MISSING_FIELD", at)
  BY DEF MissField
<1>3. MemoryIsSound(output', job.schema)
  BY <1>1, StackHere
<1> QED BY <1>1, <1>2, <1>3, Returns

\* The frame around the innermost.
LEMMA SecondFrame ==
  ASSUME UnpackInv, call = "unpacking", Len(frames) # 1
  PROVE  Tail(frames) # << >> /\ frames[2] = Tail(frames)[1]
<1>1. frames \in Seq(Frames) /\ Len(frames) \in Nat /\ Len(frames) >= 1
  BY StackHere
<1> QED BY SMTT(40), <1>1

LEMMA LeaveArrayKeeps == ASSUME UnpackInv, LeaveArray PROVE UnpackInv'
<1> DEFINE rest == Tail(frames)
           c    == CountAt(top.path, top.array)
           new  == Written(output, Cell(c, top.count))
           f    == PastValue(rest[1])
<1>1. /\ Idle /\ call = "unpacking" /\ InArray(top)
      /\ output' = Written(output, Cell(top.path \o <<top.array, 0>>, top.count))
      /\ Goes(<<PastValue(frames[2])>> \o Tail(rest))
  BY DEF LeaveArray, Running, Unpacking, Idle
<1>2. output' = new
  BY <1>1 DEF CountAt
<1>3. /\ StackIs(Len(doc), output, job.schema, top, rest) /\ rest # << >>
      /\ MemoryIsSound(output, job.schema) /\ frames \in Seq(Frames) /\ Len(frames) \in Nat
      /\ Len(rest) = Len(frames) - 1 /\ rest \in Seq(Frames)
  BY <1>1, StackHere
<1>4. frames[2] = rest[1]
  BY <1>3
<1>5. Goes(<<f>> \o Tail(rest))
  BY <1>1, <1>4
<1> HIDE DEF rest
<1>6. MemoryIsSound(new, job.schema) /\ StackIs(Len(doc), new, job.schema, f, Tail(rest))
  BY <1>1, <1>3, ArrayLeft
<1> HIDE DEF new, f
<1>7. MemoryIsSound(output', job.schema) /\ StackIs(Len(doc), output', job.schema, f, Tail(rest))
  BY <1>2, <1>6
<1> QED BY <1>1, <1>5, <1>7, Continues

LEMMA LeaveObjectKeeps == ASSUME UnpackInv, LeaveObject PROVE UnpackInv'
<1> DEFINE rest == Tail(frames)
           f    == PastValue(rest[1])
<1>1. /\ Idle /\ call = "unpacking" /\ ~InArray(top) /\ output' = output
      /\ missing(top.schema, top.found) = {}
  BY DEF LeaveObject, Running, Unpacking, Idle
<1>2. StackIs(Len(doc), output, job.schema, top, rest) /\ MemoryIsSound(output, job.schema)
  BY <1>1, StackHere
<1>3. MemoryIsSound(output', job.schema)
  BY <1>1, <1>2
<1>4. CASE Len(frames) = 1
  <2>1. \E at : Return("SUCCESS", at)
    BY <1>4 DEF LeaveObject
  <2> QED BY <1>1, <1>3, <2>1, Returns
<1>5. CASE Len(frames) # 1
  <2>1. rest # << >> /\ frames[2] = rest[1]
    BY <1>1, <1>5, SecondFrame
  <2>2. Goes(<<PastValue(frames[2])>> \o Tail(rest))
    BY <1>5 DEF LeaveObject
  <2>3. Goes(<<f>> \o Tail(rest))
    BY <2>1, <2>2
  <2> HIDE DEF rest
  <2>4. StackIs(Len(doc), output, job.schema, f, Tail(rest))
    BY <1>1, <1>2, <2>1, ObjectLeft
  <2> HIDE DEF f
  <2>5. StackIs(Len(doc), output', job.schema, f, Tail(rest))
    BY <1>1, <2>4
  <2> QED BY <1>1, <1>3, <2>3, <2>5, Continues
<1> QED BY <1>4, <1>5

LEMMA UnpackStepKeeps == ASSUME UnpackInv, UnpackStep PROVE UnpackInv'
BY TakeKeeps, BadValueKeeps, TakeItemKeeps, TakeMemberKeeps, IgnoreMemberKeeps, FailParseKeeps,
   LeaveArrayKeeps, MissFieldKeeps, LeaveObjectKeeps DEF UnpackStep

-----------------------------------------------------------------------------
(* What the application does. *)
LEMMA InitSchemaKeeps == ASSUME UnpackInv, InitSchema PROVE UnpackInv'
<1>1. /\ setup # << >> /\ setup' = Tail(setup)
      /\ initialized' = IF kason_schema_init(Head(setup), initialized)
                        THEN initialized \cup {Head(setup)} ELSE initialized \ {Head(setup)}
  BY DEF InitSchema
<1>2. /\ doc' = doc /\ call' = call /\ job' = job /\ frames' = frames /\ output' = output
  BY DEF InitSchema, callVars
<1>3. setup \in Seq(Schemas)
  BY DEF UnpackInv
<1>4. Head(setup) \in Schemas /\ setup' \in Seq(Schemas)
  BY <1>1, <1>3
<1>5. kason_schema_init(Head(setup), initialized) => Initialisable(Head(setup))
  BY DEF kason_schema_init, kason_schema_validate_field, Initialisable
<1>6. \A schema \in initialized : schema \in Schemas /\ Initialisable(schema)
  BY DEF UnpackInv
<1>7. \A schema \in initialized' : schema \in Schemas /\ Initialisable(schema)
  BY <1>1, <1>4, <1>5, <1>6
<1> QED BY <1>2, <1>4, <1>7 DEF UnpackInv

LEMMA ReceiveKeeps == ASSUME UnpackInv, Receive PROVE UnpackInv'
<1>1. doc' \in Documents \cup Later /\ call' = "idle" /\ call # "unpacking"
  BY DEF Receive
<1>2. /\ setup' = setup /\ initialized' = initialized /\ job' = job /\ frames' = frames
      /\ output' = output
  BY DEF Receive, callVars
<1>3. doc' \in Seq(Byte)
  BY <1>1, DocumentsAssumption
<1>4. frames = << >>
  BY <1>1 DEF UnpackInv
<1> QED BY <1>1, <1>2, <1>3, <1>4 DEF UnpackInv

LEMMA MemoryOfJob ==
  ASSUME UnpackInv, NEW schema \in Schemas
  PROVE  MemoryIsSound(Memory(schema), schema)
<1>1. CASE schema = job.schema
  BY <1>1 DEF Memory, UnpackInv
<1>2. CASE schema # job.schema
  BY <1>2 DEF Memory, MemoryIsSound
<1> QED BY <1>1, <1>2

LEMMA UnpackKeeps == ASSUME UnpackInv, Unpack PROVE UnpackInv'
<1>1. PICK schema \in Roots, flags \in {"STRICT", "RELAXED", "UNKNOWN"} :
        kason_unpack(schema, flags)
  BY DEF Unpack
<1>2. schema \in Schemas
  BY <1>1, SetupsAssumption
<1>3. /\ doc' = doc /\ setup' = setup /\ initialized' = initialized
  BY DEF Unpack
<1>4. job'.schema = schema
  BY <1>1 DEF kason_unpack
<1> DEFINE mem   == Memory(schema)
           slice == Slice(1, Len(doc))
           code  == RejectObject(schema, slice, 0)
<1>5. MemoryIsSound(mem, schema)
  BY <1>2, MemoryOfJob
<1>6. /\ doc \in Seq(Byte) /\ setup \in Seq(Schemas)
      /\ \A s \in initialized : s \in Schemas /\ Initialisable(s)
  BY DEF UnpackInv
<1>7. CASE code # "SUCCESS"
  <2>1. frames' = << >> /\ output' = mem /\ call' = "done"
    BY <1>1, <1>7 DEF kason_unpack
  <2>2. MemoryIsSound(output', job'.schema)
    BY <1>4, <1>5, <2>1
  <2> QED BY <1>2, <1>3, <1>4, <1>6, <2>1, <2>2 DEF UnpackInv
<1>8. CASE code = "SUCCESS"
  <2> DEFINE root == 0
             here == << >>
             f    == Begun(schema, here, root, slice)
             new  == WithDefaults(mem, schema, here)
  <2>1. frames' = <<f>> /\ output' = new /\ call' = "unpacking"
    BY <1>1, <1>8 DEF kason_unpack, Begun, WithDefaults
  <2>2. schema \in initialized
    <3>1. CASE 0 >= MAX_NESTING
      BY <3>1, NestingAssumption
    <3>2. CASE schema \notin initialized /\ 0 < MAX_NESTING
      <4>1. ~(0 >= MAX_NESTING)
        BY <3>2, NestingAssumption
      <4>2. code = "INVALID_SCHEMA"
        BY <3>2, <4>1, Zenon DEF RejectObject
      <4> QED BY <1>8, <4>2
    <3> QED BY <3>1, <3>2, NestingAssumption
  <2>3. Initialisable(schema) /\ Holds(schema, here, schema)
    BY <1>2, <1>6, <2>2, HoldsHere
  <2>4. slice.begin \in Nat /\ slice.begin >= 1 /\ slice.end \in 0..Len(doc)
    BY <1>6 DEF Slice
  <2>0. root \in Nat
    OBVIOUS
  <2> HIDE DEF mem, slice, code, root, here
  <2>5. /\ MemoryIsSound(new, schema) /\ FrameIs(Len(doc), schema, f) /\ FrameSound(new, schema, f)
        /\ ~InArray(f)
    BY <1>5, <1>6, <2>0, <2>3, <2>4, ObjectBegun
  <2> HIDE DEF f, new
  <2>6. Around(Len(doc), schema, f, << >>)
    BY <2>5 DEF Around
  <2>7. StackIs(Len(doc), new, schema, f, << >>)
    BY <1>2, <2>5, <2>6 DEF StackIs
  <2>8. frames' \in Seq(Frames) /\ frames'[1] = f /\ Tail(frames') = << >> /\ frames' # << >>
    <3>1. f \in Frames
      BY <2>5 DEF FrameIs
    <3> QED BY <2>1, <3>1
  <2>9. /\ MemoryIsSound(output', job'.schema)
        /\ StackIs(Len(doc'), output', job'.schema, frames'[1], Tail(frames'))
    BY <1>3, <1>4, <2>1, <2>5, <2>7, <2>8
  <2> QED BY <1>2, <1>3, <1>4, <1>6, <2>1, <2>8, <2>9 DEF UnpackInv
<1> QED BY <1>7, <1>8

LEMMA StutterKeeps == ASSUME UnpackInv, UNCHANGED unpackVars PROVE UnpackInv'
BY DEF UnpackInv, unpackVars, callVars

LEMMA InitUnpackInv == Init => UnpackInv
<1> SUFFICES ASSUME Init PROVE UnpackInv
  OBVIOUS
<1>1. setup \in Seq(Schemas)
  BY SetupsAssumption DEF Init
<1>2. MemoryIsSound(output, job.schema)
  BY DEF Init, MemoryIsSound
<1> QED BY <1>1, <1>2 DEF Init, UnpackInv

LEMMA SafeHere == UnpackInv => MemoryIsSafe
<1> SUFFICES ASSUME UnpackInv, NEW p \in DOMAIN output
             PROVE  /\ p \in CellPaths[job.schema]
                    /\ CellFits(FieldAt[<<job.schema, p>>], p, output[p])
                    /\ InUse(p) => CellIsSafe(FieldAt[<<job.schema, p>>], p, output[p])
  BY DEF MemoryIsSafe
<1>1. p \in CellPaths[job.schema] /\ Fits(job.schema, p, output[p])
      /\ Sound(output, job.schema, 0, p)
  BY DEF UnpackInv, MemoryIsSound
<1>4. InUse(p) => Live(output, 0, p)
  BY DEF InUse, Live
<1>5. Safe(output, job.schema, p) => CellIsSafe(FieldAt[<<job.schema, p>>], p, output[p])
  BY DEF Safe, CellIsSafe, CountIsSafe
<1> QED BY <1>1, <1>4, <1>5 DEF Sound, Fits

(* The stack of calls: each one unpacks a struct, or an array of one, that  *)
(* lies in the struct of the one around it.                                 *)
THEOREM UnpackInductive == Spec => []UnpackInv
<1>1. Init => UnpackInv
  BY InitUnpackInv
<1>2. UnpackInv /\ [Next]_unpackVars => UnpackInv'
  BY UnpackStepKeeps, InitSchemaKeeps, ReceiveKeeps, UnpackKeeps, StutterKeeps DEF Next
<1> QED BY <1>1, <1>2, PTL DEF Spec

THEOREM MemoryStaysSafe == Spec => []MemoryIsSafe
<1>1. UnpackInv => MemoryIsSafe
  BY SafeHere
<1> QED BY <1>1, UnpackInductive, PTL
=============================================================================
