--------------------------- MODULE KasonScanProofs ---------------------------
(***************************************************************************)
(* Proofs about the action parser, for every document, every nesting limit *)
(* and every callback.                                                     *)
(*                                                                         *)
(* Nothing is assumed of what positions and slices are: the arguments are  *)
(* about the stack of open containers and about the order of the calls.    *)
(***************************************************************************)
EXTENDS KasonScan, SequenceTheorems, TLAPS

IsSeq(s) == \E S : s \in Seq(S)

(* A sequence is the sequence of its elements.                             *)
LEMMA SameSeq ==
  ASSUME NEW s, NEW t, IsSeq(s), IsSeq(t), Len(s) = Len(t),
         \A k \in 1..Len(s) : s[k] = t[k]
  PROVE  s = t
<1>1. PICK S : s \in Seq(S)
  BY DEF IsSeq
<1>2. PICK T : t \in Seq(T)
  BY DEF IsSeq
<1>3. s \in Seq(S \cup T) /\ t \in Seq(S \cup T)
  BY <1>1, <1>2, SeqMonotonic
<1> QED BY <1>3, SeqEqual

LEMMA Lengths ==
  ASSUME NEW s, IsSeq(s)
  PROVE  Len(s) \in Nat /\ (s = << >> <=> Len(s) = 0) /\ (s # << >> => Head(s) = s[1])
<1>1. PICK S : s \in Seq(S)
  BY DEF IsSeq
<1> QED BY <1>1, EmptySeq

LEMMA ConsSeq ==
  ASSUME NEW s, IsSeq(s), NEW f
  PROVE  LET t == <<f>> \o s
         IN  /\ IsSeq(t) /\ t # << >> /\ Head(t) = f /\ Tail(t) = s
             /\ Len(t) = Len(s) + 1 /\ t[1] = f
             /\ \A k \in 1..Len(s) : t[k + 1] = s[k]
<1>1. PICK S : s \in Seq(S)
  BY DEF IsSeq
<1> DEFINE T == S \cup {f}
           t == <<f>> \o s
<1>2. s \in Seq(T) /\ <<f>> \in Seq(T) /\ Len(<<f>>) = 1 /\ <<f>>[1] = f
  BY <1>1, SeqMonotonic
<1> HIDE DEF T
<1>3. t \in Seq(T) /\ Len(t) = Len(s) + 1 /\ Len(s) \in Nat
      /\ \A k \in 1..(Len(s) + 1) : t[k] = IF k <= 1 THEN <<f>>[k] ELSE s[k - 1]
  BY <1>2, ConcatProperties, LenProperties
<1> HIDE DEF t
<1>4. t[1] = f /\ \A k \in 1..Len(s) : t[k + 1] = s[k]
  BY <1>2, <1>3
<1>5. t # << >> /\ Head(t) = f
  BY <1>3, <1>4, EmptySeq
<1>6. Tail(t) \in Seq(T) /\ Len(Tail(t)) = Len(s) /\ \A k \in 1..Len(s) : Tail(t)[k] = t[k + 1]
  BY <1>3, <1>5, HeadTailProperties
<1>7. Tail(t) = s
  BY <1>2, <1>4, <1>6, SeqEqual
<1>8. IsSeq(t)
  BY <1>3 DEF IsSeq
<1> QED BY <1>3, <1>4, <1>5, <1>7, <1>8 DEF t

LEMMA TailSeq ==
  ASSUME NEW s, IsSeq(s), s # << >>
  PROVE  /\ IsSeq(Tail(s)) /\ Len(Tail(s)) = Len(s) - 1
         /\ \A k \in 1..(Len(s) - 1) : Tail(s)[k] = s[k + 1]
<1>1. PICK S : s \in Seq(S)
  BY DEF IsSeq
<1> QED BY <1>1, HeadTailProperties DEF IsSeq

LEMMA AppendSeq ==
  ASSUME NEW s, IsSeq(s), NEW e
  PROVE  LET t == Append(s, e)
         IN  IsSeq(t) /\ t # s /\ t # << >> /\ t[Len(t)] = e
<1>1. PICK S : s \in Seq(S)
  BY DEF IsSeq
<1> DEFINE T == S \cup {e}
<1>2. s \in Seq(T) /\ e \in T
  BY <1>1, SeqMonotonic
<1> HIDE DEF T
<1>3. Append(s, e) \in Seq(T) /\ Len(Append(s, e)) = Len(s) + 1 /\ Len(s) \in Nat
      /\ Append(s, e)[Len(s) + 1] = e
  BY <1>2
<1> QED BY <1>3, EmptySeq DEF IsSeq

-----------------------------------------------------------------------------
(***************************************************************************)
(* Frames.                                                                 *)
(***************************************************************************)
IsFrame(f) ==
  /\ f = [type |-> f.type, opening |-> f.opening, key |-> f.key, emit |-> f.emit,
          action |-> f.action, count |-> f.count]
  /\ f.type \in Traversal!Types /\ f.emit \in BOOLEAN
  /\ f.action \in {ENTER, CAPTURE, SKIP} /\ f.count \in Nat

LEMMA FrameIsFrame ==
  ASSUME NEW p, NEW k, NEW emit \in BOOLEAN,
         NEW action \in {ENTER, CAPTURE, SKIP}
  PROVE  /\ IsFrame(Frame(TypeAt(p), p, k, emit, action))
         /\ Frame(TypeAt(p), p, k, emit, action).emit = emit
         /\ Frame(TypeAt(p), p, k, emit, action).action = action
BY DEF IsFrame, Frame, TypeAt, Traversal!Types

LEMMA CountedFrame ==
  ASSUME NEW f, IsFrame(f)
  PROVE  /\ IsFrame(Counted(f)) /\ Counted(f).type = f.type
         /\ Counted(f).opening = f.opening /\ Counted(f).key = f.key
         /\ Counted(f).emit = f.emit /\ Counted(f).action = f.action
         /\ Counted(f).count = f.count + 1
<1> DEFINE g == [type |-> f.type, opening |-> f.opening, key |-> f.key,
                 emit |-> f.emit, action |-> f.action, count |-> f.count]
<1>1. f = g
  BY DEF IsFrame
<1>2. Counted(g) = [type |-> f.type, opening |-> f.opening, key |-> f.key,
                    emit |-> f.emit, action |-> f.action, count |-> f.count + 1]
  BY DEF Counted
<1> HIDE DEF g
<1>3. Counted(f) = [type |-> f.type, opening |-> f.opening, key |-> f.key,
                    emit |-> f.emit, action |-> f.action, count |-> f.count + 1]
  BY <1>1, <1>2
<1>4. /\ f.type \in Traversal!Types /\ f.emit \in BOOLEAN
      /\ f.action \in {ENTER, CAPTURE, SKIP} /\ f.count \in Nat
  BY DEF IsFrame
<1> HIDE DEF Counted
<1> QED BY <1>3, <1>4 DEF IsFrame

Framed(s) == IsSeq(s) /\ \A k \in 1..Len(s) : IsFrame(s[k])
\* The n innermost containers, and no others, have their end unreported.
Shows(s, n) == n \in 0..Len(s) /\ HidesTop(s, n)
View(s) == KnownOf(s, Hidden(s))
EnteredIn(s) == s # << >> => (Head(s).emit /\ Head(s).action = ENTER)

LEMMA HiddenIs ==
  ASSUME NEW s, Framed(s), NEW n, Shows(s, n)
  PROVE  Hidden(s) = n
<1>1. Len(s) \in Nat
  BY Lengths DEF Framed
<1>2. ASSUME NEW m \in 0..Len(s), HidesTop(s, m) PROVE m = n
  BY <1>1, <1>2 DEF Shows, HidesTop
<1> QED BY <1>2 DEF Hidden, Shows

LEMMA ViewIs ==
  ASSUME NEW s, Framed(s), NEW n, Shows(s, n)
  PROVE  /\ IsSeq(View(s)) /\ Len(View(s)) = Len(s) - n
         /\ \A k \in 1..(Len(s) - n) : View(s)[k] = OpenOf(s[k + n], IF k + n = 1 THEN 0 ELSE 1)
<1>1. Len(s) \in Nat /\ n \in 0..Len(s)
  BY Lengths DEF Framed, Shows
<1> DEFINE m == Len(s) - n
           S == {OpenOf(s[k + n], IF k + n = 1 THEN 0 ELSE 1) : k \in 1..m}
<1>2. m \in Nat /\ View(s) = [k \in 1..m |-> OpenOf(s[k + n], IF k + n = 1 THEN 0 ELSE 1)]
  BY <1>1, HiddenIs DEF View, KnownOf
<1>3. \A k \in 1..m : OpenOf(s[k + n], IF k + n = 1 THEN 0 ELSE 1) \in S
  OBVIOUS
<1> HIDE DEF m, S
<1>4. View(s) \in Seq(S) /\ Len(View(s)) = m
  BY <1>2, <1>3
<1>5. \A k \in 1..m : View(s)[k] = OpenOf(s[k + n], IF k + n = 1 THEN 0 ELSE 1)
  BY <1>2
<1> QED BY <1>4, <1>5 DEF m, IsSeq

(* Going on after a child leaves the open containers as they are, but for  *)
(* the count of the innermost.                                             *)
Recounted(s) == IF s = << >> THEN << >> ELSE <<Counted(Head(s))>> \o Tail(s)

LEMMA RecountedIs ==
  ASSUME NEW s, Framed(s), NEW n, Shows(s, n)
  PROVE  /\ Framed(Recounted(s)) /\ Shows(Recounted(s), n)
         /\ Len(Recounted(s)) = Len(s)
         /\ \A k \in 1..Len(s) : Recounted(s)[k] = IF k = 1 THEN Counted(s[1]) ELSE s[k]
<1>1. CASE s = << >>
  BY <1>1, Lengths DEF Recounted, Framed
<1>2. CASE s # << >>
  <2> DEFINE c == Counted(Head(s))
             r == Tail(s)
             t == <<c>> \o r
  <2>1. Len(s) \in Nat \ {0} /\ Head(s) = s[1]
    BY <1>2, Lengths DEF Framed
  <2>2. IsSeq(r) /\ Len(r) = Len(s) - 1 /\ \A k \in 1..(Len(s) - 1) : r[k] = s[k + 1]
    BY <1>2, TailSeq DEF Framed
  <2>3. IsFrame(s[1])
    BY <2>1 DEF Framed
  <2>4. IsFrame(c) /\ c.emit = s[1].emit /\ c.action = s[1].action /\ c = Counted(s[1])
    BY <2>1, <2>3, CountedFrame
  <2> HIDE DEF c, r
  <2>5. IsSeq(t) /\ Len(t) = Len(r) + 1 /\ t[1] = c /\ \A k \in 1..Len(r) : t[k + 1] = r[k]
    <3>1. IsSeq(r)
      BY <2>2
    <3> SUFFICES IsSeq(<<c>> \o r) /\ Len(<<c>> \o r) = Len(r) + 1 /\ (<<c>> \o r)[1] = c
                 /\ \A k \in 1..Len(r) : (<<c>> \o r)[k + 1] = r[k]
      OBVIOUS
    <3> HIDE DEF t
    <3> QED BY <3>1, ConsSeq
  <2> HIDE DEF t
  <2>6. Len(t) = Len(s) /\ \A k \in 1..Len(s) : t[k] = IF k = 1 THEN c ELSE s[k]
    <3>1. Len(t) = Len(s)
      BY <2>1, <2>2, <2>5
    <3>2. ASSUME NEW k \in 1..Len(s), k # 1 PROVE t[k] = s[k]
      <4>1. k - 1 \in 1..Len(r) /\ (k - 1) + 1 = k
        BY <2>1, <2>2, <3>2
      <4> QED BY <4>1, <2>2, <2>5
    <3> QED BY <3>1, <3>2, <2>5
  <2>7. Framed(t)
    BY <2>4, <2>5, <2>6 DEF Framed
  <2>8. \A k \in 1..Len(s) : Reported(t[k]) = Reported(s[k])
    BY <2>4, <2>6 DEF Reported
  <2>9. Shows(t, n)
    BY <2>1, <2>6, <2>8 DEF Shows, HidesTop
  <2>10. Recounted(s) = t
    BY <1>2 DEF Recounted, t, c, r
  <2> QED BY <2>4, <2>6, <2>7, <2>9, <2>10
<1> QED BY <1>1, <1>2

LEMMA TailShows ==
  ASSUME NEW s, Framed(s), NEW n, Shows(s, n), s # << >>
  PROVE  Framed(Tail(s)) /\ Shows(Tail(s), IF n = 0 THEN 0 ELSE n - 1)
<1>1. Len(s) \in Nat \ {0}
  BY Lengths DEF Framed
<1>2. IsSeq(Tail(s)) /\ Len(Tail(s)) = Len(s) - 1
      /\ \A k \in 1..(Len(s) - 1) : Tail(s)[k] = s[k + 1]
  BY TailSeq DEF Framed
<1> DEFINE r == Tail(s)
<1> HIDE DEF r
<1>3. IsSeq(r) /\ Len(r) = Len(s) - 1 /\ \A k \in 1..(Len(s) - 1) : r[k] = s[k + 1]
  BY <1>2 DEF r
<1>4. Framed(r)
  BY <1>1, <1>3 DEF Framed
<1>5. n = 0 => Shows(r, 0)
  BY <1>1, <1>3 DEF Shows, HidesTop
<1>6. ASSUME n # 0 PROVE Shows(r, n - 1)
  <2>1. n - 1 \in 0..Len(r)
    BY <1>1, <1>3, <1>6 DEF Shows
  <2>2. ASSUME NEW k \in 1..(n - 1) PROVE ~Reported(r[k])
    BY <1>1, <1>3, <1>6 DEF Shows, HidesTop
  <2>3. ASSUME NEW k \in ((n - 1) + 1)..Len(r) PROVE Reported(r[k])
    BY <1>1, <1>3, <1>6 DEF Shows, HidesTop
  <2> QED BY <2>1, <2>2, <2>3 DEF Shows, HidesTop
<1> QED BY <1>4, <1>5, <1>6 DEF r

LEMMA PushShows ==
  ASSUME NEW s, Framed(s), NEW n, Shows(s, n), NEW f, IsFrame(f),
         Reported(f) => n = 0
  PROVE  Framed(<<f>> \o s) /\ Shows(<<f>> \o s, IF Reported(f) THEN 0 ELSE n + 1)
<1> DEFINE t == <<f>> \o s
<1>1. Len(s) \in Nat
  BY Lengths DEF Framed
<1>2. IsSeq(t) /\ Len(t) = Len(s) + 1 /\ t[1] = f /\ \A k \in 1..Len(s) : t[k + 1] = s[k]
  BY ConsSeq DEF Framed
<1> HIDE DEF t
<1>3. \A k \in 1..Len(t) : k = 1 \/ (k - 1 \in 1..Len(s) /\ t[k] = s[k - 1])
  <2>1. ASSUME NEW k \in 1..Len(t), k # 1 PROVE k - 1 \in 1..Len(s) /\ t[k] = s[k - 1]
    <3>1. k - 1 \in 1..Len(s) /\ (k - 1) + 1 = k
      BY <1>1, <1>2, <2>1
    <3> QED BY <3>1, <1>2
  <2> QED BY <2>1
<1>4. Framed(t)
  BY <1>2, <1>3 DEF Framed
<1>5. ASSUME Reported(f) PROVE Shows(t, 0)
  <2>1. \A k \in 1..Len(s) : Reported(s[k])
    BY <1>1, <1>5 DEF Shows, HidesTop
  <2>2. \A k \in 1..Len(t) : Reported(t[k])
    BY <1>2, <1>3, <1>5, <2>1
  <2> QED BY <1>1, <1>2, <2>2 DEF Shows, HidesTop
<1>6. ASSUME ~Reported(f) PROVE Shows(t, n + 1)
  <2>1. n + 1 \in 0..Len(t)
    BY <1>1, <1>2 DEF Shows
  <2>2. ASSUME NEW k \in 1..(n + 1) PROVE ~Reported(t[k])
    <3>1. CASE k = 1
      BY <3>1, <1>2, <1>6
    <3>2. CASE k # 1
      BY <3>2, <1>1, <1>2, <1>3 DEF Shows, HidesTop
    <3> QED BY <3>1, <3>2
  <2>3. ASSUME NEW k \in ((n + 1) + 1)..Len(t) PROVE Reported(t[k])
    BY <1>1, <1>2, <1>3 DEF Shows, HidesTop
  <2> QED BY <2>1, <2>2, <2>3 DEF Shows, HidesTop
<1> QED BY <1>4, <1>5, <1>6 DEF t

-----------------------------------------------------------------------------
(***************************************************************************)
(* What the callback knows, before and after a change of the stack.        *)
(***************************************************************************)
ChildAdded(open) ==
  IF open = << >> THEN << >>
  ELSE <<[Head(open) EXCEPT !.children = @ + 1]>> \o Tail(open)
Passed(s) == [k \in 1..Len(s) |-> OpenOf(s[k], 1)]

LEMMA PassedIs ==
  ASSUME NEW s, Framed(s)
  PROVE  /\ IsSeq(Passed(s)) /\ Len(Passed(s)) = Len(s)
         /\ \A k \in 1..Len(s) : Passed(s)[k] = OpenOf(s[k], 1)
<1> DEFINE m == Len(s)
           S == {OpenOf(s[k], 1) : k \in 1..m}
<1>1. m \in Nat
  BY Lengths DEF Framed
<1>2. \A k \in 1..m : OpenOf(s[k], 1) \in S
  OBVIOUS
<1>3. Passed(s) = [k \in 1..m |-> OpenOf(s[k], 1)]
  BY DEF Passed
<1> HIDE DEF m, S
<1>4. Passed(s) \in Seq(S) /\ Len(Passed(s)) = m
  BY <1>1, <1>2, <1>3
<1> QED BY <1>3, <1>4 DEF m, IsSeq

LEMMA EnteredShows ==
  ASSUME NEW s, Framed(s), NEW n, Shows(s, n), EnteredIn(s)
  PROVE  n = 0 /\ (s # << >> => s[1].emit /\ s[1].action = ENTER)
<1>1. Len(s) \in Nat /\ (s = << >> <=> Len(s) = 0) /\ (s # << >> => Head(s) = s[1])
  BY Lengths DEF Framed
<1>2. CASE s = << >>
  BY <1>1, <1>2 DEF Shows
<1>3. CASE s # << >>
  BY <1>1, <1>3 DEF Shows, HidesTop, EnteredIn, Reported, ENTER, SKIP
<1> QED BY <1>2, <1>3

(* A child is reported to an entered container, or is the root.            *)
LEMMA ChildIsPassed ==
  ASSUME NEW s, Framed(s), NEW n, Shows(s, n), EnteredIn(s)
  PROVE  ChildAdded(View(s)) = Passed(s)
<1>1. n = 0 /\ (s # << >> => s[1].action = ENTER)
  BY EnteredShows
<1>2. Len(s) \in Nat /\ (s = << >> <=> Len(s) = 0)
  BY Lengths DEF Framed
<1> DEFINE v == View(s)
<1>3. IsSeq(v) /\ Len(v) = Len(s) /\ \A k \in 1..Len(s) : v[k] = OpenOf(s[k], IF k = 1 THEN 0 ELSE 1)
  <2>1. Len(s) - 0 = Len(s) /\ \A k \in 1..Len(s) : k + 0 = k
    BY <1>2
  <2> QED BY <1>1, <2>1, ViewIs
<1>4. IsSeq(Passed(s)) /\ Len(Passed(s)) = Len(s)
      /\ \A k \in 1..Len(s) : Passed(s)[k] = OpenOf(s[k], 1)
  BY PassedIs
<1> HIDE DEF v
<1>5. CASE s = << >>
  BY <1>2, <1>3, <1>4, <1>5, Lengths DEF ChildAdded, v
<1>6. CASE s # << >>
  <2> DEFINE h == [Head(v) EXCEPT !.children = @ + 1]
             r == Tail(v)
             t == <<h>> \o r
  <2>1. v # << >> /\ Head(v) = v[1] /\ Len(s) \in Nat \ {0}
    BY <1>2, <1>3, <1>6, Lengths
  <2>2. IsSeq(r) /\ Len(r) = Len(s) - 1 /\ \A k \in 1..(Len(s) - 1) : r[k] = v[k + 1]
    BY <1>3, <2>1, TailSeq
  <2>3. h = OpenOf(s[1], 1)
    <3>1. IsFrame(s[1]) /\ v[1] = OpenOf(s[1], 0)
      BY <1>3, <2>1 DEF Framed
    <3>2. v[1] = [type |-> s[1].type, key |-> s[1].key, action |-> s[1].action,
                  begin |-> s[1].opening, children |-> s[1].count + 0]
      BY <1>1, <1>6, <3>1 DEF OpenOf, ENTER, CAPTURE
    <3>3. OpenOf(s[1], 1) = [type |-> s[1].type, key |-> s[1].key, action |-> s[1].action,
                                 begin |-> s[1].opening, children |-> s[1].count + 1]
      BY <1>1, <1>6, <3>1 DEF OpenOf, ENTER, CAPTURE
    <3>4. s[1].count \in Nat
      BY <3>1 DEF IsFrame
    <3> QED BY <2>1, <3>2, <3>3, <3>4
  <2> HIDE DEF h, r
  <2>4. IsSeq(t) /\ Len(t) = Len(r) + 1 /\ t[1] = h /\ \A k \in 1..Len(r) : t[k + 1] = r[k]
    <3>1. IsSeq(r)
      BY <2>2
    <3> SUFFICES IsSeq(<<h>> \o r) /\ Len(<<h>> \o r) = Len(r) + 1 /\ (<<h>> \o r)[1] = h
                 /\ \A k \in 1..Len(r) : (<<h>> \o r)[k + 1] = r[k]
      OBVIOUS
    <3> HIDE DEF t
    <3> QED BY <3>1, ConsSeq
  <2> HIDE DEF t
  <2>5. ASSUME NEW k \in 1..Len(s) PROVE t[k] = Passed(s)[k]
    <3>1. CASE k = 1
      BY <3>1, <2>3, <2>4, <1>4
    <3>2. CASE k # 1
      <4>1. k - 1 \in 1..Len(r) /\ (k - 1) + 1 = k /\ k - 1 \in 1..(Len(s) - 1)
        BY <2>1, <2>2, <3>2
      <4>2. t[k] = v[k]
        BY <4>1, <2>2, <2>4
      <4> QED BY <4>2, <3>2, <1>3, <1>4
    <3> QED BY <3>1, <3>2
  <2>6. Len(t) = Len(s)
    BY <2>1, <2>2, <2>4
  <2>7. t = Passed(s)
    BY <1>4, <2>4, <2>5, <2>6, SameSeq
  <2>8. ChildAdded(v) = t
    BY <2>1 DEF ChildAdded, t, h, r
  <2> QED BY <2>7, <2>8 DEF v
<1> QED BY <1>5, <1>6

(* A primitive in an entered container is one more child of it.            *)
LEMMA ValueShown ==
  ASSUME NEW s, Framed(s), NEW n, Shows(s, n), EnteredIn(s)
  PROVE  View(Recounted(s)) = ChildAdded(View(s))
<1> DEFINE t == Recounted(s)
           v == View(t)
<1>1. n = 0 /\ (s # << >> => s[1].action = ENTER) /\ Len(s) \in Nat
      /\ (s = << >> <=> Len(s) = 0)
  BY EnteredShows, Lengths DEF Framed
<1>2. Framed(t) /\ Shows(t, 0) /\ Len(t) = Len(s)
      /\ \A k \in 1..Len(s) : t[k] = IF k = 1 THEN Counted(s[1]) ELSE s[k]
  BY <1>1, RecountedIs
<1> HIDE DEF t
<1>3. IsSeq(v) /\ Len(v) = Len(s)
      /\ \A k \in 1..Len(s) : v[k] = OpenOf(t[k], IF k = 1 THEN 0 ELSE 1)
  <2>1. Len(s) - 0 = Len(s) /\ \A k \in 1..Len(s) : k + 0 = k
    BY <1>1
  <2> QED BY <1>2, <2>1, ViewIs
<1> HIDE DEF v
<1>4. ASSUME NEW k \in 1..Len(s) PROVE v[k] = OpenOf(s[k], 1)
  <2>1. CASE k # 1
    BY <2>1, <1>2, <1>3
  <2>2. CASE k = 1
    <3>1. IsFrame(s[1]) /\ s[1].action = ENTER
      BY <1>1, <2>2 DEF Framed
    <3>2. v[1] = OpenOf(Counted(s[1]), 0)
      BY <1>2, <1>3, <2>2
    <3>3. OpenOf(Counted(s[1]), 0) = OpenOf(s[1], 1)
      <4>1. s[1].count \in Nat
        BY <3>1 DEF IsFrame
      <4> QED BY <3>1, <4>1, CountedFrame DEF OpenOf, ENTER, CAPTURE
    <3> QED BY <2>2, <3>2, <3>3
  <2> QED BY <2>1, <2>2
<1>5. v = Passed(s)
  BY <1>3, <1>4, PassedIs, SameSeq
<1> QED BY <1>5, ChildIsPassed DEF v, t

(* A container whose end will be reported is one more child, and open.     *)
LEMMA PushShown ==
  ASSUME NEW s, Framed(s), NEW n, Shows(s, n), EnteredIn(s),
         NEW f, IsFrame(f), Reported(f)
  PROVE  View(<<f>> \o s) = <<OpenOf(f, 0)>> \o ChildAdded(View(s))
<1> DEFINE t == <<f>> \o s
           v == View(t)
           p == Passed(s)
           o == OpenOf(f, 0)
           w == <<o>> \o p
<1>1. n = 0 /\ Len(s) \in Nat
  BY EnteredShows, Lengths DEF Framed
<1>2. Framed(t) /\ Shows(t, 0)
  BY <1>1, PushShows
<1>3. Len(t) = Len(s) + 1 /\ t[1] = f /\ \A k \in 1..Len(s) : t[k + 1] = s[k]
  BY ConsSeq DEF Framed
<1> HIDE DEF t
<1>4. IsSeq(v) /\ Len(v) = Len(s) + 1
      /\ \A k \in 1..(Len(s) + 1) : v[k] = OpenOf(t[k], IF k = 1 THEN 0 ELSE 1)
  <2>1. Len(t) - 0 = Len(s) + 1 /\ \A k \in 1..(Len(s) + 1) : k + 0 = k
    BY <1>1, <1>3
  <2> QED BY <1>2, <2>1, ViewIs
<1> HIDE DEF v
<1>5. IsSeq(p) /\ Len(p) = Len(s) /\ \A k \in 1..Len(s) : p[k] = OpenOf(s[k], 1)
  BY PassedIs
<1> HIDE DEF p, o
<1>6. IsSeq(w) /\ Len(w) = Len(p) + 1 /\ w[1] = o
      /\ \A k \in 1..Len(p) : w[k + 1] = p[k]
  <2>1. IsSeq(p)
    BY <1>5
  <2> SUFFICES IsSeq(<<o>> \o p) /\ Len(<<o>> \o p) = Len(p) + 1 /\ (<<o>> \o p)[1] = o
               /\ \A k \in 1..Len(p) : (<<o>> \o p)[k + 1] = p[k]
    OBVIOUS
  <2> HIDE DEF w
  <2> QED BY <2>1, ConsSeq
<1> HIDE DEF w
<1>7. ASSUME NEW k \in 1..(Len(s) + 1) PROVE v[k] = w[k]
  <2>1. CASE k = 1
    BY <2>1, <1>1, <1>3, <1>4, <1>6 DEF o
  <2>2. CASE k # 1
    <3>1. k - 1 \in 1..Len(s) /\ (k - 1) + 1 = k
      BY <1>1, <2>2
    <3>2. v[k] = OpenOf(s[k - 1], 1)
      BY <1>3, <1>4, <2>2, <3>1
    <3>3. w[k] = OpenOf(s[k - 1], 1)
      BY <1>5, <1>6, <3>1
    <3> QED BY <3>2, <3>3
  <2> QED BY <2>1, <2>2
<1>8. v = w
  BY <1>4, <1>5, <1>6, <1>7, SameSeq
<1> QED BY <1>8, ChildIsPassed DEF v, w, t, p, o

(* A skipped one is a child too, and nothing else of it is seen.           *)
LEMMA PushSkipped ==
  ASSUME NEW s, Framed(s), NEW n, Shows(s, n), EnteredIn(s),
         NEW f, IsFrame(f), ~Reported(f)
  PROVE  View(<<f>> \o s) = ChildAdded(View(s))
<1> DEFINE t == <<f>> \o s
           v == View(t)
<1>1. n = 0 /\ Len(s) \in Nat
  BY EnteredShows, Lengths DEF Framed
<1>2. Framed(t) /\ Shows(t, 1)
  BY <1>1, PushShows
<1>3. Len(t) = Len(s) + 1 /\ \A k \in 1..Len(s) : t[k + 1] = s[k]
  BY ConsSeq DEF Framed
<1> HIDE DEF t
<1>4. IsSeq(v) /\ Len(v) = Len(s) /\ \A k \in 1..Len(s) : v[k] = OpenOf(t[k + 1], 1)
  <2>1. Len(t) - 1 = Len(s) /\ \A k \in 1..Len(s) : k + 1 # 1
    BY <1>1, <1>3
  <2> QED BY <1>2, <2>1, ViewIs
<1> HIDE DEF v
<1>5. v = Passed(s)
  BY <1>3, <1>4, PassedIs, SameSeq
<1> QED BY <1>5, ChildIsPassed DEF v, t

(* What happens inside a captured or skipped container is not seen.        *)
LEMMA PushHidden ==
  ASSUME NEW s, Framed(s), NEW n, Shows(s, n), ~EnteredIn(s),
         NEW f, IsFrame(f), ~Reported(f)
  PROVE  View(<<f>> \o s) = View(s)
<1> DEFINE t == <<f>> \o s
           v == View(t)
           u == View(s)
<1>1. n \in 0..Len(s) /\ Len(s) \in Nat \ {0} /\ Head(s) = s[1]
  BY Lengths DEF Framed, Shows, EnteredIn
<1>2. Framed(t) /\ Shows(t, n + 1)
  BY <1>1, PushShows
<1>3. Len(t) = Len(s) + 1 /\ \A k \in 1..Len(s) : t[k + 1] = s[k]
  BY ConsSeq DEF Framed
<1> HIDE DEF t
<1>4. IsSeq(v) /\ Len(v) = Len(s) - n
      /\ \A k \in 1..(Len(s) - n) : v[k] = OpenOf(t[k + (n + 1)], 1)
  <2>1. Len(t) - (n + 1) = Len(s) - n /\ \A k \in 1..(Len(s) - n) : k + (n + 1) # 1
    BY <1>1, <1>3
  <2> QED BY <1>2, <2>1, ViewIs
<1>5. IsSeq(u) /\ Len(u) = Len(s) - n
      /\ \A k \in 1..(Len(s) - n) : u[k] = OpenOf(s[k + n], IF k + n = 1 THEN 0 ELSE 1)
  BY ViewIs
<1> HIDE DEF v, u
<1>6. ASSUME NEW k \in 1..(Len(s) - n) PROVE v[k] = u[k]
  <2>1. k + n \in 1..Len(s) /\ (k + n) + 1 = k + (n + 1)
    BY <1>1
  <2>2. v[k] = OpenOf(s[k + n], 1)
    BY <1>3, <1>4, <2>1
  <2>3. CASE k + n # 1
    BY <1>5, <2>2, <2>3
  <2>4. CASE k + n = 1
    <3>1. n = 0 /\ Reported(s[1])
      BY <1>1, <2>1, <2>4 DEF Shows, HidesTop
    <3>2. s[1].action = CAPTURE
      <4>1. IsFrame(s[1])
        BY <1>1 DEF Framed
      <4> QED BY <1>1, <3>1, <4>1 DEF Reported, EnteredIn, IsFrame, ENTER, CAPTURE, SKIP
    <3> QED BY <1>5, <2>2, <2>4, <3>2 DEF OpenOf
  <2> QED BY <2>3, <2>4
<1>7. v = u
  BY <1>4, <1>5, <1>6, SameSeq
<1> QED BY <1>7 DEF v, u, t

LEMMA CountHidden ==
  ASSUME NEW s, Framed(s), NEW n, Shows(s, n), ~EnteredIn(s)
  PROVE  View(Recounted(s)) = View(s)
<1> DEFINE t == Recounted(s)
           v == View(t)
           u == View(s)
<1>1. n \in 0..Len(s) /\ Len(s) \in Nat \ {0} /\ Head(s) = s[1]
  BY Lengths DEF Framed, Shows, EnteredIn
<1>2. Framed(t) /\ Shows(t, n) /\ Len(t) = Len(s)
      /\ \A k \in 1..Len(s) : t[k] = IF k = 1 THEN Counted(s[1]) ELSE s[k]
  BY RecountedIs
<1> HIDE DEF t
<1>3. IsSeq(v) /\ Len(v) = Len(s) - n
      /\ \A k \in 1..(Len(s) - n) : v[k] = OpenOf(t[k + n], IF k + n = 1 THEN 0 ELSE 1)
  BY <1>2, ViewIs
<1>4. IsSeq(u) /\ Len(u) = Len(s) - n
      /\ \A k \in 1..(Len(s) - n) : u[k] = OpenOf(s[k + n], IF k + n = 1 THEN 0 ELSE 1)
  BY ViewIs
<1> HIDE DEF v, u
<1>5. ASSUME NEW k \in 1..(Len(s) - n) PROVE v[k] = u[k]
  <2>1. k + n \in 1..Len(s)
    BY <1>1
  <2>2. CASE k + n # 1
    BY <1>2, <1>3, <1>4, <2>1, <2>2
  <2>3. CASE k + n = 1
    <3>1. n = 0 /\ Reported(s[1])
      BY <1>1, <2>1, <2>3 DEF Shows, HidesTop
    <3>2. IsFrame(s[1])
      BY <1>1 DEF Framed
    <3>3. s[1].action = CAPTURE
      BY <1>1, <3>1, <3>2 DEF Reported, EnteredIn, IsFrame, ENTER, CAPTURE, SKIP
    <3>4. OpenOf(Counted(s[1]), 0) = OpenOf(s[1], 0)
      BY <3>2, <3>3, CountedFrame DEF OpenOf
    <3> QED BY <1>2, <1>3, <1>4, <2>1, <2>3, <3>4
  <2> QED BY <2>2, <2>3
<1>6. v = u
  BY <1>3, <1>4, <1>5, SameSeq
<1> QED BY <1>6 DEF v, u, t

(* The end of a container that is reported takes it away, the end of one   *)
(* that is not is not seen.                                                *)
LEMMA PopShown ==
  ASSUME NEW s, Framed(s), NEW n, Shows(s, n), s # << >>, Reported(s[1])
  PROVE  /\ Framed(Recounted(Tail(s))) /\ Shows(Recounted(Tail(s)), 0)
         /\ View(s) # << >> /\ Head(View(s)) = OpenOf(s[1], 0)
         /\ View(Recounted(Tail(s))) = Tail(View(s))
<1> DEFINE r == Tail(s)
           t == Recounted(r)
           v == View(t)
           u == View(s)
           w == Tail(u)
<1>1. n = 0 /\ Len(s) \in Nat \ {0} /\ IsSeq(s)
  BY Lengths DEF Framed, Shows, HidesTop
<1>2. Len(r) = Len(s) - 1 /\ \A k \in 1..(Len(s) - 1) : r[k] = s[k + 1]
  BY <1>1, TailSeq
<1>3. Framed(r) /\ Shows(r, 0)
  BY <1>1, TailShows
<1> HIDE DEF r
<1>4. Framed(t) /\ Shows(t, 0) /\ Len(t) = Len(r)
      /\ \A k \in 1..Len(r) : t[k] = IF k = 1 THEN Counted(r[1]) ELSE r[k]
  BY <1>3, RecountedIs
<1> HIDE DEF t
<1>5. IsSeq(v) /\ Len(v) = Len(r)
      /\ \A k \in 1..Len(r) : v[k] = OpenOf(t[k], IF k = 1 THEN 0 ELSE 1)
  <2>1. Len(t) - 0 = Len(r) /\ \A k \in 1..Len(r) : k + 0 = k
    BY <1>1, <1>2, <1>4
  <2> QED BY <1>4, <2>1, ViewIs
<1>6. IsSeq(u) /\ Len(u) = Len(s)
      /\ \A k \in 1..Len(s) : u[k] = OpenOf(s[k], IF k = 1 THEN 0 ELSE 1)
  <2>1. Len(s) - 0 = Len(s) /\ \A k \in 1..Len(s) : k + 0 = k
    BY <1>1
  <2> QED BY <1>1, <2>1, ViewIs
<1> HIDE DEF v, u
<1>7. u # << >> /\ Head(u) = OpenOf(s[1], 0)
  BY <1>1, <1>6, Lengths
<1>8. IsSeq(w) /\ Len(w) = Len(s) - 1 /\ \A k \in 1..(Len(s) - 1) : w[k] = u[k + 1]
  BY <1>6, <1>7, TailSeq
<1> HIDE DEF w
<1>9. ASSUME NEW k \in 1..Len(r) PROVE v[k] = w[k]
  <2>1. k + 1 \in 1..Len(s) /\ k + 1 # 1 /\ k \in 1..(Len(s) - 1) /\ 1 \in 1..Len(r)
    BY <1>1, <1>2
  <2>2. w[k] = OpenOf(r[k], 1)
    BY <1>2, <1>6, <1>8, <2>1
  <2>3. CASE k # 1
    BY <1>4, <1>5, <2>2, <2>3
  <2>4. CASE k = 1
    <3>1. IsFrame(r[1]) /\ Reported(r[1])
      BY <1>2, <1>3, <2>1 DEF Framed, Shows, HidesTop
    <3>2. OpenOf(Counted(r[1]), 0) = OpenOf(r[1], 1)
      <4>1. r[1].count \in Nat
        BY <3>1 DEF IsFrame
      <4> QED BY <3>1, <4>1, CountedFrame DEF OpenOf
    <3> QED BY <1>4, <1>5, <2>1, <2>2, <2>4, <3>2
  <2> QED BY <2>3, <2>4
<1>10. v = w
  BY <1>2, <1>5, <1>8, <1>9, SameSeq
<1> QED BY <1>4, <1>7, <1>10 DEF v, w, u, t, r

LEMMA PopHidden ==
  ASSUME NEW s, Framed(s), NEW n, Shows(s, n), s # << >>, ~Reported(s[1])
  PROVE  /\ Framed(Recounted(Tail(s))) /\ Shows(Recounted(Tail(s)), n - 1)
         /\ View(Recounted(Tail(s))) = View(s)
<1> DEFINE r == Tail(s)
           t == Recounted(r)
           v == View(t)
           u == View(s)
<1>1. n \in 1..Len(s) /\ Len(s) \in Nat \ {0} /\ IsSeq(s)
  BY Lengths DEF Framed, Shows, HidesTop
<1>2. Len(r) = Len(s) - 1 /\ \A k \in 1..(Len(s) - 1) : r[k] = s[k + 1]
  BY <1>1, TailSeq
<1>3. Framed(r) /\ Shows(r, n - 1)
  BY <1>1, TailShows
<1> HIDE DEF r
<1>4. Framed(t) /\ Shows(t, n - 1) /\ Len(t) = Len(r)
      /\ \A k \in 1..Len(r) : t[k] = IF k = 1 THEN Counted(r[1]) ELSE r[k]
  BY <1>3, RecountedIs
<1> HIDE DEF t
<1>5. IsSeq(v) /\ Len(v) = Len(s) - n
      /\ \A k \in 1..(Len(s) - n) :
           v[k] = OpenOf(t[k + (n - 1)], IF k + (n - 1) = 1 THEN 0 ELSE 1)
  <2>1. Len(t) - (n - 1) = Len(s) - n
    BY <1>1, <1>2, <1>4
  <2> QED BY <1>4, <2>1, ViewIs
<1>6. IsSeq(u) /\ Len(u) = Len(s) - n
      /\ \A k \in 1..(Len(s) - n) : u[k] = OpenOf(s[k + n], IF k + n = 1 THEN 0 ELSE 1)
  BY ViewIs
<1> HIDE DEF v, u
<1>7. ASSUME NEW k \in 1..(Len(s) - n) PROVE v[k] = u[k]
  <2> DEFINE j == k + (n - 1)
  <2>1. j \in 1..Len(r) /\ j \in 1..(Len(s) - 1) /\ k + n = j + 1 /\ j + 1 # 1
    BY <1>1, <1>2
  <2>2. u[k] = OpenOf(r[j], 1)
    <3>1. u[k] = OpenOf(s[j + 1], 1)
      BY <1>6, <2>1
    <3> HIDE DEF j
    <3> QED BY <1>2, <2>1, <3>1
  <2>3. v[k] = OpenOf(t[j], IF j = 1 THEN 0 ELSE 1)
    BY <1>5
  <2> HIDE DEF j
  <2>4. CASE j # 1
    BY <1>4, <2>1, <2>2, <2>3, <2>4
  <2>5. CASE j = 1
    <3>1. IsFrame(r[1])
      BY <1>3, <2>1, <2>5 DEF Framed
    <3>2. OpenOf(Counted(r[1]), 0) = OpenOf(r[1], 1)
      <4>1. r[1].count \in Nat
        BY <3>1 DEF IsFrame
      <4> QED BY <3>1, <4>1, CountedFrame DEF OpenOf
    <3> QED BY <1>4, <2>1, <2>2, <2>3, <2>5, <3>2
  <2> QED BY <2>4, <2>5
<1>8. v = u
  BY <1>5, <1>6, <1>7, SameSeq
<1> QED BY <1>4, <1>8 DEF v, u, t, r

-----------------------------------------------------------------------------
(***************************************************************************)
(* The invariant.                                                          *)
(***************************************************************************)
StackInv ==
  /\ Framed(stack) /\ \E n : Shows(stack, n)
  /\ Len(stack) <= MAX_NESTING + 1
PcInv ==
  /\ pc \in {"first", "item", "after"} => stack # << >>
  /\ pc = "idle" => stack = << >> /\ events = << >>
  /\ pc = "value" /\ stack = << >> => events = << >>
KeyInv ==
  /\ pc \in {"first", "item", "after", "trailing", "idle"} => key = << >>
  /\ pc = "value" =>
       Len(key) = IF stack # << >> /\ Head(stack).type = "OBJECT" THEN 1 ELSE 0
IInv == IsSeq(events) /\ StackInv /\ PcInv /\ KeyInv

LEMMA EmptyFramed == Framed(<< >>) /\ Shows(<< >>, 0) /\ View(<< >>) = << >>
<1>1. IsSeq(<< >>)
  BY DEF IsSeq
<1>2. Framed(<< >>) /\ Shows(<< >>, 0)
  BY <1>1 DEF Framed, Shows, HidesTop
<1>3. IsSeq(View(<< >>)) /\ Len(View(<< >>)) = 0
  BY <1>2, ViewIs
<1> QED BY <1>2, <1>3, Lengths

LEMMA InitIsInv == Init => IInv
BY EmptyFramed, NestingAssumption DEF Init, IInv, StackInv, PcInv, KeyInv, Framed

(* Returning leaves the open containers and the calls as they are.         *)
LEMMA ReturnKeeps ==
  ASSUME IInv, NEW code, Return(code)
  PROVE  StackInv' /\ PcInv' /\ KeyInv' /\ UNCHANGED stack /\ pc' = "done"
BY DEF IInv, StackInv, PcInv, KeyInv, Return, Framed, Shows, HidesTop

(* A value that ends is counted by its container.                          *)
LEMMA DoneKeeps ==
  ASSUME NEW last, NEW rest, Framed(rest), NEW n, Shows(rest, n),
         Len(rest) <= MAX_NESTING + 1, ValueDone(last, rest)
  PROVE  /\ StackInv' /\ PcInv' /\ KeyInv'
         /\ stack' = Recounted(rest) /\ pc' \in {"trailing", "after"}
<1>1. stack' = Recounted(rest) /\ key' = << >>
      /\ (pc' = "trailing" \/ (pc' = "after" /\ rest # << >>))
  BY DEF ValueDone, Recounted
<1>2. Framed(Recounted(rest)) /\ Shows(Recounted(rest), n) /\ Len(Recounted(rest)) = Len(rest)
  BY RecountedIs
<1>3. Recounted(rest) # << >> <=> rest # << >>
  BY <1>2, Lengths DEF Framed
<1> QED BY <1>1, <1>2, <1>3 DEF StackInv, PcInv, KeyInv

LEMMA PushKeeps ==
  ASSUME IInv, Nested, NEW emit \in BOOLEAN, NEW action \in {ENTER, CAPTURE, SKIP},
         Push(emit, action), (emit /\ action # SKIP) => EnteredIn(stack)
  PROVE  StackInv' /\ PcInv' /\ KeyInv' /\ pc' = "first"
<1> DEFINE f == Frame(TypeAt(cursor), cursor, key, emit, action)
           t == <<f>> \o stack
<1>1. PICK n : Shows(stack, n)
  BY DEF IInv, StackInv
<1>2. Framed(stack) /\ IsSeq(stack) /\ Len(stack) \in Nat
  BY Lengths DEF IInv, StackInv, Framed
<1>3. IsFrame(f) /\ f.emit = emit /\ f.action = action
  BY FrameIsFrame
<1>4. stack' = t /\ pc' = "first" /\ key' = << >> /\ Len(stack) <= MAX_NESTING
  BY <1>2, NestingAssumption DEF Push, Nested, TooDeep
<1> HIDE DEF f
<1>5. Reported(f) => n = 0
  BY <1>1, <1>2, <1>3, EnteredShows DEF Reported
<1>6. Framed(t) /\ Shows(t, IF Reported(f) THEN 0 ELSE n + 1)
  BY <1>1, <1>2, <1>3, <1>5, PushShows
<1>7. Len(t) = Len(stack) + 1 /\ t # << >>
  BY <1>2, ConsSeq
<1> HIDE DEF t
<1> QED BY <1>2, <1>4, <1>6, <1>7, NestingAssumption DEF StackInv, PcInv, KeyInv

-----------------------------------------------------------------------------
(***************************************************************************)
(* What a step is for the callback.                                        *)
(***************************************************************************)
TraversalStep == [Traversal!Next]_(Traversal!traversalVars)

LEMMA KnownIs == Known = View(stack) /\ Known' = View(stack')
BY DEF Known, View

LEMMA NothingSeen ==
  ASSUME UNCHANGED events, View(stack') = View(stack), pc # "done", pc' # "done"
  PROVE  TraversalStep
BY KnownIs DEF TraversalStep, Traversal!traversalVars

LEMMA Stops ==
  ASSUME UNCHANGED <<events, stack>>, pc' = "done"
  PROVE  TraversalStep
<1>1. Traversal!Stop
  BY KnownIs DEF Traversal!Stop
<1> QED BY <1>1 DEF TraversalStep, Traversal!Next

LEMMA Reports ==
  ASSUME IsSeq(events), NEW e, events' = Append(events, e),
         Traversal!Begin(e) \/ Traversal!Value(e) \/ Traversal!End(e)
  PROVE  TraversalStep /\ IsSeq(events')
<1>1. events' # events /\ events'[Len(events')] = e /\ IsSeq(events')
  BY AppendSeq
<1>2. Traversal!Next
  BY <1>1 DEF Traversal!Next
<1> QED BY <1>1, <1>2 DEF TraversalStep

LEMMA ReturnStep ==
  ASSUME IInv, NEW code, Return(code), Silent
  PROVE  IInv' /\ TraversalStep
<1>1. StackInv' /\ PcInv' /\ KeyInv' /\ UNCHANGED stack /\ pc' = "done"
  BY ReturnKeeps
<1>2. UNCHANGED events
  BY DEF Silent
<1> QED BY <1>1, <1>2, Stops DEF IInv

(* The root is the first report, and any other child is reported to an     *)
(* entered container.                                                      *)
LEMMA MayReport ==
  ASSUME IInv, pc = "value", EnteredIn(stack)
  PROVE  Traversal!ChildAllowed /\ Traversal!KeyAllowed(key)
<1>1. PICK n : Shows(stack, n)
  BY DEF IInv, StackInv
<1>2. Framed(stack) /\ Len(stack) \in Nat /\ (stack = << >> <=> Len(stack) = 0)
      /\ (stack # << >> => Head(stack) = stack[1])
  BY Lengths DEF IInv, StackInv, Framed
<1>3. n = 0 /\ (stack # << >> => stack[1].emit /\ stack[1].action = ENTER)
  BY <1>1, <1>2, EnteredShows
<1> DEFINE v == View(stack)
<1>4. IsSeq(v) /\ Len(v) = Len(stack)
      /\ \A k \in 1..Len(stack) : v[k] = OpenOf(stack[k], IF k = 1 THEN 0 ELSE 1)
  <2>1. Len(stack) - 0 = Len(stack) /\ \A k \in 1..Len(stack) : k + 0 = k
    BY <1>2
  <2> QED BY <1>1, <1>2, <1>3, <2>1, ViewIs
<1>5. Known = v
  BY KnownIs
<1> HIDE DEF v
<1>6. CASE stack = << >>
  <2>1. v = << >>
    BY <1>2, <1>4, <1>6, Lengths
  <2> QED BY <1>5, <1>6, <2>1 DEF IInv, PcInv, KeyInv, Traversal!ChildAllowed, Traversal!KeyAllowed
<1>7. CASE stack # << >>
  <2>1. v # << >> /\ Head(v) = OpenOf(stack[1], 0)
    BY <1>2, <1>4, <1>7, Lengths
  <2>2. Head(v).action = ENTER /\ Head(v).type = stack[1].type
    BY <1>3, <1>7, <2>1 DEF OpenOf
  <2> QED BY <1>2, <1>5, <1>7, <2>1, <2>2
          DEF IInv, KeyInv, Traversal!ChildAllowed, Traversal!KeyAllowed
<1> QED BY <1>6, <1>7

LEMMA EventIs ==
  ASSUME NEW ev, NEW ty, NEW k, NEW b, NEW l, NEW c, NEW a
  PROVE  LET e == Event(ev, ty, k, b, l, c, a)
         IN  /\ e.event = ev /\ e.type = ty /\ e.key = k /\ e.begin = b
             /\ e.end = l /\ e.count = c /\ e.answer = a
BY DEF Event

LEMMA BeginStep ==
  ASSUME IInv, NEW answer, Begin(answer)
  PROVE  IInv' /\ TraversalStep
<1> DEFINE e == Event("BEGIN", TypeAt(cursor), key, cursor, 0, 0, answer)
           f == Frame(TypeAt(cursor), cursor, key, TRUE, answer)
<1>1. /\ e.event = "BEGIN" /\ e.type = TypeAt(cursor) /\ e.key = key
      /\ e.begin = cursor /\ e.count = 0 /\ e.answer = answer
  BY EventIs
<1>2. events' = Append(events, e)
  BY DEF Begin, kason_scan_emit
<1> HIDE DEF e
<1>3. pc = "value" /\ EnteredIn(stack) /\ Nested
  BY DEF Begin, Nested, Entered, EnteredIn
<1>4. Traversal!ChildAllowed /\ Traversal!KeyAllowed(key) /\ e.type \in Traversal!Types
  BY <1>1, <1>3, MayReport DEF TypeAt, Traversal!Types
<1>5. PICK n : Shows(stack, n)
  BY DEF IInv, StackInv
<1>6. IsSeq(events) /\ Framed(stack)
  BY DEF IInv, StackInv
<1>7. Traversal!WithChild = ChildAdded(View(stack))
  BY KnownIs DEF Traversal!WithChild, ChildAdded
<1>8. CASE answer \in {ENTER, CAPTURE, SKIP}
  <2>1. Push(TRUE, answer)
    <3>1. answer # BREAK
      BY <1>8 DEF ENTER, CAPTURE, SKIP, BREAK
    <3> QED BY <1>8, <3>1, Zenon DEF Begin
  <2>2. StackInv' /\ PcInv' /\ KeyInv' /\ pc' = "first"
    BY <1>3, <1>8, <2>1, PushKeeps
  <2>3. IsFrame(f) /\ f.emit = TRUE /\ f.action = answer
    BY <1>8, FrameIsFrame
  <2>4. f = [type |-> TypeAt(cursor), opening |-> cursor, key |-> key, emit |-> TRUE,
             action |-> answer, count |-> 0]
    BY DEF Frame
  <2>5. stack' = <<f>> \o stack
    BY <2>1 DEF Push
  <2> HIDE DEF f
  <2>6. CASE answer \in {ENTER, CAPTURE}
    <3>1. Reported(f)
      BY <2>3, <2>6 DEF Reported, ENTER, CAPTURE, SKIP
    <3>2. View(stack') = <<OpenOf(f, 0)>> \o ChildAdded(View(stack))
      BY <1>3, <1>5, <1>6, <2>3, <2>5, <3>1, PushShown
    <3>3. OpenOf(f, 0) = [type |-> e.type, key |-> e.key, action |-> e.answer,
                          begin |-> e.begin, children |-> 0]
      BY <1>1, <2>4 DEF OpenOf
    <3>4. Traversal!Begin(e)
      BY <1>1, <1>2, <1>3, <1>4, <1>7, <2>2, <2>6, <3>2, <3>3, KnownIs
         DEF Traversal!Begin, Traversal!Report
    <3> QED BY <1>2, <1>6, <2>2, <3>4, Reports DEF IInv
  <2>7. CASE answer = SKIP
    <3>1. ~Reported(f)
      BY <2>3, <2>7 DEF Reported
    <3>2. View(stack') = ChildAdded(View(stack))
      BY <1>3, <1>5, <1>6, <2>3, <2>5, <3>1, PushSkipped
    <3>3. Traversal!Begin(e)
      BY <1>1, <1>2, <1>3, <1>4, <1>7, <2>2, <2>7, <3>2, KnownIs
         DEF Traversal!Begin, Traversal!Report, ENTER, CAPTURE, SKIP
    <3> QED BY <1>2, <1>6, <2>2, <3>3, Reports DEF IInv
  <2> QED BY <1>8, <2>6, <2>7
<1>9. CASE answer \notin {ENTER, CAPTURE, SKIP}
  <2>1. PICK code : Return(code)
    BY <1>9 DEF Begin, Fail
  <2>2. StackInv' /\ PcInv' /\ KeyInv' /\ UNCHANGED stack /\ pc' = "done"
    BY <2>1, ReturnKeeps
  <2>3. Traversal!Begin(e)
    BY <1>1, <1>2, <1>3, <1>4, <2>2, KnownIs DEF Traversal!Begin, Traversal!Report
  <2> QED BY <1>2, <1>6, <2>2, <2>3, Reports DEF IInv
<1> QED BY <1>8, <1>9

LEMMA BeginSilentlyStep ==
  ASSUME IInv, BeginSilently
  PROVE  IInv' /\ TraversalStep
<1> DEFINE f == Frame(TypeAt(cursor), cursor, key, FALSE, SKIP)
<1>1. Nested /\ pc = "value" /\ ~EnteredIn(stack)
  BY DEF BeginSilently, Nested, Entered, EnteredIn
<1>2. Push(FALSE, SKIP) /\ UNCHANGED events
  BY Zenon DEF BeginSilently, Silent
<1>3. StackInv' /\ PcInv' /\ KeyInv' /\ pc' = "first"
  BY <1>1, <1>2, PushKeeps
<1>4. IsFrame(f) /\ f.action = SKIP
  BY FrameIsFrame
<1>5. stack' = <<f>> \o stack
  BY <1>2 DEF Push
<1> HIDE DEF f
<1>6. ~Reported(f)
  BY <1>4 DEF Reported
<1>7. PICK n : Shows(stack, n)
  BY DEF IInv, StackInv
<1>8. Framed(stack)
  BY DEF IInv, StackInv
<1>9. View(stack') = View(stack)
  BY <1>1, <1>4, <1>5, <1>6, <1>7, <1>8, PushHidden
<1> QED BY <1>1, <1>2, <1>3, <1>9, NothingSeen DEF IInv

(* The container that closes.                                              *)
LEMMA Closing ==
  ASSUME IInv, AtClose
  PROVE  /\ stack # << >> /\ Head(stack) = stack[1] /\ IsFrame(stack[1])
         /\ Framed(stack) /\ Framed(Tail(stack)) /\ Len(Tail(stack)) <= MAX_NESTING + 1
         /\ pc # "done"
<1>1. stack # << >> /\ Framed(stack) /\ IsSeq(stack) /\ pc # "done"
      /\ Len(stack) <= MAX_NESTING + 1
  BY DEF IInv, StackInv, PcInv, AtClose, Framed
<1>2. Len(stack) \in Nat \ {0} /\ Head(stack) = stack[1]
  BY <1>1, Lengths
<1>3. IsFrame(stack[1])
  BY <1>1, <1>2 DEF Framed
<1>4. PICK n : Shows(stack, n)
  BY DEF IInv, StackInv
<1>5. Framed(Tail(stack)) /\ Len(Tail(stack)) = Len(stack) - 1
  BY <1>1, <1>4, TailShows, TailSeq
<1> QED BY <1>1, <1>2, <1>3, <1>5, NestingAssumption

LEMMA EndStep ==
  ASSUME IInv, NEW answer, End(answer)
  PROVE  IInv' /\ TraversalStep
<1> DEFINE f == stack[1]
           e == EndEvent(Head(stack), answer)
<1>1. /\ AtClose /\ Reported(Head(stack)) /\ events' = Append(events, e)
  BY DEF End, kason_scan_emit
<1>2. /\ stack # << >> /\ Head(stack) = f /\ IsFrame(f) /\ Framed(stack)
      /\ Framed(Tail(stack)) /\ Len(Tail(stack)) <= MAX_NESTING + 1 /\ pc # "done"
  BY <1>1, Closing
<1>3. /\ e.event = "END" /\ e.type = f.type /\ e.key = f.key /\ e.answer = answer
      /\ e.begin = (IF f.action = CAPTURE THEN f.opening ELSE cursor) /\ e.end = cursor
      /\ e.count = (IF f.type = "ARRAY" THEN f.count ELSE 1)
  BY <1>2, EventIs DEF EndEvent
<1> HIDE DEF e
<1>4. PICK n : Shows(stack, n)
  BY DEF IInv, StackInv
<1>5. /\ Shows(Recounted(Tail(stack)), 0)
      /\ View(stack) # << >> /\ Head(View(stack)) = OpenOf(f, 0)
      /\ View(Recounted(Tail(stack))) = Tail(View(stack))
  BY <1>1, <1>2, <1>4, PopShown
<1>6. /\ OpenOf(f, 0).type = f.type /\ OpenOf(f, 0).key = f.key
      /\ OpenOf(f, 0).action = f.action /\ OpenOf(f, 0).begin = f.opening
      /\ f.action # CAPTURE => OpenOf(f, 0).children = f.count
  BY <1>2 DEF OpenOf, IsFrame
<1> HIDE DEF f
<1>7. /\ Known # << >> /\ e.type = Head(Known).type /\ e.key = Head(Known).key
      /\ e.begin = IF Head(Known).action = CAPTURE THEN Head(Known).begin ELSE e.end
      /\ (e.type = "ARRAY" /\ Head(Known).action = ENTER) => e.count = Head(Known).children
  <2>1. Known = View(stack) /\ Head(Known) = OpenOf(f, 0)
    BY <1>5, KnownIs
  <2> QED BY <1>3, <1>5, <1>6, <2>1 DEF ENTER, CAPTURE
<1>8. CASE answer = ENTER
  <2>1. ValueDone(cursor, Tail(stack))
    BY <1>8 DEF End, ENTER, BREAK
  <2>2. PICK m : Shows(Tail(stack), m)
    BY <1>2, <1>4, TailShows
  <2>3. /\ StackInv' /\ PcInv' /\ KeyInv'
        /\ stack' = Recounted(Tail(stack)) /\ pc' \in {"trailing", "after"}
    BY <1>2, <2>1, <2>2, DoneKeeps
  <2>4. Known' = Tail(Known) /\ pc' # "done"
    BY <1>5, <2>3, KnownIs
  <2>5. Traversal!End(e)
    BY <1>1, <1>2, <1>3, <1>7, <1>8, <2>4 DEF Traversal!End, Traversal!Report
  <2> QED BY <1>1, <2>3, <2>5, Reports DEF IInv
<1>9. CASE answer # ENTER
  <2>1. PICK code : Return(code)
    BY <1>9 DEF End, Fail
  <2>2. StackInv' /\ PcInv' /\ KeyInv' /\ UNCHANGED stack /\ pc' = "done"
    BY <2>1, ReturnKeeps
  <2>3. UNCHANGED Known
    BY <2>2, KnownIs
  <2>4. Traversal!End(e)
    BY <1>1, <1>2, <1>3, <1>7, <1>9, <2>2, <2>3 DEF Traversal!End, Traversal!Report
  <2> QED BY <1>1, <2>2, <2>4, Reports DEF IInv
<1> QED BY <1>8, <1>9

LEMMA EndSilentlyStep ==
  ASSUME IInv, EndSilently
  PROVE  IInv' /\ TraversalStep
<1>1. AtClose /\ ~Reported(Head(stack)) /\ ValueDone(cursor, Tail(stack)) /\ UNCHANGED events
  BY DEF EndSilently, Silent
<1>2. /\ stack # << >> /\ Head(stack) = stack[1] /\ Framed(stack)
      /\ Framed(Tail(stack)) /\ Len(Tail(stack)) <= MAX_NESTING + 1 /\ pc # "done"
  BY <1>1, Closing
<1>3. PICK n : Shows(stack, n)
  BY DEF IInv, StackInv
<1>4. PICK m : Shows(Tail(stack), m)
  BY <1>2, <1>3, TailShows
<1>5. /\ StackInv' /\ PcInv' /\ KeyInv'
      /\ stack' = Recounted(Tail(stack)) /\ pc' \in {"trailing", "after"}
  BY <1>1, <1>2, <1>4, DoneKeeps
<1>6. View(stack') = View(stack)
  BY <1>1, <1>2, <1>3, <1>5, PopHidden
<1> QED BY <1>1, <1>2, <1>5, <1>6, NothingSeen DEF IInv

LEMMA ItemStep ==
  ASSUME IInv, Item
  PROVE  IInv' /\ TraversalStep
<1>1. CASE \E code : Return(code)
  BY <1>1, ReturnStep DEF Item
<1>2. CASE ~\E code : Return(code)
  <2>1. ~Fail
    BY <1>2 DEF Fail
  <2>2. /\ pc' = "value" /\ UNCHANGED <<stack, events>> /\ stack # << >> /\ key = << >>
        /\ \/ Keyed /\ \E slice : key' = <<slice>>
           \/ ~Keyed /\ UNCHANGED key
        /\ pc # "done"
    BY <2>1 DEF Item, AtItem, MemberKey, MemberAt, Silent, IInv, PcInv, KeyInv
  <2>3. StackInv' /\ PcInv'
    BY <2>2 DEF IInv, StackInv, PcInv
  <2>4. KeyInv'
    BY <2>2 DEF KeyInv, Keyed
  <2> QED BY <2>2, <2>3, <2>4, NothingSeen DEF IInv
<1> QED BY <1>1, <1>2

LEMMA SeparatorStep ==
  ASSUME IInv, Separator
  PROVE  IInv' /\ TraversalStep
<1>1. CASE \E code : Return(code)
  BY <1>1, ReturnStep DEF Separator
<1>2. CASE ~\E code : Return(code)
  <2>1. ~Fail
    BY <1>2 DEF Fail
  <2>2. /\ pc = "after" /\ pc' = "item" /\ UNCHANGED <<stack, events, key>>
    BY <2>1 DEF Separator, Silent
  <2>3. StackInv' /\ PcInv' /\ KeyInv'
    BY <2>2 DEF IInv, StackInv, PcInv, KeyInv
  <2> QED BY <2>2, <2>3, NothingSeen DEF IInv
<1> QED BY <1>1, <1>2

(* A primitive is not a container.                                         *)
LEMMA PrimitiveType ==
  ASSUME NEW p
  PROVE  Primitive(p).type \notin Traversal!Types
<1>1. kason_scan_literal(p).type \in {"TRUE", "FALSE", "NULL", "INVALID"}
  BY DEF kason_scan_literal
<1>2. ASSUME NEW type, NEW first, NEW final, NEW last, type \notin Traversal!Types
      PROVE  Token(type, first, final, last).type \notin Traversal!Types
  BY <1>2 DEF Token, Malformed, Traversal!Types
<1>3. /\ "STRING" \notin Traversal!Types /\ "NUMBER" \notin Traversal!Types
      /\ kason_scan_literal(p).type \notin Traversal!Types
      /\ Malformed.type \notin Traversal!Types
  BY <1>1 DEF Traversal!Types, Malformed
<1> HIDE DEF Malformed
<1>4. /\ StringToken(p, kason_scan_string(p)).type \notin Traversal!Types
      /\ NumberToken(p, kason_scan_number(p)).type \notin Traversal!Types
      /\ LiteralToken(p, kason_scan_literal(p)).type \notin Traversal!Types
  BY <1>2, <1>3 DEF StringToken, NumberToken, LiteralToken
<1> QED BY <1>3, <1>4 DEF Primitive

LEMMA ValueStep ==
  ASSUME IInv, NEW token, token.type \notin Traversal!Types,
         NEW answer, Value(token, answer)
  PROVE  IInv' /\ TraversalStep
<1> DEFINE e == Event("VALUE", token.type, key, token.begin, token.end, 1, answer)
<1>1. /\ e.event = "VALUE" /\ e.type = token.type /\ e.key = key
      /\ e.count = 1 /\ e.answer = answer
  BY EventIs
<1>2. events' = Append(events, e)
  BY DEF Value, kason_scan_emit
<1> HIDE DEF e
<1>3. pc = "value" /\ EnteredIn(stack)
  BY DEF Value, AtPrimitive, Entered, EnteredIn
<1>4. Traversal!ChildAllowed /\ Traversal!KeyAllowed(key)
  BY <1>3, MayReport
<1>5. PICK n : Shows(stack, n)
  BY DEF IInv, StackInv
<1>6. Framed(stack) /\ Len(stack) <= MAX_NESTING + 1
  BY DEF IInv, StackInv
<1>7. Traversal!WithChild = ChildAdded(View(stack))
  BY KnownIs DEF Traversal!WithChild, ChildAdded
<1>8. CASE answer = ENTER
  <2>1. ValueDone(token.last, stack)
    BY <1>8 DEF Value, ENTER, BREAK
  <2>2. /\ StackInv' /\ PcInv' /\ KeyInv'
        /\ stack' = Recounted(stack) /\ pc' \in {"trailing", "after"}
    BY <1>5, <1>6, <2>1, DoneKeeps
  <2>3. Known' = Traversal!WithChild
    BY <1>3, <1>5, <1>6, <1>7, <2>2, ValueShown, KnownIs
  <2>4. Traversal!Value(e)
    BY <1>1, <1>2, <1>3, <1>4, <1>8, <2>2, <2>3 DEF Traversal!Value, Traversal!Report
  <2> QED BY <1>2, <2>2, <2>4, Reports DEF IInv
<1>9. CASE answer # ENTER
  <2>1. PICK code : Return(code)
    BY <1>9 DEF Value, Fail
  <2>2. StackInv' /\ PcInv' /\ KeyInv' /\ UNCHANGED stack /\ pc' = "done"
    BY <2>1, ReturnKeeps
  <2>3. UNCHANGED Known
    BY <2>2, KnownIs
  <2>4. Traversal!Value(e)
    BY <1>1, <1>2, <1>3, <1>4, <1>9, <2>2, <2>3 DEF Traversal!Value, Traversal!Report
  <2> QED BY <1>2, <2>2, <2>4, Reports DEF IInv
<1> QED BY <1>8, <1>9

LEMMA ValueSilentlyStep ==
  ASSUME IInv, NEW token, ValueSilently(token)
  PROVE  IInv' /\ TraversalStep
<1>1. pc = "value" /\ ~EnteredIn(stack) /\ ValueDone(token.last, stack) /\ UNCHANGED events
  BY DEF ValueSilently, AtPrimitive, Entered, EnteredIn, Silent
<1>2. PICK n : Shows(stack, n)
  BY DEF IInv, StackInv
<1>3. Framed(stack) /\ Len(stack) <= MAX_NESTING + 1
  BY DEF IInv, StackInv
<1>4. /\ StackInv' /\ PcInv' /\ KeyInv'
      /\ stack' = Recounted(stack) /\ pc' \in {"trailing", "after"}
  BY <1>1, <1>2, <1>3, DoneKeeps
<1>5. View(stack') = View(stack)
  BY <1>1, <1>2, <1>3, <1>4, CountHidden
<1> QED BY <1>1, <1>4, <1>5, NothingSeen DEF IInv

LEMMA CallStep ==
  ASSUME IInv, NEW withCallback \in BOOLEAN, Call(withCallback)
  PROVE  IInv' /\ TraversalStep
<1>1. pc = "idle" /\ UNCHANGED <<key, stack, events>> /\ pc' \in {"value", "done"}
  BY DEF Call
<1>2. key = << >> /\ stack = << >> /\ events = << >>
  BY <1>1 DEF IInv, PcInv, KeyInv
<1>3. IInv'
  BY <1>1, <1>2 DEF IInv, StackInv, PcInv, KeyInv
<1>4. CASE pc' = "value"
  BY <1>1, <1>3, <1>4, NothingSeen
<1>5. CASE pc' = "done"
  BY <1>1, <1>3, <1>5, Stops
<1> QED BY <1>1, <1>4, <1>5

LEMMA NextStep ==
  ASSUME IInv, [Next]_scanVars
  PROVE  IInv' /\ TraversalStep
<1>1. CASE UNCHANGED scanVars
  <2>1. IInv'
    BY <1>1 DEF scanVars, IInv, StackInv, PcInv, KeyInv
  <2>2. UNCHANGED <<events, stack, pc>>
    BY <1>1 DEF scanVars
  <2> QED BY <2>1, <2>2, KnownIs DEF TraversalStep, Traversal!traversalVars
<1>2. CASE \E answer \in Answers : Begin(answer)
  BY <1>2, BeginStep
<1>3. CASE \E answer \in Answers : End(answer)
  BY <1>3, EndStep
<1>4. CASE BeginSilently
  BY <1>4, BeginSilentlyStep
<1>5. CASE EndSilently
  BY <1>5, EndSilentlyStep
<1>6. CASE NoValue
  BY <1>6, ReturnStep DEF NoValue, FailSilently, Fail
<1>7. CASE \E token \in {Primitive(cursor)} : kason_scan_primitive(token)
  <2>1. PICK token : token = Primitive(cursor) /\ kason_scan_primitive(token)
    BY <1>7
  <2>2. token.type \notin Traversal!Types
    BY <2>1, PrimitiveType
  <2>3. CASE BadPrimitive(token)
    BY <2>3, ReturnStep DEF BadPrimitive, FailSilently, Fail
  <2>4. CASE ValueSilently(token)
    BY <2>4, ValueSilentlyStep
  <2>5. CASE \E answer \in Answers : Value(token, answer)
    BY <2>2, <2>5, ValueStep
  <2> QED BY <2>1, <2>3, <2>4, <2>5 DEF kason_scan_primitive
<1>8. CASE Item
  BY <1>8, ItemStep
<1>9. CASE Separator
  BY <1>9, SeparatorStep
<1>10. CASE Trailing
  BY <1>10, ReturnStep DEF Trailing
<1>11. CASE \E withCallback \in BOOLEAN : Call(withCallback)
  BY <1>11, CallStep
<1> QED BY <1>1, <1>2, <1>3, <1>4, <1>5, <1>6, <1>7, <1>8, <1>9, <1>10, <1>11
        DEF Next, Scan

LEMMA SpecKeeps == Spec => []IInv
<1>1. Init => IInv
  BY InitIsInv
<1>2. IInv /\ [Next]_scanVars => IInv'
  BY NextStep
<1> QED BY <1>1, <1>2, PTL DEF Spec

-----------------------------------------------------------------------------
(* However deep a document nests and whatever the callback answers, no     *)
(* more than MAX_NESTING + 1 calls of kason_scan_container are open.       *)
THEOREM StacksAreBounded == Spec => []StackIsBounded
<1>1. IInv => StackIsBounded
  BY DEF IInv, StackInv, StackIsBounded
<1> QED BY <1>1, SpecKeeps, PTL

(* The calls of the callback are a traversal: kason_parse reports nothing  *)
(* from inside a captured or skipped container and nothing after BREAK,    *)
(* pairs begins with ends, and counts what it reported of an array.        *)
THEOREM ScanIsTraversal == Spec => IsTraversal
<1>1. Init => Traversal!Init
  <2>1. ASSUME Init PROVE Known = << >>
    BY <2>1, KnownIs, EmptyFramed DEF Init
  <2> QED BY <2>1 DEF Init, Traversal!Init
<1>2. IInv /\ [Next]_scanVars => [Traversal!Next]_(Traversal!traversalVars)
  BY NextStep DEF TraversalStep
<1> QED BY <1>1, <1>2, SpecKeeps, PTL DEF Spec, IsTraversal, Traversal!Spec
=============================================================================
