--------------------------- MODULE KasonStreamProofs ---------------------------
(***************************************************************************)
(* Theorems about the chunked parser, for every scratch size, every choice *)
(* of chunks and every answer of the callback.                             *)
(*                                                                         *)
(* The inductive invariant IInv has six parts: CallInv (the nesting of     *)
(* calls) with IdleInv (between calls all that was fed is read), TokenInv  *)
(* (the token memory is sound for the tokens in use), PointersLive,        *)
(* ExactInv (the scratch holds those tokens one behind the other),         *)
(* ContentInv (and they are pieces of the input), and EventInv (the last   *)
(* entry is open exactly inside a container, whose first bracket is at the *)
(* bottom of the scratch).                                                 *)
(* PointersLive alone is not inductive: a run extends a pointer to the     *)
(* bytes before i, and that it is well formed needs TokenInv and CallInv.  *)
(* ScratchIsExact alone says nothing inside an escape: ExactInv says there *)
(* that both tokens are moved and where they begin, which is what the byte *)
(* that ends the escape needs.                                             *)
(***************************************************************************)
EXTENDS KasonStream, SequenceTheorems, TLAPS

-----------------------------------------------------------------------------
(* Token memory. *)

\* The token memory t is sound: the scratch fits, pointers point into the
\* first n bytes handed over, the slices of the tokens in use lie in the
\* scratch, and a key that was moved lies before a value that was moved.
Sound(t, used, n) ==
  /\ t \in Tokens /\ Len(t.scratch) < ScratchSize
  /\ \A f \in Fields : t.direct[f] # Null =>
       /\ 1 <= t.direct[f].begin /\ t.direct[f].begin <= t.direct[f].end + 1
       /\ t.direct[f].end <= n
  /\ \A f \in used : t.direct[f] = Null =>
       /\ 1 <= t.slice[f].begin /\ t.slice[f].begin <= t.slice[f].end + 1
       /\ t.slice[f].end <= Len(t.scratch)
  /\ (used = Fields /\ t.direct["value"] = Null) =>
       /\ t.direct["key"] = Null
       /\ t.slice["key"].end < t.slice["value"].begin

\* A slice of the chunk is a sequence of bytes.
LEMMA ChunkText ==
  ASSUME fed \in Seq(Byte), NEW t, NEW used, Sound(t, used, Len(fed)), NEW f \in Fields,
         t.direct[f] # Null
  PROVE  ChunkSlice(t.direct[f]) \in Seq(Byte)
<1>1. /\ t.direct[f].begin \in Int /\ t.direct[f].end \in Int
      /\ 1 <= t.direct[f].begin /\ t.direct[f].end <= Len(fed)
  BY DEF Sound, Tokens, Slice
<1>2. \A k \in t.direct[f].begin .. t.direct[f].end : fed[k] \in Byte
  BY <1>1
<1> QED
  BY <1>1, <1>2, SubSeqProperties DEF ChunkSlice

\* The text of a token that is in use is a sequence of bytes.
LEMMA TokenText ==
  ASSUME fed \in Seq(Byte), NEW t, NEW used, Sound(t, used, Len(fed)), NEW f \in Fields,
         f \in used \/ t.direct[f] # Null
  PROVE  Text(t, f) \in Seq(Byte)
<1>1. CASE t.direct[f] # Null
  BY <1>1, ChunkText DEF Text
<1>2. CASE t.direct[f] = Null
  <2>1. /\ t.slice[f].begin \in Int /\ t.slice[f].end \in Int
        /\ 1 <= t.slice[f].begin /\ t.slice[f].end <= Len(t.scratch)
        /\ t.scratch \in Seq(Byte)
    BY <1>2 DEF Sound, Tokens, Slice
  <2>2. \A k \in t.slice[f].begin .. t.slice[f].end : t.scratch[k] \in Byte
    BY <2>1
  <2> QED
    BY <1>2, <2>1, <2>2, SubSeqProperties DEF Text
<1> QED
  BY <1>1, <1>2

\* kason_stream_clear_token leaves a sound token memory.
LEMMA ClearedSound == fed \in Seq(Byte) => Sound(Cleared, {}, Len(fed))
<1>1. Cleared \in Tokens
  BY DEF Cleared, Tokens, Slice, Null
<1>2. Cleared.scratch = << >> /\ \A f \in Fields : Cleared.direct[f] = Null
  BY DEF Cleared
<1>3. Len(Cleared.scratch) < ScratchSize
  BY <1>2, ScratchSizeAssumption
<1>4. Fields # {}
  BY DEF Fields
<1> QED
  BY <1>1, <1>2, <1>3, <1>4 DEF Sound

\* Dropping a token keeps the memory sound.
LEMMA FewerSound ==
  ASSUME NEW n \in Nat, NEW t, NEW used \in SUBSET Fields, NEW fewer \in SUBSET used,
         Sound(t, used, n)
  PROVE  Sound(t, fewer, n)
<1>1. fewer = Fields => used = Fields
  OBVIOUS
<1> QED
  BY <1>1 DEF Sound

\* Opening a token in the chunk, or moving its end, keeps it sound.
LEMMA PointSound ==
  ASSUME fed \in Seq(Byte), NEW t, NEW used \in SUBSET Fields, Sound(t, used,
         Len(fed)), NEW f \in Fields,
         f = "value" \/ "value" \notin used,
         NEW begin \in Nat, NEW end \in Int,
         1 <= begin, begin <= end + 1, end <= Len(fed)
  PROVE  Sound(PointAt(t, f, begin, end), used \cup {f}, Len(fed))
<1> DEFINE u == PointAt(t, f, begin, end)
           at == [begin |-> begin, end |-> end]
<1>1. at \in Slice /\ at.begin = begin /\ at.end = end
  BY DEF Slice
<1> HIDE DEF at
<1>2. t \in Tokens
  BY DEF Sound
<1>3. /\ u = [t EXCEPT !.direct[f] = at]
  BY DEF PointAt, at
<1>4. [t.direct EXCEPT ![f] = at] \in [Fields -> Slice]
  BY <1>1, <1>2 DEF Tokens
<1>9. u = [t EXCEPT !.direct = [t.direct EXCEPT ![f] = at]]
  BY <1>3
<1>10. u \in Tokens /\ u.scratch = t.scratch /\ u.slice = t.slice
  BY <1>2, <1>4, <1>9 DEF Tokens
<1>5. u.direct = [t.direct EXCEPT ![f] = at]
  BY <1>2, <1>3 DEF Tokens
<1>6. u.direct[f] = at /\ \A g \in Fields \ {f} : u.direct[g] = t.direct[g]
  BY <1>2, <1>5 DEF Tokens
<1>7. at # Null
  BY <1>1 DEF Null
<1> HIDE DEF u
<1>8. Sound(u, used \cup {f}, Len(fed))
  BY <1>1, <1>2, <1>10, <1>6, <1>7 DEF Sound, Fields
<1> QED
  BY <1>8 DEF u

\* append_scratch, called with room left, keeps it sound.
LEMMA AppendSound ==
  ASSUME NEW n \in Nat, NEW t, NEW used \in SUBSET Fields, Sound(t, used, n),
         NEW c \in Byte, Room(t) > 0
  PROVE  /\ Sound(append_scratch(t, c), used, n)
         /\ append_scratch(t, c).scratch = Append(t.scratch, c)
         /\ append_scratch(t, c).slice = t.slice
         /\ append_scratch(t, c).direct = t.direct
         /\ append_scratch(t, c).has_key = t.has_key
<1> DEFINE u == append_scratch(t, c)
<1>1. t \in Tokens /\ t.scratch \in Seq(Byte)
  BY DEF Sound, Tokens
<1>2. Append(t.scratch, c) \in Seq(Byte) /\ Len(Append(t.scratch, c)) = Len(t.scratch) + 1
  BY <1>1
<1>3. u \in Tokens
  BY <1>1, <1>2 DEF append_scratch, Tokens
<1>4. u.scratch = Append(t.scratch, c) /\ u.slice = t.slice /\ u.direct = t.direct /\ u.has_key = t.has_key
  BY <1>1 DEF append_scratch, Tokens
<1>5. Len(t.scratch) + 1 < ScratchSize
  <2>1. Len(t.scratch) \in Nat
    BY <1>1
  <2>2. ScratchSize - 1 - Len(t.scratch) > 0
    BY DEF Room
  <2>3. ASSUME NEW k \in Nat, ScratchSize - 1 - k > 0 PROVE k + 1 < ScratchSize
    BY <2>3, ScratchSizeAssumption
  <2> QED BY <2>1, <2>2, <2>3
<1> HIDE DEF u
<1>6. Sound(u, used, n)
  BY <1>1, <1>2, <1>3, <1>4, <1>5 DEF Sound, Tokens, Slice
<1> QED
  BY <1>4, <1>6 DEF u

EndSlice(t, f) == [t EXCEPT !.slice[f].end = Len(t.scratch)]

\* Moving the end of the last slice to the end of the scratch too.
LEMMA EndSliceSound ==
  ASSUME NEW n \in Nat, NEW t, NEW used \in SUBSET Fields, Sound(t, used, n),
         NEW f \in Fields,
         f = "value" \/ "value" \notin used
  PROVE  /\ Sound(EndSlice(t, f), used, n)
         /\ EndSlice(t, f).direct = t.direct
         /\ EndSlice(t, f).has_key = t.has_key
<1> DEFINE u == EndSlice(t, f)
<1>1. t \in Tokens /\ t.scratch \in Seq(Byte) /\ Len(t.scratch) \in Nat
  BY DEF Sound, Tokens
<1>2. /\ u.scratch = t.scratch /\ u.direct = t.direct /\ u.has_key = t.has_key
      /\ u.slice = [t.slice EXCEPT ![f] = [t.slice[f] EXCEPT !.end = Len(t.scratch)]]
  BY <1>1 DEF EndSlice, Tokens
<1>3. [t.slice[f] EXCEPT !.end = Len(t.scratch)] \in Slice
  <2>1. t.slice[f] \in Slice
    BY <1>1 DEF Tokens
  <2> QED BY <1>1, <2>1 DEF Slice
<1>4. u \in Tokens
  BY <1>1, <1>3 DEF EndSlice, Tokens
<1>5. /\ u.slice[f].begin = t.slice[f].begin /\ u.slice[f].end = Len(t.scratch)
      /\ \A g \in Fields \ {f} : u.slice[g] = t.slice[g]
  BY <1>1, <1>2 DEF Tokens, Slice
<1> HIDE DEF u
<1>6. Sound(u, used, n)
  <2>1. \A g \in Fields : t.slice[g].begin \in Nat /\ t.slice[g].end \in Int
    BY <1>1 DEF Tokens, Slice
  <2>2. ASSUME NEW g \in used, u.direct[g] = Null
        PROVE  /\ 1 <= u.slice[g].begin /\ u.slice[g].begin <= u.slice[g].end + 1
               /\ u.slice[g].end <= Len(u.scratch)
    <3>1. /\ g \in Fields /\ 1 <= t.slice[g].begin
          /\ t.slice[g].begin <= t.slice[g].end + 1 /\ t.slice[g].end <= Len(t.scratch)
      BY <1>2, <2>2 DEF Sound
    <3>2. CASE g = f
      BY <1>1, <1>2, <1>5, <2>1, <3>1, <3>2
    <3>3. CASE g # f
      BY <1>2, <1>5, <3>1, <3>3
    <3> QED BY <3>2, <3>3
  <2>3. ASSUME used = Fields, u.direct["value"] = Null
        PROVE  u.direct["key"] = Null /\ u.slice["key"].end < u.slice["value"].begin
    <3>1. f = "value" /\ "key" \in Fields \ {f}
      BY <2>3 DEF Fields
    <3> QED BY <1>2, <1>5, <2>3, <3>1 DEF Sound
  <2> QED BY <1>2, <1>4, <2>2, <2>3 DEF Sound
<1> QED
  BY <1>2, <1>6 DEF u

WithKey(t) == [t EXCEPT !.has_key = TRUE]
WithHexLeft(t, left) == [t EXCEPT !.escape_hex_left = left]

\* has_key and escape_hex_left are not part of the memory.
LEMMA FlagSound ==
  ASSUME NEW n \in Nat, NEW t, NEW used \in SUBSET Fields, Sound(t, used, n),
         NEW left \in 0..4
  PROVE  /\ Sound(WithKey(t), used, n)
         /\ WithKey(t).direct = t.direct /\ WithKey(t).has_key
         /\ Sound(WithHexLeft(t, left), used, n)
         /\ WithHexLeft(t, left).direct = t.direct
         /\ WithHexLeft(t, left).has_key = t.has_key
<1>1. t \in Tokens
  BY DEF Sound
<1>2. /\ WithKey(t) \in Tokens /\ WithKey(t).scratch = t.scratch
      /\ WithKey(t).slice = t.slice /\ WithKey(t).direct = t.direct /\ WithKey(t).has_key
  BY <1>1 DEF Tokens, WithKey
<1>3. /\ WithHexLeft(t, left) \in Tokens /\ WithHexLeft(t, left).scratch = t.scratch
      /\ WithHexLeft(t, left).slice = t.slice /\ WithHexLeft(t, left).direct = t.direct
      /\ WithHexLeft(t, left).has_key = t.has_key
  BY <1>1 DEF Tokens, WithHexLeft
<1>4. Sound(WithKey(t), used, n) /\ Sound(WithHexLeft(t, left), used, n)
  BY <1>2, <1>3 DEF Sound
<1> QED
  BY <1>2, <1>3, <1>4

\* kason_stream_copy_direct moves a token, or the beginning of it, behind
\* what the scratch holds.
LEMMA CopyShape ==
  ASSUME fed \in Seq(Byte), NEW t, NEW used, Sound(t, used, Len(fed)), NEW f \in Fields,
         t.direct[f] # Null
  PROVE  \E kept \in Nat :
           /\ copy_direct(t, f) \in Tokens
           /\ copy_direct(t, f).has_key = t.has_key
           /\ Len(copy_direct(t, f).scratch) = Len(t.scratch) + kept
           /\ Len(copy_direct(t, f).scratch) < ScratchSize
           /\ copy_direct(t, f).slice[f].begin = Len(t.scratch) + 1
           /\ copy_direct(t, f).slice[f].end = Len(t.scratch) + kept
           /\ copy_direct(t, f).direct[f] \in {Null, t.direct[f]}
           /\ \A g \in Fields \ {f} : /\ copy_direct(t, f).slice[g] = t.slice[g]
                                      /\ copy_direct(t, f).direct[g] = t.direct[g]
<1> DEFINE text == ChunkSlice(t.direct[f])
           kept == IF Len(text) <= Room(t) THEN Len(text) ELSE Room(t)
           part == SubSeq(text, 1, kept)
           at   == [begin |-> Len(t.scratch) + 1, end |-> Len(t.scratch) + kept]
           to   == IF kept = Len(text) THEN Null ELSE t.direct[f]
           u    == [t EXCEPT !.scratch   = @ \o part,
                             !.slice[f]  = at,
                             !.direct[f] = IF kept = Len(text) THEN Null ELSE @]
           w    == [t EXCEPT !.scratch = t.scratch \o part,
                             !.slice   = [t.slice EXCEPT ![f] = at],
                             !.direct  = [t.direct EXCEPT ![f] = to]]
<1>1. text \in Seq(Byte) /\ Len(text) \in Nat
  BY ChunkText
<1>2. t \in Tokens /\ t.scratch \in Seq(Byte) /\ Len(t.scratch) \in Nat /\ Len(t.scratch) < ScratchSize
  BY DEF Sound, Tokens
<1>3. kept \in 0..Len(text) /\ Len(t.scratch) + kept < ScratchSize
  <2>1. Room(t) = ScratchSize - 1 - Len(t.scratch)
    BY DEF Room
  <2>2. Room(t) \in Nat /\ Len(t.scratch) + Room(t) < ScratchSize
    BY <1>2, <2>1, ScratchSizeAssumption
  <2> HIDE DEF text
  <2> QED BY <1>1, <1>2, <2>2, ScratchSizeAssumption
<1>4. part \in Seq(Byte) /\ Len(part) = kept
  <2>1. \A k \in 1..kept : text[k] \in Byte
    BY <1>1, <1>3
  <2> HIDE DEF kept, text
  <2> QED BY <1>1, <1>3, <2>1, SubSeqProperties
<1>5. copy_direct(t, f) = u
  <2>1. Len(t.scratch) + 1 + kept - 1 = Len(t.scratch) + kept
    BY <1>2, <1>3
  <2> QED BY <2>1 DEF copy_direct
<1> HIDE DEF text, kept, part, at
<1>6. u = w
  BY <1>2 DEF to
<1>7. at \in Slice /\ at.begin = Len(t.scratch) + 1 /\ at.end = Len(t.scratch) + kept
  BY <1>1, <1>2, <1>3 DEF at, Slice
<1>8. t.scratch \o part \in Seq(Byte) /\ Len(t.scratch \o part) = Len(t.scratch) + kept
  BY <1>2, <1>4, ConcatProperties
<1>9. /\ [t.slice EXCEPT ![f] = at] \in [Fields -> Slice]
      /\ [t.direct EXCEPT ![f] = to] \in [Fields -> Slice]
  BY <1>2, <1>7 DEF Tokens, Null, Slice, to
<1> HIDE DEF to
<1>10. /\ w \in Tokens /\ w.scratch = t.scratch \o part /\ w.has_key = t.has_key
       /\ w.slice = [t.slice EXCEPT ![f] = at]
       /\ w.direct = [t.direct EXCEPT ![f] = to]
  BY <1>2, <1>8, <1>9 DEF Tokens
<1>11. /\ w.slice[f] = at /\ w.direct[f] = to
       /\ \A g \in Fields \ {f} : w.slice[g] = t.slice[g] /\ w.direct[g] = t.direct[g]
  BY <1>2, <1>10 DEF Tokens
<1>12. to \in {Null, t.direct[f]}
  BY DEF to
<1> HIDE DEF u, w
<1>13. Len(w.scratch) = Len(t.scratch) + kept
  BY <1>8, <1>10
<1>14. kept \in Nat /\ Len(w.scratch) < ScratchSize
  BY <1>1, <1>2, <1>3, <1>13
<1>15. copy_direct(t, f) = w
  BY <1>5, <1>6
<1>16. /\ w.slice[f].begin = Len(t.scratch) + 1
       /\ w.slice[f].end = Len(t.scratch) + kept
       /\ w.direct[f] \in {Null, t.direct[f]}
  BY <1>7, <1>11, <1>12
<1> QED BY <1>10, <1>11, <1>13, <1>14, <1>15, <1>16

\* kason_stream_copy_direct keeps the memory sound, complete or not.
LEMMA CopySound ==
  ASSUME fed \in Seq(Byte), NEW t, NEW used \in SUBSET Fields, Sound(t, used,
         Len(fed)), NEW f \in Fields,
         f = "key" \/ t.direct["key"] = Null
  PROVE  /\ Sound(copy_direct(t, f), used, Len(fed))
         /\ copy_direct(t, f).has_key = t.has_key
         /\ \A g \in Fields \ {f} : copy_direct(t, f).direct[g] = t.direct[g]
         /\ copy_direct(t, f).direct[f] \in {Null, t.direct[f]}
<1>1. CASE t.direct[f] = Null
  BY <1>1 DEF copy_direct
<1>2. CASE t.direct[f] # Null
  <2> DEFINE w == copy_direct(t, f)
  <2>1. PICK kept \in Nat :
          /\ w \in Tokens /\ w.has_key = t.has_key
          /\ Len(w.scratch) = Len(t.scratch) + kept /\ Len(w.scratch) < ScratchSize
          /\ w.slice[f].begin = Len(t.scratch) + 1 /\ w.slice[f].end = Len(t.scratch) + kept
          /\ w.direct[f] \in {Null, t.direct[f]}
          /\ \A g \in Fields \ {f} : w.slice[g] = t.slice[g] /\ w.direct[g] = t.direct[g]
    BY <1>2, CopyShape
  <2> HIDE DEF w
  <2>2. t \in Tokens /\ Len(t.scratch) \in Nat
    BY DEF Sound, Tokens
  <2>3. Len(t.scratch) <= Len(w.scratch) /\ Len(w.scratch) \in Nat
    BY <2>1, <2>2
  <2>14. Sound(w, used, Len(fed))
    <3>2. ASSUME NEW g \in Fields, w.direct[g] # Null
          PROVE  /\ 1 <= w.direct[g].begin /\ w.direct[g].begin <= w.direct[g].end + 1
                 /\ w.direct[g].end <= Len(fed)
      BY <2>1, <3>2 DEF Sound
    <3>3. ASSUME NEW g \in used, w.direct[g] = Null
          PROVE  /\ 1 <= w.slice[g].begin /\ w.slice[g].begin <= w.slice[g].end + 1
                 /\ w.slice[g].end <= Len(w.scratch)
      <4>1. CASE g = f
        BY <2>1, <2>2, <4>1
      <4>2. CASE g # f
        <5>1. g \in Fields /\ w.slice[g] = t.slice[g] /\ w.direct[g] = t.direct[g]
          BY <2>1, <4>2
        <5>2. t.slice[g].end \in Int
          BY <2>2, <5>1 DEF Tokens, Slice
        <5>3. /\ 1 <= t.slice[g].begin /\ t.slice[g].begin <= t.slice[g].end + 1
              /\ t.slice[g].end <= Len(t.scratch)
          BY <3>3, <5>1 DEF Sound
        <5> QED BY <2>2, <2>3, <5>1, <5>2, <5>3
      <4> QED BY <4>1, <4>2
    <3>4. ASSUME used = Fields, w.direct["value"] = Null
          PROVE  w.direct["key"] = Null /\ w.slice["key"].end < w.slice["value"].begin
      <4>1. CASE f = "key"
        BY <1>2, <2>1, <3>4, <4>1 DEF Sound, Fields
      <4>2. CASE f = "value"
        BY <2>1, <2>2, <3>4, <4>2 DEF Sound, Fields, Tokens, Slice
      <4> QED BY <4>1, <4>2 DEF Fields
    <3> QED BY <2>1, <3>2, <3>3, <3>4 DEF Sound
  <2> QED BY <2>1, <2>14 DEF w
<1> QED
  BY <1>1, <1>2

\* kason_stream_preserve_direct keeps the memory sound.
LEMMA PreserveSound ==
  ASSUME fed \in Seq(Byte), NEW t, NEW used \in SUBSET Fields, Sound(t, used, Len(fed))
  PROVE  /\ Sound(preserve_direct(t), used, Len(fed))
         /\ preserve_direct(t).has_key = t.has_key
         /\ \A f \in Fields : preserve_direct(t).direct[f] \in {Null, t.direct[f]}
<1> DEFINE keyed == copy_direct(t, "key")
<1>1. /\ Sound(keyed, used, Len(fed)) /\ keyed.has_key = t.has_key
      /\ \A f \in Fields : keyed.direct[f] \in {Null, t.direct[f]}
  BY CopySound DEF Fields
<1>2. CASE keyed.direct["key"] = Null
  <2>1. preserve_direct(t) = copy_direct(keyed, "value")
    BY <1>2 DEF preserve_direct
  <2> HIDE DEF keyed
  <2>2. /\ Sound(copy_direct(keyed, "value"), used, Len(fed))
        /\ copy_direct(keyed, "value").has_key = keyed.has_key
        /\ copy_direct(keyed, "value").direct["key"] = keyed.direct["key"]
        /\ copy_direct(keyed, "value").direct["value"] \in {Null, keyed.direct["value"]}
    BY <1>1, <1>2, CopySound DEF Fields
  <2> QED BY <1>1, <2>1, <2>2 DEF Fields
<1>3. CASE keyed.direct["key"] # Null
  BY <1>1, <1>3 DEF preserve_direct
<1> QED
  BY <1>2, <1>3

-----------------------------------------------------------------------------
(* Entries and container fields. *)

\* A sequence is the beginning of what it is extended to.
LEMMA PrefixOfConcat ==
  ASSUME NEW S, NEW s \in Seq(S), NEW t \in Seq(S)
  PROVE  SubSeq(s \o t, 1, Len(s)) = s
<1>1. /\ s \o t \in Seq(S) /\ Len(s \o t) = Len(s) + Len(t) /\ Len(s) \in Nat /\ Len(t) \in Nat
      /\ \A k \in 1..Len(s) : (s \o t)[k] = s[k]
  BY ConcatProperties
<1>2. \A k \in 1..Len(s) : (s \o t)[k] \in S
  BY <1>1
<1> DEFINE u == SubSeq(s \o t, 1, Len(s))
<1>3. /\ u \in Seq(S) /\ Len(u) = IF 1 <= Len(s) THEN Len(s) - 1 + 1 ELSE 0
      /\ \A k \in 1..(Len(s) - 1 + 1) : u[k] = (s \o t)[1 + k - 1]
  BY <1>1, <1>2, SubSeqProperties
<1> HIDE DEF u
<1>4. Len(u) = Len(s)
  BY <1>1, <1>3
<1>5. ASSUME NEW k \in 1..Len(u) PROVE u[k] = s[k]
  <2>1. k \in 1..Len(s) /\ k \in 1..(Len(s) - 1 + 1) /\ 1 + k - 1 = k
    BY <1>1, <1>4
  <2> QED BY <1>1, <1>3, <2>1
<1>6. u = s
  BY <1>3, <1>4, <1>5, SeqEqual
<1> QED
  BY <1>6 DEF u

Updated(r, data, open) == [r EXCEPT !.data = data, !.open = open]

\* Rebuilding an entry is updating two of its fields.
LEMMA EntryUpdate ==
  ASSUME NEW r \in Entries, NEW data, NEW open
  PROVE  Entry(r.key, r.type, data, open) = Updated(r, data, open)
<1> DEFINE a == Entry(r.key, r.type, data, open)
           b == Updated(r, data, open)
<1>1. /\ DOMAIN a = {"key", "type", "data", "open"}
      /\ DOMAIN b = {"key", "type", "data", "open"}
  BY DEF Entry, Entries, Updated
<1>2. a.key = b.key /\ a.type = b.type /\ a.data = b.data /\ a.open = b.open
  BY DEF Entry, Entries, Updated
<1>3. a = [x \in DOMAIN a |-> a[x]] /\ b = [x \in DOMAIN b |-> b[x]]
  BY DEF Entry, Updated
<1> HIDE DEF a, b
<1>4. \A x \in DOMAIN a : a[x] = b[x]
  BY <1>1, <1>2
<1>5. a = b
  BY <1>1, <1>3, <1>4
<1> QED
  BY <1>5 DEF a, b

\* u is s with its last entry grown by the bytes.
GrownBy(s, u, bytes, open) ==
  LET old == s[Len(s)]
      new == u[Len(s)]
  IN  /\ u \in Seq(Entries) /\ Len(u) = Len(s) /\ u # << >>
      /\ u = [s EXCEPT ![Len(s)] = new]
      /\ new = [old EXCEPT !.data = new.data, !.open = open]
      /\ new.type = old.type /\ new.open = open
      /\ Len(new.data) > Len(old.data)
      /\ SubSeq(new.data, 1, Len(old.data)) = old.data
      /\ new.data[Len(new.data)] = bytes[Len(bytes)]

\* AddPart grows the last entry by the part, and nothing else.
LEMMA PartAdded ==
  ASSUME NEW s \in Seq(Entries), s # << >>, NEW bytes \in Seq(Byte), Len(bytes) > 0,
         NEW open \in BOOLEAN
  PROVE  GrownBy(s, AddPart(s, bytes, open), bytes, open)
<1> DEFINE u == AddPart(s, bytes, open)
           old == s[Len(s)]
           new == u[Len(s)]
<1> DEFINE grown == Entry(old.key, old.type, old.data \o bytes, open)
<1>1. Len(s) \in Nat \ {0} /\ Len(s) \in 1..Len(s)
  BY EmptySeq
<1>2. old \in Entries
  BY <1>1, ElementOfSeq
<1>3. u = [s EXCEPT ![Len(s)] = grown]
  BY DEF AddPart
<1> HIDE DEF u
<1>4. old.data \in Seq(Byte) /\ Len(old.data) \in Nat /\ Len(bytes) \in Nat
  BY <1>2 DEF Entries
<1>5. /\ old.data \o bytes \in Seq(Byte) /\ Len(old.data \o bytes) = Len(old.data) + Len(bytes)
      /\ (old.data \o bytes)[Len(old.data) + Len(bytes)] = bytes[Len(bytes)]
  <2>1. Len(old.data) + Len(bytes) \in 1..(Len(old.data) + Len(bytes))
        /\ ~(Len(old.data) + Len(bytes) <= Len(old.data))
        /\ Len(old.data) + Len(bytes) - Len(old.data) = Len(bytes)
    BY <1>4
  <2> QED BY <1>4, <2>1, ConcatProperties
<1>6. SubSeq(old.data \o bytes, 1, Len(old.data)) = old.data
  BY <1>4, PrefixOfConcat
<1>7. /\ grown \in Entries /\ grown.data = old.data \o bytes /\ grown.open = open /\ grown.type = old.type
      /\ grown = [old EXCEPT !.data = grown.data, !.open = open]
  <2> DEFINE data == old.data \o bytes
  <2>1. data \in Seq(Byte)
    BY <1>5
  <2>2. old.key \in Seq(Seq(Byte)) /\ old.type \in OutTypes
    BY <1>2 DEF Entries
  <2> HIDE DEF data
  <2>4. Entry(old.key, old.type, data, open) \in Entries
    BY <2>1, <2>2 DEF Entries, Entry
  <2>5. Entry(old.key, old.type, data, open) = [old EXCEPT !.data = data, !.open = open]
    <3>1. Entry(old.key, old.type, data, open) = Updated(old, data, open)
      BY <1>2, EntryUpdate
    <3> QED BY <3>1 DEF Updated
  <2>6. grown = Entry(old.key, old.type, data, open)
    BY DEF data
  <2>7. /\ grown \in Entries /\ grown.data = data /\ grown.open = open /\ grown.type = old.type
        /\ grown = [old EXCEPT !.data = grown.data, !.open = open]
    BY <2>4, <2>5, <2>6 DEF Entry
  <2> QED BY <2>7 DEF data
<1> HIDE DEF grown
<1>8. u \in Seq(Entries) /\ Len(u) = Len(s) /\ u[Len(s)] = grown
  BY <1>1, <1>3, <1>7, ExceptSeq
<1>9. u # << >>
  BY <1>1, <1>8, EmptySeq
<1>10. new = grown
  BY <1>8
<1>11. Len(new.data) = Len(old.data) + Len(bytes) /\ Len(new.data) > Len(old.data)
  <2>1. Len(new.data) = Len(old.data) + Len(bytes)
    BY <1>5, <1>7, <1>10
  <2> QED BY <1>4, <2>1
<1>12. new.data[Len(new.data)] = bytes[Len(bytes)]
  <2>1. Len(new.data) = Len(old.data) + Len(bytes)
    BY <1>5, <1>7, <1>10
  <2> QED BY <1>5, <1>7, <1>10, <2>1
<1>13. u = [s EXCEPT ![Len(s)] = new]
  BY <1>3, <1>10
<1>14. /\ new = [old EXCEPT !.data = new.data, !.open = open]
       /\ new.type = old.type /\ new.open = open
       /\ SubSeq(new.data, 1, Len(old.data)) = old.data
  BY <1>6, <1>7, <1>10
<1>15. GrownBy(s, u, bytes, open)
  BY <1>8, <1>9, <1>11, <1>12, <1>13, <1>14 DEF GrownBy
<1> QED
  BY <1>15 DEF u

\* The updates of StringStep.
WithEscape(k, escape, hex) == [k EXCEPT !.escape = escape, !.hex_left = hex]
WithLead(k, left, value, least) ==
  [k EXCEPT !.utf8_left = left, !.utf8_value = value, !.utf8_minimum = least]
WithContinuation(k, left, value) == [k EXCEPT !.utf8_left = left, !.utf8_value = value]
WithHex(k, hex, value) == [k EXCEPT !.unicode_value = value, !.hex_left = hex]
WithUnit(k, hex, value, s) ==
  [k EXCEPT !.unicode_value = value, !.hex_left = hex, !.escape = FALSE, !.surrogate_state = s]
WithLow(k, hex, value, s) ==
  [k EXCEPT !.surrogate_state = s, !.hex_left = hex, !.unicode_value = value]

\* The escape fields keep their types.
LEMMA EscapeUpdate ==
  ASSUME NEW k \in Containers, NEW escape \in BOOLEAN, NEW hex \in 0..4
  PROVE  WithEscape(k, escape, hex) \in Containers /\ WithEscape(k, escape, hex).type = k.type
BY DEF Containers, WithEscape

\* The UTF-8 fields keep their types.
LEMMA Utf8Updates ==
  ASSUME NEW k \in Containers, NEW left \in 0..3, NEW value \in Nat
  PROVE  /\ \A least \in Nat : /\ WithLead(k, left, value, least) \in Containers
                               /\ WithLead(k, left, value, least).type = k.type
         /\ WithContinuation(k, left, value) \in Containers
         /\ WithContinuation(k, left, value).type = k.type
BY DEF Containers, WithLead, WithContinuation

\* The fields of a unicode escape keep their types.
LEMMA HexUpdates ==
  ASSUME NEW k \in Containers, NEW hex \in 0..4, NEW value \in Nat
  PROVE  /\ WithHex(k, hex, value) \in Containers /\ WithHex(k, hex, value).type = k.type
         /\ \A s \in Surrogates :
              /\ WithUnit(k, hex, value, s) \in Containers /\ WithUnit(k, hex, value, s).type = k.type
              /\ WithLow(k, hex, value, s) \in Containers /\ WithLow(k, hex, value, s).type = k.type
BY DEF Containers, WithHex, WithUnit, WithLow

\* A byte of a string keeps the types of the container fields and its type.
LEMMA StringStepType ==
  ASSUME NEW k \in Containers, NEW c \in Byte, NEW next \in StringStep(k, c)
  PROVE  next \in Containers /\ next.type = k.type
<1> DEFINE Good == next \in Containers /\ next.type = k.type
<1>0. /\ 0 \in 0..4 /\ 4 \in 0..4 /\ 0 \in 0..3 /\ 0 \in Nat /\ TRUE \in BOOLEAN
      /\ "NONE" \in Surrogates /\ "LOW_HEX" \in Surrogates
  BY DEF Surrogates
<1>1. /\ continuation_count(c) \in 0..3
      /\ lead_bits(c, continuation_count(c)) \in Nat
      /\ utf8_minimum(continuation_count(c)) \in Nat
  BY DEF Byte, continuation_count, lead_bits, utf8_minimum
<1>2. is_hex_digit(c) => kason_hex_value(c) \in Nat
  BY DEF Byte, is_hex_digit, kason_hex_value
<1>3. k.utf8_value * 64 + (c % 64) \in Nat
  BY DEF Containers, Byte
<1>4. is_hex_digit(c) => k.unicode_value * 16 + kason_hex_value(c) \in Nat
  BY <1>2 DEF Containers
<1>5. ASSUME next \in Utf8Step(k, c) PROVE Good
  <2> DEFINE n == continuation_count(c)
             lead == lead_bits(c, n)
             least == utf8_minimum(n)
             value == k.utf8_value * 64 + (c % 64)
             fewer == k.utf8_left - 1
  <2>1. \/ next = k
        \/ next = WithLead(k, n, lead, least)
        \/ next = WithContinuation(k, fewer, value) /\ k.utf8_left > 0
    BY <1>5 DEF Utf8Step, WithLead, WithContinuation
  <2>2. n \in 0..3 /\ lead \in Nat /\ least \in Nat /\ value \in Nat
    BY <1>1, <1>3
  <2>3. k.utf8_left > 0 => fewer \in 0..3
    BY DEF Containers
  <2> HIDE DEF n, lead, least, value, fewer
  <2>4. CASE next = WithLead(k, n, lead, least)
    BY <2>2, <2>4, Utf8Updates
  <2>5. CASE next = WithContinuation(k, fewer, value) /\ k.utf8_left > 0
    BY <2>2, <2>3, <2>5, Utf8Updates
  <2> QED BY <2>1, <2>4, <2>5
<1>6. ASSUME next \in HexStep(k, c) PROVE Good
  <2> DEFINE value == k.unicode_value * 16 + kason_hex_value(c)
             fewer == k.hex_left - 1
             after == IF value \in HighSurrogate THEN "EXPECT_BACKSLASH" ELSE "NONE"
  <2>1. /\ is_hex_digit(c) /\ k.hex_left > 0
        /\ \/ next = WithHex(k, fewer, value)
           \/ next = WithUnit(k, fewer, value, after)
    BY <1>6 DEF HexStep, Containers, WithHex, WithUnit
  <2>2. value \in Nat
    BY <1>4, <2>1
  <2>3. fewer \in 0..4
    BY <2>1 DEF Containers
  <2>4. after \in Surrogates
    BY DEF Surrogates
  <2> HIDE DEF value, fewer, after
  <2>5. CASE next = WithHex(k, fewer, value)
    BY <2>2, <2>3, <2>5, HexUpdates
  <2>6. CASE next = WithUnit(k, fewer, value, after)
    BY <2>2, <2>3, <2>4, <2>6, HexUpdates
  <2> QED BY <2>1, <2>5, <2>6
<1>7. ASSUME next \in EscapeStep(k, c) PROVE Good
  <2>1. \/ next \in HexStep(k, c)
        \/ next = WithHex(k, 4, 0)
        \/ next = [k EXCEPT !.escape = FALSE]
    BY <1>7 DEF EscapeStep, WithHex
  <2>2. CASE next = WithHex(k, 4, 0)
    BY <1>0, <2>2, HexUpdates
  <2>3. CASE next = [k EXCEPT !.escape = FALSE]
    BY <2>3 DEF Containers
  <2> QED BY <1>6, <2>1, <2>2, <2>3
<1>8. \/ next \in EscapeStep(k, c) \/ next \in Utf8Step(k, c)
      \/ next = [k EXCEPT !.surrogate_state = "EXPECT_U"]
      \/ next = WithLow(k, 4, 0, "LOW_HEX")
      \/ next = WithEscape(k, TRUE, 0)
      \/ next = [k EXCEPT !.string = FALSE]
  <2>1. CASE k.surrogate_state = "EXPECT_BACKSLASH"
    BY <2>1 DEF StringStep
  <2>2. CASE k.surrogate_state = "EXPECT_U"
    BY <2>2 DEF StringStep, WithLow
  <2>3. CASE k.surrogate_state = "LOW_HEX" \/ (k.surrogate_state = "NONE" /\ k.escape)
    BY <2>3 DEF StringStep
  <2>4. CASE k.surrogate_state = "NONE" /\ ~k.escape
    BY <2>4 DEF StringStep, WithEscape
  <2> QED BY <2>1, <2>2, <2>3, <2>4 DEF Containers, Surrogates
<1>9. CASE next = [k EXCEPT !.surrogate_state = "EXPECT_U"]
  BY <1>9 DEF Containers, Surrogates
<1>10. CASE next = WithLow(k, 4, 0, "LOW_HEX")
  BY <1>0, <1>10, HexUpdates
<1>11. CASE next = WithEscape(k, TRUE, 0)
  BY <1>0, <1>11, EscapeUpdate
<1>12. CASE next = [k EXCEPT !.string = FALSE]
  BY <1>12 DEF Containers
<1> QED
  BY <1>5, <1>7, <1>8, <1>9, <1>10, <1>11, <1>12

\* A number or literal has one of the scalar types, or is invalid.
LEMMA ScalarTypeIsOne == ASSUME NEW s
    PROVE ScalarType(s) \in ScalarTypes \cup {"INVALID"}
BY DEF ScalarType, ScalarTypes
-----------------------------------------------------------------------------
(* What the scratch holds. *)

\* The bytes of a token in use that were moved to the scratch.
Filled(t, used, f) ==
  IF f \in used /\ t.direct[f] = Null THEN t.slice[f].end - t.slice[f].begin + 1 ELSE 0

\* Only tokens in use point into the chunk, and those that were moved lie one
\* behind the other from the beginning of the scratch.
Tiled(t, used) ==
  /\ \A f \in Fields : t.direct[f] # Null => f \in used
  /\ ("key" \in used /\ t.direct["key"] = Null) => t.slice["key"].begin = 1
  /\ ("value" \in used /\ t.direct["value"] = Null) =>
       t.slice["value"].begin = Filled(t, used, "key") + 1
\* They are all that it holds.
Exact(t, used) ==
  /\ Tiled(t, used)
  /\ Len(t.scratch) = Filled(t, used, "key") + Filled(t, used, "value")

\* Tokens that differ in nothing but flags are laid out alike.
LEMMA SameExact ==
  ASSUME NEW t, NEW u, NEW used, u.direct = t.direct, u.slice = t.slice
  PROVE  /\ Tiled(t, used) => Tiled(u, used)
         /\ Exact(t, used) /\ u.scratch = t.scratch => Exact(u, used)
BY DEF Tiled, Exact, Filled

LEMMA ClearedExact == Exact(Cleared, {}) /\ \A f \in Fields : Cleared.direct[f] = Null
<1>1. Cleared.scratch = << >> /\ \A f \in Fields : Cleared.direct[f] = Null
  BY DEF Cleared
<1> QED BY <1>1 DEF Exact, Tiled, Filled

\* A token begins in the chunk: nothing is moved yet.
LEMMA PointExact ==
  ASSUME NEW t \in Tokens, NEW used \in SUBSET Fields, Exact(t, used),
         NEW f \in Fields \ used, "value" \notin used, NEW begin, NEW end,
         [begin |-> begin, end |-> end] # Null
  PROVE  Exact(PointAt(t, f, begin, end), used \cup {f})
<1> DEFINE u == PointAt(t, f, begin, end)
<1>1. /\ u.scratch = t.scratch /\ u.slice = t.slice
      /\ u.direct[f] = [begin |-> begin, end |-> end]
      /\ \A g \in Fields \ {f} : u.direct[g] = t.direct[g]
  BY DEF PointAt, Tokens
<1> HIDE DEF u
<1>2. Fields = {"key", "value"}
  BY DEF Fields
<1>3. Filled(u, used \cup {f}, "key") = Filled(t, used, "key")
  BY <1>1, <1>2 DEF Filled
<1>4. Filled(u, used \cup {f}, "value") = Filled(t, used, "value")
  BY <1>1, <1>2 DEF Filled
<1>5. Tiled(u, used \cup {f})
  BY <1>1, <1>2, <1>3 DEF Tiled, Exact
<1> QED BY <1>1, <1>3, <1>4, <1>5 DEF Exact, u

\* The end of a token in the chunk moves.
LEMMA RunExact ==
  ASSUME NEW t \in Tokens, NEW used \in SUBSET Fields, Exact(t, used),
         NEW f \in Fields, t.direct[f] # Null, NEW last \in Nat \ {0}
  PROVE  Exact([t EXCEPT !.direct[f].end = last], used)
<1> DEFINE u == [t EXCEPT !.direct[f].end = last]
<1>1. t.direct[f] \in Slice
  BY DEF Tokens
<1>2. /\ u.scratch = t.scratch /\ u.slice = t.slice /\ u.direct[f].end = last
      /\ \A g \in Fields \ {f} : u.direct[g] = t.direct[g]
  BY <1>1 DEF Tokens, Slice
<1>3. \A g \in Fields : u.direct[g] = Null <=> t.direct[g] = Null
  BY <1>2 DEF Null
<1> HIDE DEF u
<1>4. "key" \in Fields /\ "value" \in Fields
  BY DEF Fields
<1>5. Filled(u, used, "key") = Filled(t, used, "key") /\ Filled(u, used, "value") = Filled(t, used, "value")
  BY <1>2, <1>3, <1>4 DEF Filled
<1> QED BY <1>2, <1>3, <1>4, <1>5 DEF Exact, Tiled, u

\* A byte is appended to the last token, which ends with the scratch.
LEMMA EndExact ==
  ASSUME NEW t \in Tokens, NEW used \in SUBSET Fields, Tiled(t, used),
         NEW f \in used, t.direct[f] = Null, f = "value" \/ "value" \notin used,
         NEW u, u.direct = t.direct,
         u.slice = [t.slice EXCEPT ![f].end = Len(u.scratch)], Len(u.scratch) \in Nat,
         "key" \in used => t.direct["key"] = Null
  PROVE  Exact(u, used)
<1>1. /\ u.slice[f].begin = t.slice[f].begin /\ u.slice[f].end = Len(u.scratch)
      /\ \A g \in Fields \ {f} : u.slice[g] = t.slice[g]
  <2>1. t.slice \in [Fields -> Slice] /\ t.slice[f] \in Slice
    BY DEF Tokens
  <2> QED BY <2>1 DEF Slice
<1>2. \A g \in Fields : t.slice[g].begin \in Nat /\ t.slice[g].end \in Int
  BY DEF Tokens, Slice
<1>3. Fields = {"key", "value"} /\ f \in Fields
  BY DEF Fields
<1>4. CASE f = "value"
  <2>1. Filled(u, used, "key") = Filled(t, used, "key") /\ Filled(t, used, "key") \in Int
    BY <1>1, <1>2, <1>3, <1>4 DEF Filled
  <2>2. Filled(u, used, "value") = Len(u.scratch) - Filled(t, used, "key")
    BY <1>1, <1>2, <1>3, <1>4, <2>1 DEF Filled, Tiled
  <2>3. Tiled(u, used)
    BY <1>1, <1>3, <1>4, <2>1 DEF Tiled
  <2> QED BY <2>1, <2>2, <2>3 DEF Exact
<1>5. CASE f = "key"
  <2>1. Filled(u, used, "value") = 0
    BY <1>3, <1>5 DEF Filled
  <2>2. Filled(u, used, "key") = Len(u.scratch)
    BY <1>1, <1>2, <1>3, <1>5 DEF Filled, Tiled
  <2>3. Tiled(u, used)
    BY <1>1, <1>3, <1>5 DEF Tiled
  <2> QED BY <2>1, <2>2, <2>3 DEF Exact
<1> QED BY <1>3, <1>4, <1>5
\* A token that is moved completely goes behind what the scratch holds.
LEMMA CopyExact ==
  ASSUME fed \in Seq(Byte), NEW t, NEW used \in SUBSET Fields,
         Sound(t, used, Len(fed)), Exact(t, used),
         NEW f \in Fields, f = "key" \/ t.direct["key"] = Null,
         copy_direct(t, f).direct[f] = Null
  PROVE  Exact(copy_direct(t, f), used)
<1>1. CASE t.direct[f] = Null
  BY <1>1 DEF copy_direct
<1>2. CASE t.direct[f] # Null
  <2> DEFINE w == copy_direct(t, f)
  <2>1. PICK kept \in Nat :
          /\ Len(w.scratch) = Len(t.scratch) + kept
          /\ w.slice[f].begin = Len(t.scratch) + 1 /\ w.slice[f].end = Len(t.scratch) + kept
          /\ \A g \in Fields \ {f} : w.slice[g] = t.slice[g] /\ w.direct[g] = t.direct[g]
    BY <1>2, CopyShape
  <2>2. w.direct[f] = Null
    OBVIOUS
  <2> HIDE DEF w
  <2>3. t \in Tokens /\ Len(t.scratch) \in Nat /\ f \in used
    BY <1>2 DEF Sound, Tokens, Exact, Tiled
  <2>4. Fields = {"key", "value"}
    BY DEF Fields
  <2>5. Filled(w, used, f) = kept /\ Filled(t, used, f) = 0
    BY <1>2, <2>1, <2>2, <2>3 DEF Filled
  <2>6. \A g \in Fields \ {f} : Filled(w, used, g) = Filled(t, used, g)
    BY <2>1 DEF Filled
  <2>7. CASE f = "key"
    <3>1. Filled(t, used, "value") = 0
      BY <1>2, <2>3, <2>4, <2>7 DEF Filled, Sound
    <3>2. Len(t.scratch) = 0
      BY <2>5, <2>7, <3>1 DEF Exact
    <3>3. "value" \in used => w.direct["value"] # Null
      BY <1>2, <2>1, <2>3, <2>4, <2>7 DEF Sound
    <3>4. Tiled(w, used)
      BY <2>1, <2>2, <2>3, <2>4, <2>7, <3>2, <3>3 DEF Tiled, Exact
    <3>5. Filled(w, used, "value") = 0
      BY <2>4, <2>6, <2>7, <3>1
    <3> QED BY <2>1, <2>5, <2>7, <3>2, <3>4, <3>5 DEF Exact, w
  <2>8. CASE f = "value"
    <3>1. Len(t.scratch) = Filled(t, used, "key")
      <4>1. Filled(t, used, "key") \in Int
        BY <2>3, <2>4 DEF Filled, Tokens, Slice
      <4> QED BY <2>5, <2>8, <4>1 DEF Exact
    <3>2. Filled(w, used, "key") = Filled(t, used, "key")
      BY <2>4, <2>6, <2>8
    <3>3. Tiled(w, used)
      <4>1. w.slice["key"] = t.slice["key"] /\ w.direct["key"] = t.direct["key"]
        BY <2>1, <2>4, <2>8
      <4> QED BY <2>1, <2>2, <2>3, <2>4, <2>8, <3>1, <3>2, <4>1 DEF Tiled, Exact
    <3> QED BY <2>1, <2>5, <2>8, <3>1, <3>2, <3>3 DEF Exact, w
  <2> QED BY <2>4, <2>7, <2>8
<1> QED
  BY <1>1, <1>2

\* Once both tokens are moved, they are all that the scratch holds.
LEMMA PreserveExact ==
  ASSUME fed \in Seq(Byte), NEW t, NEW used \in SUBSET Fields,
         Sound(t, used, Len(fed)), Exact(t, used), Preserved(preserve_direct(t))
  PROVE  Exact(preserve_direct(t), used)
<1> DEFINE keyed == copy_direct(t, "key")
<1>1. "key" \in Fields /\ "value" \in Fields
  BY DEF Fields
<1>2. keyed.direct["key"] = Null
  BY <1>1 DEF preserve_direct, Preserved
<1>3. Sound(keyed, used, Len(fed)) /\ Exact(keyed, used)
  BY <1>1, <1>2, CopySound, CopyExact
<1>4. preserve_direct(t) = copy_direct(keyed, "value")
  BY <1>2 DEF preserve_direct
<1> HIDE DEF keyed
<1> QED
  BY <1>1, <1>2, <1>3, <1>4, CopyExact DEF Preserved

-----------------------------------------------------------------------------
(* The nesting of calls. *)

\* Types of the variables of the call and of control.
CallTypes ==
  /\ fed \in Seq(Byte) /\ chunk_begin \in 1..(Len(fed) + 1)
  /\ i \in 1..(Len(fed) + 1) /\ part_start \in 0..Len(fed)
  /\ phase \in {"idle", "feed"} /\ result \in Results
  /\ ended \in BOOLEAN /\ rejected \in BOOLEAN /\ stale_read \in BOOLEAN
  /\ mode \in Modes /\ state \in States
  /\ has_entries \in BOOLEAN /\ callback_break \in BOOLEAN

\* How the call, the container parser and the callback are nested.
CallOrder ==
  /\ phase = "feed" => ~rejected /\ ~callback_break /\ chunk_begin <= i
  /\ phase = "idle" => part_start = 0
  /\ part_start > 0 => /\ state = "STREAM_CONTAINER"
                       /\ chunk_begin <= part_start /\ part_start <= i
  /\ callback_break => state = "COMPLETE"

CallInv == CallTypes /\ CallOrder

ControlTypes ==
  /\ mode \in Modes /\ state \in States
  /\ has_entries \in BOOLEAN /\ callback_break \in BOOLEAN

\* A branch that consumes one byte keeps the order of the call.
LEMMA AdvanceCall ==
  ASSUME CallInv, phase = "feed", i <= Len(fed), Advance, ControlTypes',
         callback_break' = callback_break, part_start = 0 \/ state' = state
  PROVE  CallInv'
BY DEF CallInv, CallTypes, CallOrder, Advance, caller, ControlTypes

\* kason_stream_feed returning r keeps the order of the call.
LEMMA ReturnCall ==
  ASSUME CallInv, NEW r \in Results, Return(r), ControlTypes',
         callback_break' => state' = "COMPLETE"
  PROVE  CallInv'
<1>1. rejected' \in BOOLEAN
  BY DEF CallInv, CallTypes, Return
<1> QED
  BY <1>1 DEF CallInv, CallTypes, CallOrder, Return, ControlTypes

\* kason_stream_process_container returning keeps it.
LEMMA LeaveCall ==
  ASSUME CallInv, phase = "feed", NEW next \in i..(Len(fed) + 1), Leave(next),
         ControlTypes', callback_break' = callback_break
  PROVE  CallInv'
BY DEF CallInv, CallTypes, CallOrder, Leave, caller, ControlTypes

\* So does the return that follows a callback that broke.
LEMMA BrokenCall ==
  ASSUME CallInv, NEW next \in i..(Len(fed) + 1), LeaveBroken(next),
         ControlTypes', state' = "COMPLETE"
  PROVE  CallInv'
BY DEF CallInv, CallTypes, CallOrder, LeaveBroken, ControlTypes, Results

\* kason_stream_finish keeps the order of the call.
LEMMA EndsCall ==
  ASSUME CallInv, NEW r \in Results, EndsWith(r), ControlTypes',
         stale_read' \in BOOLEAN, callback_break' => state' = "COMPLETE"
  PROVE  CallInv'
<1>1. rejected' \in BOOLEAN
  BY DEF CallInv, CallTypes, EndsWith
<1> QED
  BY <1>1 DEF CallInv, CallTypes, CallOrder, EndsWith, ControlTypes, input

\* What kason_stream_commit_primitive does to the fields of control.
LEMMA CommitControl ==
  ASSUME CallInv, NEW type, NEW next \in States, NEW verdict \in Verdicts,
         Commit(type, next, verdict)
  PROVE  /\ ControlTypes'
         /\ verdict = "BREAK" => state' = "COMPLETE" /\ callback_break'
         /\ verdict # "BREAK" => callback_break' = callback_break
BY DEF CallInv, CallTypes, ControlTypes, Commit, Break, InEntries, States, Verdicts,
     Modes

\* Committing a value inside a feed keeps the order of the call.
LEMMA CommitInFeedCall ==
  ASSUME CallInv, phase = "feed", part_start = 0, i <= Len(fed), NEW type,
         NEW next \in States,
         CommitInFeed(type, next)
  PROVE  CallInv'
<1>1. PICK verdict \in Verdicts :
        /\ Commit(type, next, verdict)
        /\ IF verdict = "BREAK" THEN Return("SUCCESS") ELSE Advance
  BY DEF CommitInFeed
<1>2. CASE verdict = "BREAK"
  BY <1>1, <1>2, CommitControl, ReturnCall DEF Results
<1>3. CASE verdict # "BREAK"
  BY <1>1, <1>3, CommitControl, AdvanceCall
<1> QED
  BY <1>2, <1>3

\* Every step of the parser and of its application keeps CallInv.
LEMMA CallNext == CallInv /\ [Next]_vars => CallInv'
<1> SUFFICES ASSUME CallInv, [Next]_vars PROVE CallInv'
  OBVIOUS
<1> USE DEF CallInv, CallTypes, CallOrder, AtByte, InByte, Advance, Return, Reject, Goto, Break,
        caller, input, control, stream, Results, Errors, States, Modes, ConsumeTo
<1>1. CASE SkipWhitespace
  BY <1>1 DEF SkipWhitespace
<1>2. CASE RejectByte
  BY <1>2 DEF RejectByte
<1>3. CASE RootEntries
  BY <1>3 DEF RootEntries
<1>4. CASE RootScalar
  BY <1>4 DEF RootScalar
<1>5. CASE CloseEmpty
  BY <1>5 DEF CloseEmpty
<1>6. CASE OpenKey
  BY <1>6 DEF OpenKey
<1>7. CASE FindValueSep
  BY <1>7 DEF FindValueSep
<1>8. CASE FindParamSep
  BY <1>8 DEF FindParamSep, AfterSeparator
<1>9. CASE OpenString
  BY <1>9 DEF OpenString
<1>10. CASE OpenGeneric
  BY <1>10 DEF OpenGeneric
<1>11. ASSUME NEW f \in Fields, TextBytes(f) PROVE CallInv'
  BY <1>11 DEF TextBytes, TextState
<1>12. ASSUME NEW f \in Fields, TextByteFull(f) PROVE CallInv'
  BY <1>12 DEF TextByteFull
<1>13. ASSUME NEW f \in Fields, TextControlChar(f) PROVE CallInv'
  BY <1>13 DEF TextControlChar
<1>14. ASSUME NEW f \in Fields, BeginEscape(f) PROVE CallInv'
  <2>1. CASE Advance
    BY <1>14, <2>1, AdvanceCall DEF BeginEscape, EscapeState, ControlTypes
  <2>2. CASE Return("BUFFER_FULL")
    BY <1>14, <2>2, ReturnCall DEF BeginEscape, EscapeState, ControlTypes
  <2> QED BY <1>14, <2>1, <2>2 DEF BeginEscape
<1>15. ASSUME NEW f \in Fields, EscapeByte(f) PROVE CallInv'
  BY <1>15 DEF EscapeByte, EscapeState, TextState
<1>16. ASSUME NEW f \in Fields, EscapeRejected(f) PROVE CallInv'
  <2>1. CASE Reject("ERROR")
    BY <1>16, <2>1, ReturnCall DEF ControlTypes
  <2>2. CASE Reject("BUFFER_FULL")
    BY <1>16, <2>2, ReturnCall DEF ControlTypes
  <2> QED BY <1>16, <2>1, <2>2 DEF EscapeRejected
<1>17. CASE CloseKey
  <2>1. CASE Reject("ERROR")
    BY <1>17, <2>1, ReturnCall DEF ControlTypes
  <2>2. CASE Goto("FIND_VALUE_SEP") /\ Advance
    BY <1>17, <2>2, AdvanceCall DEF CloseKey, ControlTypes
  <2> QED BY <1>17, <2>1, <2>2 DEF CloseKey
<1>18. CASE CloseString
  <2>1. CASE Reject("ERROR")
    BY <1>18, <2>1, ReturnCall DEF ControlTypes
  <2>2. CASE CommitInFeed("STRING", IF InEntries THEN "FIND_PARAM_SEP" ELSE "COMPLETE")
    BY <1>18, <2>2, CommitInFeedCall DEF CloseString
  <2> QED BY <1>18, <2>1, <2>2 DEF CloseString
<1>19. CASE GenericBytes
  BY <1>19 DEF GenericBytes
<1>20. CASE GenericByteFull
  BY <1>20 DEF GenericByteFull
<1>21. CASE CommitGeneric
  <2>1. CASE Reject("ERROR")
    BY <1>21, <2>1, ReturnCall DEF ControlTypes
  <2>2. ASSUME NEW type, CommitInFeed(type, AfterGeneric(fed[i])) PROVE CallInv'
    <3>1. AfterGeneric(fed[i]) \in States
      BY DEF AfterGeneric, AfterSeparator
    <3> QED BY <1>21, <2>2, <3>1, CommitInFeedCall DEF CommitGeneric
  <2> QED BY <1>21, <2>1, <2>2 DEF CommitGeneric
<1>22. CASE StartContainer
  <2>1. CASE Break /\ Return("SUCCESS")
    BY <1>22, <2>1, ReturnCall DEF ControlTypes
  <2>2. CASE Goto("STREAM_CONTAINER") /\ Advance
    BY <1>22, <2>2, AdvanceCall DEF StartContainer, ControlTypes
  <2> QED BY <1>22, <2>1, <2>2 DEF StartContainer
<1>23. CASE EnterContainer
  BY <1>23 DEF EnterContainer
<1>24. CASE ContainerStringByte
  <2>1. CASE Reject("ERROR")
    BY <1>24, <2>1, ReturnCall DEF ControlTypes
  <2>2. CASE UNCHANGED control /\ Advance
    BY <1>24, <2>2, AdvanceCall DEF ContainerStringByte, AtContainerByte, ControlTypes
  <2> QED BY <1>24, <2>1, <2>2 DEF ContainerStringByte
<1>25. CASE ContainerByte
  BY <1>25 DEF ContainerByte, AtContainerByte
<1>26. CASE ContainerOpen
  <2>1. CASE Reject("BUFFER_FULL")
    BY <1>26, <2>1, ReturnCall DEF ControlTypes
  <2>2. CASE UNCHANGED control /\ Advance
    BY <1>26, <2>2, AdvanceCall DEF ContainerOpen, AtContainerByte, ControlTypes
  <2> QED BY <1>26, <2>1, <2>2 DEF ContainerOpen
<1>27. CASE ContainerMismatch
  BY <1>27 DEF ContainerMismatch, AtContainerByte
<1>28. CASE ContainerClose
  BY <1>28 DEF ContainerClose, AtContainerByte
<1>29. CASE ContainerEnd
  <2>1. i \in i..(Len(fed) + 1) /\ i + 1 \in i..(Len(fed) + 1) /\ phase = "feed"
    BY <1>29 DEF ContainerEnd, AtContainerByte
  <2>2. CASE Break /\ LeaveBroken(i + 1)
    <3>1. ControlTypes' /\ state' = "COMPLETE"
      BY <2>2 DEF ControlTypes
    <3> QED BY <3>1, <2>1, <2>2, BrokenCall
  <2>3. CASE /\ state' = "FIND_PARAM_SEP" /\ has_entries' = TRUE
             /\ UNCHANGED <<mode, callback_break>> /\ Leave(i + 1)
    BY <2>1, <2>3, LeaveCall DEF ControlTypes
  <2> QED BY <1>29, <2>2, <2>3 DEF ContainerEnd
<1>30. CASE ContainerChunkEnd
  <2>1. i \in i..(Len(fed) + 1) /\ phase = "feed"
    BY <1>30 DEF ContainerChunkEnd
  <2>2. CASE Break /\ LeaveBroken(i)
    <3>1. ControlTypes' /\ state' = "COMPLETE"
      BY <2>2 DEF ControlTypes
    <3> QED BY <3>1, <2>1, <2>2, BrokenCall
  <2>3. CASE UNCHANGED control /\ Leave(i)
    BY <2>1, <2>3, LeaveCall DEF ControlTypes
  <2> QED BY <1>30, <2>2, <2>3 DEF ContainerChunkEnd
<1>31. CASE FeedEnd
  BY <1>31 DEF FeedEnd
<1>32. CASE Feed
  BY <1>32 DEF Feed
<1>33. CASE CallAfterBreak
  BY <1>33 DEF CallAfterBreak
<1>34. CASE FinishComplete
  BY <1>34 DEF FinishComplete, MayFinish, EndsWith
<1>35. CASE FinishScalar
  <2>1. CASE UNCHANGED stream /\ EndsWith("ERROR")
    BY <1>35, <2>1, EndsCall DEF FinishScalar, ControlTypes
  <2>2. ASSUME NEW type, NEW verdict \in Verdicts, EndsWith("SUCCESS"), Commit(type,
      "COMPLETE", verdict)
        PROVE CallInv'
    BY <1>35, <2>2, CommitControl, EndsCall DEF FinishScalar, MayFinish
  <2> QED BY <1>35, <2>1, <2>2 DEF FinishScalar
<1>36. CASE FinishStale
  BY <1>36 DEF FinishStale, EndsWith
<1>37. CASE FinishIncomplete
  BY <1>37 DEF FinishIncomplete, EndsWith
<1>38. CASE Reset
  <2>1. fed' \in Seq(Byte) /\ Len(fed') = 0
    BY <1>38, EmptySeq DEF Reset
  <2>2. /\ chunk_begin' = 1 /\ i' = 1 /\ part_start' = 0
        /\ phase' = "idle" /\ result' = "SUCCESS"
        /\ ended' = FALSE /\ rejected' = FALSE /\ stale_read' = FALSE
        /\ mode' = "M_AUTO" /\ state' = "FIND_ROOT" /\ has_entries' = FALSE
        /\ callback_break' = FALSE
    BY <1>38 DEF Reset
  <2>3. CallTypes'
    <3>1. (chunk_begin \in 1..(Len(fed) + 1))' /\ (i \in 1..(Len(fed) + 1))' /\ (part_start \in 0..Len(fed))'
      BY <2>1, <2>2
    <3>2. (phase \in {"idle", "feed"} /\ result \in Results)'
      BY <2>1, <2>2
    <3>3. (ended \in BOOLEAN /\ rejected \in BOOLEAN /\ stale_read \in BOOLEAN)'
      BY <2>1, <2>2
    <3>4. (mode \in Modes /\ state \in States)'
      BY <2>1, <2>2
    <3>5. (has_entries \in BOOLEAN /\ callback_break \in BOOLEAN)'
      BY <2>1, <2>2
    <3> QED BY <2>1, <3>1, <3>2, <3>3, <3>4, <3>5
  <2>4. CallOrder'
    BY <2>2
  <2> QED BY <2>3, <2>4
<1>39. CASE UNCHANGED vars
  BY <1>39 DEF vars
<1> QED
  BY <1>1, <1>2, <1>3, <1>4, <1>5, <1>6, <1>7, <1>8, <1>9, <1>10, <1>11, <1>12,
       <1>13, <1>14, <1>15, <1>16, <1>17, <1>18, <1>19, <1>20, <1>21, <1>22, <1>23,
       <1>24, <1>25, <1>26, <1>27, <1>28, <1>29, <1>30, <1>31, <1>32, <1>33, <1>34,
       <1>35, <1>36, <1>37, <1>38, <1>39 DEF Next, Step, Call

-----------------------------------------------------------------------------
(* The token memory. *)

\* The tokens in use, as InUse says.
UsedBy(has_key, s) ==
  {f \in Fields : \/ f = "key" /\ (has_key \/ s \in KeyStates)
                  \/ f = "value" /\ s \in ValueStates}
TokenInv == Sound(token, UsedBy(token.has_key, state), Len(fed))

\* The bottom of the scratch is the bracket the container began with.
HeldInv == state = "STREAM_CONTAINER" =>
  /\ token.has_key = FALSE /\ \A f \in Fields : token.direct[f] = Null
  /\ token.scratch # << >> /\ container.type \in Events!ContainerTypes
  /\ token.scratch[1] = Events!Opening(container.type)

\* Popping a bracket keeps the memory sound.
LEMMA PoppedSound ==
  ASSUME CallInv, TokenInv, HeldInv, state = "STREAM_CONTAINER"
  PROVE  /\ Sound(Popped, {}, Len(fed)) /\ Popped.has_key = FALSE
         /\ \A f \in Fields : Popped.direct[f] = Null
<1> DEFINE rest == SubSeq(token.scratch, 1, Len(token.scratch) - 1)
<1>1. /\ token \in Tokens /\ token.scratch \in Seq(Byte) /\ token.scratch # << >>
      /\ Len(token.scratch) < ScratchSize
  BY DEF TokenInv, Sound, HeldInv, Tokens
<1>2. Len(token.scratch) \in Nat \ {0}
  BY <1>1, EmptySeq
<1>3. \A k \in 1..(Len(token.scratch) - 1) : token.scratch[k] \in Byte
  BY <1>1, <1>2
<1>4. rest \in Seq(Byte) /\ Len(rest) = Len(token.scratch) - 1
  BY <1>2, <1>3, SubSeqProperties
<1>5. Popped = [token EXCEPT !.scratch = rest]
  BY DEF Popped
<1> HIDE DEF rest
<1>6. /\ Popped \in Tokens /\ Popped.scratch = rest /\ Popped.slice = token.slice
      /\ Popped.direct = token.direct /\ Popped.has_key = token.has_key
  BY <1>1, <1>4, <1>5 DEF Tokens
<1>7. Len(rest) < ScratchSize
  BY <1>1, <1>2, <1>4, ScratchSizeAssumption
<1>8. {} # Fields
  BY DEF Fields
<1> QED
  BY <1>6, <1>7, <1>8 DEF HeldInv, Sound

\* A sound memory with no new token in use satisfies TokenInv.
LEMMA TokenStep ==
  ASSUME CallInv, NEW used \in SUBSET Fields, Sound(token', used, Len(fed)),
         fed' = fed, UsedBy(token'.has_key, state') \in SUBSET used
  PROVE  TokenInv'
<1>1. Len(fed) \in Nat
  BY DEF CallInv, CallTypes
<1>2. Sound(token', UsedBy(token'.has_key, state'), Len(fed))
  BY <1>1, FewerSound
<1> QED
  BY <1>2 DEF TokenInv

\* A step that leaves the token alone keeps TokenInv.
LEMMA TokenKept ==
  ASSUME CallInv, TokenInv, token' = token, fed' = fed,
         state' = state \/ state' \notin KeyStates \cup ValueStates
  PROVE  TokenInv'
<1>1. UsedBy(token'.has_key, state') \in SUBSET UsedBy(token.has_key, state)
  BY DEF UsedBy
<1>2. UsedBy(token.has_key, state) \in SUBSET Fields
  BY DEF UsedBy
<1>3. Sound(token', UsedBy(token.has_key, state), Len(fed))
  BY DEF TokenInv
<1> QED
  BY <1>1, <1>2, <1>3, TokenStep

\* A step that clears the token establishes TokenInv.
LEMMA TokenCleared ==
  ASSUME CallInv, token' = Cleared, fed' = fed, state' \notin KeyStates \cup ValueStates
  PROVE  TokenInv'
<1>1. Sound(Cleared, {}, Len(fed))
  BY ClearedSound DEF CallInv, CallTypes
<1>2. UsedBy(Cleared.has_key, state') = {}
  BY DEF UsedBy, Cleared
<1> QED
  BY <1>1, <1>2, TokenStep

\* Committing a value keeps TokenInv.
LEMMA TokenCommit ==
  ASSUME CallInv, TokenInv, fed' = fed, NEW type, NEW next,
         next \notin KeyStates \cup ValueStates,
         NEW verdict \in Verdicts, Commit(type, next, verdict)
  PROVE  TokenInv'
<1>1. CASE verdict = "BREAK"
  <2>1. token' = token /\ state' = "COMPLETE"
    BY <1>1 DEF Commit, Break
  <2> QED BY <2>1, TokenKept DEF KeyStates, ValueStates
<1>2. CASE verdict # "BREAK"
  <2>1. token' = Cleared /\ state' = next
    BY <1>2 DEF Commit
  <2> QED BY <2>1, TokenCleared
<1> QED
  BY <1>1, <1>2

\* A run of bytes consumed in the chunk keeps the memory sound.
LEMMA RunSound ==
  ASSUME CallInv, PointersLive, phase = "feed", NEW used \in SUBSET Fields,
         Sound(token, used, Len(fed)), NEW f \in used, f = "value" \/ "value" \notin used,
         token.direct[f] # Null, NEW last \in i..Len(fed)
  PROVE  /\ Sound([token EXCEPT !.direct[f].end = last], used, Len(fed))
         /\ [token EXCEPT !.direct[f].end = last].has_key = token.has_key
<1>1. /\ fed \in Seq(Byte) /\ i \in Nat /\ Len(fed) \in Nat /\ token \in Tokens /\ f \in Fields
      /\ token.direct[f] \in Slice
  BY DEF CallInv, CallTypes, Sound, Tokens
<1>2. token.direct[f].begin \in Nat /\ token.direct[f].end \in Int
  BY <1>1 DEF Slice
<1>3. /\ token.direct[f].begin <= token.direct[f].end + 1 /\ token.direct[f].end < i
      /\ 1 <= token.direct[f].begin
  BY <1>1 DEF PointersLive, Active, CallInv, CallOrder, Sound
<1>4. [token.direct[f] EXCEPT !.end = last] = [begin |-> token.direct[f].begin, end |-> last]
  BY <1>1 DEF Slice
<1>5. [token EXCEPT !.direct[f].end = last]
        = [token EXCEPT !.direct[f] = [token.direct[f] EXCEPT !.end = last]]
  OBVIOUS
<1>6. [token EXCEPT !.direct[f].end = last] = PointAt(token, f, token.direct[f].begin, last)
  BY <1>4, <1>5 DEF PointAt
<1>7. token.direct[f].begin <= last + 1
  BY <1>1, <1>2, <1>3
<1>8. Sound(PointAt(token, f, token.direct[f].begin, last), used \cup {f}, Len(fed))
  BY <1>1, <1>2, <1>3, <1>7, PointSound
<1>9. used \cup {f} = used
  OBVIOUS
<1>10. [token EXCEPT !.direct[f].end = last].has_key = token.has_key
  BY <1>1 DEF Tokens
<1> QED
  BY <1>6, <1>8, <1>9, <1>10

Grown(t, c, f) == [append_scratch(t, c) EXCEPT !.slice[f].end = Len(t.scratch) + 1]

\* So does a byte appended to the token in the scratch.
LEMMA GrowSound ==
  ASSUME NEW n \in Nat, NEW t, NEW used \in SUBSET Fields, Sound(t, used, n),
         NEW c \in Byte, Room(t) > 0, NEW f \in Fields, f = "value" \/ "value" \notin used
  PROVE  /\ Sound(Grown(t, c, f), used, n)
         /\ Grown(t, c, f).has_key = t.has_key /\ Grown(t, c, f).direct = t.direct
<1>1. /\ Sound(append_scratch(t, c), used, n)
      /\ append_scratch(t, c).scratch = Append(t.scratch, c)
      /\ append_scratch(t, c).has_key = t.has_key
      /\ append_scratch(t, c).direct = t.direct
  BY AppendSound
<1>2. Len(Append(t.scratch, c)) = Len(t.scratch) + 1
  BY AppendProperties DEF Sound, Tokens
<1>3. Grown(t, c, f) = EndSlice(append_scratch(t, c), f)
  BY <1>1, <1>2 DEF EndSlice, Grown
<1> QED
  BY <1>1, <1>3, EndSliceSound

\* Every step keeps the token memory sound.
LEMMA TokenNext == CallInv /\ TokenInv /\ HeldInv /\ PointersLive /\ [Next]_vars => TokenInv'
<1> SUFFICES ASSUME CallInv, TokenInv, HeldInv, PointersLive,
    [Next]_vars PROVE TokenInv'
  OBVIOUS
<1> DEFINE used == UsedBy(token.has_key, state)
<1>a. /\ fed \in Seq(Byte) /\ Len(fed) \in Nat /\ i \in 1..(Len(fed) + 1)
      /\ used \in SUBSET Fields /\ Sound(token, used, Len(fed))
      /\ token \in Tokens
      /\ \A k \in 1..Len(fed) : fed[k] \in Byte
  BY DEF CallInv, CallTypes, UsedBy, TokenInv, Sound
<1>b. "key" \in Fields /\ "value" \in Fields
  BY DEF Fields
<1> HIDE DEF used
<1>c. /\ state \in KeyStates => "value" \notin used
      /\ \A f \in Fields : AtByte(TextState(f)) \/ AtByte(EscapeState(f)) =>
           /\ f \in used
           /\ f = "value" \/ "value" \notin used
           /\ \A h \in BOOLEAN : UsedBy(token.has_key, TextState(f)) \in SUBSET used
           /\ \A h \in BOOLEAN : UsedBy(token.has_key, EscapeState(f)) \in SUBSET used
  BY DEF UsedBy, KeyStates, ValueStates, AtByte, TextState, EscapeState, used, Fields
<1>1. CASE /\ token' = token /\ fed' = fed
           /\ state' = state \/ state' \notin KeyStates \cup ValueStates
  BY <1>1, TokenKept
<1>2. CASE RootScalar
  <2> DEFINE p == IF fed[i] = QUOTE THEN i + 1 ELSE i
  <2>1. token' = PointAt(token, "value", p, i) /\ state' \in ValueStates /\ fed' = fed
    BY <1>2 DEF RootScalar, Advance, caller, ValueStates
  <2>2. Sound(token', used \cup {"value"}, Len(fed))
    <3>1. i <= Len(fed) /\ p \in Nat /\ i \in Int /\ 1 <= p /\ p <= i + 1
      BY <1>2, <1>a DEF RootScalar, AtByte
    <3> QED BY <2>1, <3>1, <1>a, <1>b, PointSound
  <2>3. token'.has_key = token.has_key
    BY <2>1, <1>a DEF PointAt, Tokens
  <2>4. UsedBy(token'.has_key, state') \in SUBSET (used \cup {"value"})
    BY <2>1, <2>3 DEF UsedBy, ValueStates, KeyStates, used
  <2> QED BY <2>1, <2>2, <2>4, <1>a, <1>b, TokenStep
<1>3. CASE OpenKey
  <2>1. /\ token' = PointAt(Cleared, "key", i + 1, i) /\ state' = "FIND_KEY_END" /\ fed' = fed
        /\ i <= Len(fed)
    BY <1>3 DEF OpenKey, Advance, caller, Goto, InByte, AtByte
  <2>2. Sound(token', {} \cup {"key"}, Len(fed))
    BY <2>1, <1>a, <1>b, ClearedSound, PointSound
  <2>3. token'.has_key = FALSE
    BY <2>1 DEF PointAt, Cleared
  <2>4. UsedBy(token'.has_key, state') \in SUBSET ({} \cup {"key"})
    BY <2>1, <2>3 DEF UsedBy, ValueStates
  <2> QED BY <2>1, <2>2, <2>4, <1>b, TokenStep
<1>4. CASE OpenString
  <2>1. /\ token' = PointAt(token, "value", i + 1, i) /\ state' \in ValueStates /\ fed' = fed
        /\ i <= Len(fed)
    BY <1>4 DEF OpenString, Advance, caller, Goto, InByte, AtByte, ValueStates
  <2>2. Sound(token', used \cup {"value"}, Len(fed))
    BY <2>1, <1>a, <1>b, PointSound
  <2>3. token'.has_key = token.has_key
    BY <2>1, <1>a DEF PointAt, Tokens
  <2>4. UsedBy(token'.has_key, state') \in SUBSET (used \cup {"value"})
    BY <2>1, <2>3 DEF UsedBy, ValueStates, KeyStates, used
  <2> QED BY <2>1, <2>2, <2>4, <1>a, <1>b, TokenStep
<1>5. CASE OpenGeneric
  <2>1. /\ token' = PointAt(token, "value", i, i) /\ state' \in ValueStates /\ fed' = fed
        /\ i <= Len(fed)
    BY <1>5 DEF OpenGeneric, Advance, caller, Goto, InByte, AtByte, ValueStates
  <2>2. Sound(token', used \cup {"value"}, Len(fed))
    BY <2>1, <1>a, <1>b, PointSound
  <2>3. token'.has_key = token.has_key
    BY <2>1, <1>a DEF PointAt, Tokens
  <2>4. UsedBy(token'.has_key, state') \in SUBSET (used \cup {"value"})
    BY <2>1, <2>3 DEF UsedBy, ValueStates, KeyStates, used
  <2> QED BY <2>1, <2>2, <2>4, <1>a, <1>b, TokenStep
<1>6. ASSUME NEW f \in Fields, TextBytes(f) PROVE TokenInv'
  <2>1. AtByte(TextState(f)) /\ state' = state /\ i <= Len(fed)
    BY <1>6 DEF TextBytes, control, AtByte
  <2>2. f \in used /\ (f = "value" \/ "value" \notin used) /\ used \cup {f} = used
    BY <2>1, <1>c
  <2>3. ASSUME NEW last \in i..Len(fed), token' = [token EXCEPT !.direct[f].end = last],
               fed' = fed, token.direct[f] # Null
        PROVE  TokenInv'
    <3>1. Sound(token', used, Len(fed)) /\ token'.has_key = token.has_key
      BY <1>a, <2>1, <2>2, <2>3, RunSound DEF AtByte
    <3> QED BY <1>a, <2>1, <2>3, <3>1, TokenStep DEF used
  <2>4. CASE /\ Room(token) > 0 /\ fed' = fed
             /\ token' = Grown(token, fed[i], f)
    <3>1. Sound(token', used, Len(fed)) /\ token'.has_key = token.has_key
      BY <1>a, <2>1, <2>2, <2>4, GrowSound
    <3> QED BY <1>a, <2>1, <2>4, <3>1, TokenStep DEF used
  <2> QED BY <1>6, <2>3, <2>4 DEF TextBytes, ConsumeTo, Advance, caller, Grown
<1>7. ASSUME NEW f \in Fields, TextByteFull(f) PROVE TokenInv'
  <2>1. /\ AtByte(TextState(f)) /\ state' = state /\ fed' = fed
        /\ token' = EndSlice(token, f)
    BY <1>7 DEF TextByteFull, control, Return, EndSlice
  <2>2. Sound(token', used, Len(fed)) /\ token'.has_key = token.has_key
    BY <1>a, <1>c, <2>1, EndSliceSound
  <2> QED BY <1>a, <2>1, <2>2, TokenStep DEF used
<1>8. ASSUME NEW f \in Fields, BeginEscape(f) PROVE TokenInv'
  <2> DEFINE kept == preserve_direct(token)
  <2>1. /\ AtByte(TextState(f)) /\ state' = EscapeState(f) /\ fed' = fed /\ i <= Len(fed)
    BY <1>8 DEF BeginEscape, InByte, AtByte, Goto, Advance, Return, caller
  <2>2. PICK t : /\ token' = WithHexLeft(t, 0)
                 /\ t = kept \/ (Room(kept) > 0 /\ t = append_scratch(kept, BACKSLASH))
    BY <1>8 DEF BeginEscape, WithHexLeft
  <2>3. Sound(kept, used, Len(fed)) /\ kept.has_key = token.has_key
    BY <1>a, PreserveSound
  <2> HIDE DEF kept
  <2>4. Sound(t, used, Len(fed)) /\ t.has_key = token.has_key
    <3>1. BACKSLASH \in Byte
      BY DEF Byte, BACKSLASH
    <3> QED BY <1>a, <2>2, <2>3, <3>1, AppendSound
  <2>5. Sound(token', used, Len(fed)) /\ token'.has_key = token.has_key
    BY <1>a, <2>2, <2>4, FlagSound
  <2> QED BY <1>a, <1>c, <2>1, <2>5, TokenStep
<1>9. ASSUME NEW f \in Fields, EscapeByte(f) PROVE TokenInv'
  <2> DEFINE t == Grown(token, fed[i], f)
             left == HexLeftAfter(token, fed[i])
  <2>1. /\ AtByte(EscapeState(f)) /\ fed' = fed /\ i <= Len(fed) /\ Room(token) > 0
        /\ state' \in {TextState(f), state} /\ state = EscapeState(f)
        /\ token' = WithHexLeft(t, left)
    BY <1>9 DEF EscapeByte, AtByte, Goto, Advance, caller, Grown, WithHexLeft
  <2>2. Sound(t, used, Len(fed)) /\ t.has_key = token.has_key
    BY <1>a, <1>c, <2>1, GrowSound
  <2>3. left \in 0..4
    BY <1>a DEF HexLeftAfter, Tokens
  <2> HIDE DEF t, left
  <2>4. Sound(token', used, Len(fed)) /\ token'.has_key = token.has_key
    BY <1>a, <2>1, <2>2, <2>3, FlagSound
  <2> QED BY <1>a, <1>c, <2>1, <2>4, TokenStep
<1>10. CASE CloseKey
  <2>1. CASE Reject("ERROR")
    BY <2>1, <1>1 DEF Reject, Return, stream, control
  <2>2. CASE token' = WithKey(token) /\ Goto("FIND_VALUE_SEP") /\ Advance
    <3>1. state = "FIND_KEY_END" /\ state' = "FIND_VALUE_SEP" /\ fed' = fed
      BY <1>10, <2>2 DEF CloseKey, InByte, AtByte, Goto, Advance, caller
    <3>2. Sound(token', used, Len(fed)) /\ token'.has_key = TRUE
      BY <1>a, <2>2, FlagSound
    <3>3. UsedBy(token'.has_key, state') \in SUBSET used
      BY <3>1, <3>2 DEF used, UsedBy, KeyStates, ValueStates
    <3> QED BY <1>a, <3>1, <3>2, <3>3, TokenStep
  <2> QED BY <1>10, <2>1, <2>2 DEF CloseKey, WithKey
<1>11. ASSUME NEW type, NEW next, next \notin KeyStates \cup ValueStates,
    CommitInFeed(type, next)
       PROVE  TokenInv'
  <2>1. fed' = fed
    BY <1>11 DEF CommitInFeed, Return, Advance, caller
  <2> QED BY <1>11, <2>1, TokenCommit DEF CommitInFeed
<1>12. CASE CloseString
  <2>1. CASE Reject("ERROR")
    BY <2>1, <1>1 DEF Reject, Return, stream, control
  <2>2. CASE CommitInFeed("STRING", IF InEntries THEN "FIND_PARAM_SEP" ELSE "COMPLETE")
    BY <2>2, <1>11 DEF KeyStates, ValueStates
  <2> QED BY <1>12, <2>1, <2>2 DEF CloseString
<1>13. CASE GenericBytes
  <2>1. AtByte(TextState("value")) \/ state = "FIND_GENERIC_END"
    BY <1>13 DEF GenericBytes, AtByte
  <2>2. "value" \in used /\ state' = state /\ phase = "feed"
    BY <1>13 DEF GenericBytes, AtByte, control, used, UsedBy, Fields, ValueStates
  <2>3. ASSUME NEW last \in i..Len(fed),
      token' = [token EXCEPT !.direct["value"].end = last],
               fed' = fed, token.direct["value"] # Null
        PROVE  TokenInv'
    <3>1. Sound(token', used, Len(fed)) /\ token'.has_key = token.has_key
      BY <1>a, <2>2, <2>3, RunSound
    <3> QED BY <1>a, <2>2, <2>3, <3>1, TokenStep DEF used
  <2>4. CASE /\ Room(token) > 0 /\ fed' = fed /\ i <= Len(fed)
             /\ token' = Grown(token, fed[i], "value")
    <3>1. Sound(token', used, Len(fed)) /\ token'.has_key = token.has_key
      BY <1>a, <1>b, <2>4, GrowSound
    <3> QED BY <1>a, <2>2, <2>4, <3>1, TokenStep DEF used
  <2> QED BY <1>13, <2>3, <2>4 DEF GenericBytes, ConsumeTo, Advance, caller, AtByte,
      Grown
<1>14. CASE GenericByteFull
  <2>1. /\ state' = state /\ fed' = fed /\ token' = EndSlice(token, "value")
    BY <1>14 DEF GenericByteFull, control, Return, EndSlice
  <2>2. Sound(token', used, Len(fed)) /\ token'.has_key = token.has_key
    BY <1>a, <1>b, <2>1, EndSliceSound
  <2> QED BY <1>a, <2>1, <2>2, TokenStep DEF used
<1>15. CASE CommitGeneric
  <2>1. CASE Reject("ERROR")
    BY <2>1, <1>1 DEF Reject, Return, stream, control
  <2>2. AfterGeneric(fed[i]) \notin KeyStates \cup ValueStates
    BY DEF AfterGeneric, AfterSeparator, KeyStates, ValueStates
  <2> QED BY <1>15, <2>1, <2>2, <1>11 DEF CommitGeneric
<1>16. CASE StartContainer
  <2>1. CASE token' = token /\ Break /\ Return("SUCCESS")
    BY <2>1, <1>1 DEF Break, Return, KeyStates, ValueStates
  <2>2. CASE token' = append_scratch(Cleared, fed[i]) /\ Goto("STREAM_CONTAINER") /\ Advance
    <3>1. state' = "STREAM_CONTAINER" /\ fed' = fed /\ i <= Len(fed)
      BY <1>16, <2>2 DEF StartContainer, AtByte, Goto, Advance, caller
    <3>2. Room(Cleared) > 0
      BY ScratchSizeAssumption DEF Room, Cleared
    <3>3. Sound(token', {}, Len(fed)) /\ token'.has_key = Cleared.has_key
      BY <1>a, <2>2, <3>1, <3>2, ClearedSound, AppendSound
    <3>4. UsedBy(token'.has_key, state') = {}
      BY <3>1, <3>3 DEF UsedBy, Cleared, KeyStates, ValueStates
    <3> QED BY <3>1, <3>3, <3>4, TokenStep
  <2> QED BY <1>16, <2>1, <2>2 DEF StartContainer
<1>17. CASE ContainerOpen
  <2>1. CASE Reject("BUFFER_FULL")
    BY <2>1, <1>1 DEF Reject, Return, stream, control
  <2>2. CASE /\ Room(token) > 0 /\ token' = append_scratch(token, fed[i]) /\ Advance
             /\ UNCHANGED control
    <3>1. state' = state /\ fed' = fed /\ i <= Len(fed)
      BY <1>17, <2>2 DEF ContainerOpen, AtContainerByte, control, Advance, caller
    <3>2. Sound(token', used, Len(fed)) /\ token'.has_key = token.has_key
      BY <1>a, <2>2, <3>1, AppendSound
    <3> QED BY <1>a, <3>1, <3>2, TokenStep DEF used
  <2> QED BY <1>17, <2>1, <2>2 DEF ContainerOpen
<1>18. CASE token' = Popped /\ fed' = fed /\ part_start > 0
            /\ state' \notin KeyStates \cup ValueStates
  <2>1. Sound(token', {}, Len(fed)) /\ token'.has_key = FALSE
    BY <1>18, PoppedSound DEF CallInv, CallOrder
  <2>2. UsedBy(token'.has_key, state') = {}
    BY <1>18, <2>1 DEF UsedBy
  <2> QED BY <1>18, <2>1, <2>2, TokenStep
<1>19. CASE ContainerClose
  <2>1. state = "STREAM_CONTAINER"
    BY <1>19 DEF ContainerClose, AtContainerByte, CallInv, CallOrder
  <2> QED BY <1>18, <1>19, <2>1 DEF ContainerClose, AtContainerByte, Advance, caller,
      control, KeyStates, ValueStates
<1>20. CASE ContainerEnd
  <2>1. CASE token' = Popped /\ Break /\ LeaveBroken(i + 1)
    BY <1>18, <1>20, <2>1 DEF ContainerEnd, AtContainerByte, Break, LeaveBroken,
         KeyStates, ValueStates
  <2>2. CASE token' = Cleared /\ state' = "FIND_PARAM_SEP" /\ Leave(i + 1)
    BY <2>2, TokenCleared DEF Leave, caller, KeyStates, ValueStates
  <2> QED BY <1>20, <2>1, <2>2 DEF ContainerEnd
<1>21. CASE ContainerChunkEnd
  BY <1>1, <1>21 DEF ContainerChunkEnd, Break, LeaveBroken, Leave, control, caller,
       KeyStates, ValueStates
<1>22. CASE FeedEnd
  <2>1. token' = preserve_direct(token) /\ state' = state /\ fed' = fed
    BY <1>22 DEF FeedEnd, control, Return
  <2>2. Sound(token', used, Len(fed)) /\ token'.has_key = token.has_key
    BY <1>a, <2>1, PreserveSound
  <2> QED BY <1>a, <2>1, <2>2, TokenStep DEF used
<1>23. CASE Feed
  <2>1. /\ token' = token /\ state' = state
        /\ \E chunk \in Seq(Byte) : fed' = fed \o chunk
    BY <1>23 DEF Feed, stream, control
  <2>2. Len(fed') \in Nat /\ Len(fed) <= Len(fed')
    BY <1>a, <2>1, ConcatProperties
  <2>3. \A f \in Fields : token.direct[f].end \in Int
    BY <1>a DEF Tokens, Slice
  <2>4. Sound(token, used, Len(fed'))
    BY <1>a, <2>2, <2>3 DEF Sound
  <2> QED BY <2>1, <2>4 DEF TokenInv, used
<1>24. CASE FinishScalar
  <2>1. fed' = fed
    BY <1>24 DEF FinishScalar, EndsWith, input
  <2>2. CASE UNCHANGED stream
    BY <1>1, <2>1, <2>2 DEF stream, control
  <2>3. ASSUME NEW type, NEW verdict \in Verdicts, Commit(type, "COMPLETE", verdict)
        PROVE  TokenInv'
    BY <2>1, <2>3, TokenCommit DEF KeyStates, ValueStates
  <2> QED BY <1>24, <2>2, <2>3 DEF FinishScalar
<1>25. CASE Reset
  <2>1. fed' = << >> /\ fed' \in Seq(Byte) /\ token' = Cleared /\ state' = "FIND_ROOT"
    BY <1>25, EmptySeq DEF Reset
  <2>2. Sound(Cleared, {}, Len(fed'))
    <3>1. Sound(Cleared, {}, Len(fed))
      BY <1>a, ClearedSound
    <3>2. \A f \in Fields : Cleared.direct[f] = Null
      BY DEF Cleared
    <3> QED BY <3>1, <3>2 DEF Sound
  <2>3. UsedBy(Cleared.has_key, state') = {}
    BY <2>1 DEF UsedBy, KeyStates, ValueStates, Cleared
  <2> QED BY <2>1, <2>2, <2>3 DEF TokenInv
<1>26. CASE UNCHANGED <<token, fed, state>>
  BY <1>26, <1>1
<1>27. SkipWhitespace \/ RejectByte => UNCHANGED <<token, fed, state>>
  BY DEF SkipWhitespace, RejectByte, Advance, Reject, Return, caller, stream, control
<1>28. RootEntries \/ CloseEmpty \/ FindValueSep \/ FindParamSep => TokenInv'
  BY <1>1 DEF RootEntries, CloseEmpty, FindValueSep, FindParamSep, AfterSeparator,
       Advance, Goto, caller,
       KeyStates, ValueStates
<1>29. ASSUME NEW f \in Fields, TextControlChar(f) \/ EscapeRejected(f) PROVE TokenInv'
  BY <1>26, <1>29 DEF TextControlChar, EscapeRejected, Reject, Return, stream, control
<1>30. EnterContainer \/ ContainerMismatch => UNCHANGED <<token, fed, state>>
  BY DEF EnterContainer, ContainerMismatch, Reject, Return, caller, stream, control
<1>31. ContainerStringByte \/ ContainerByte => UNCHANGED <<token, fed, state>>
  BY DEF ContainerStringByte, ContainerByte, Advance, Reject, Return, caller, stream,
       control
<1>32. CallAfterBreak \/ FinishComplete \/ FinishStale \/ FinishIncomplete => UNCHANGED <<token, fed, state>>
  BY DEF CallAfterBreak, FinishComplete, FinishStale, FinishIncomplete, EndsWith,
       input, stream, control
<1>33. UNCHANGED vars => UNCHANGED <<token, fed, state>>
  BY DEF vars, caller, stream, control
<1> QED
  BY <1>2, <1>3, <1>4, <1>5, <1>6, <1>7, <1>8, <1>9, <1>10, <1>12, <1>13, <1>14,
       <1>15, <1>16, <1>17, <1>19,
     <1>20, <1>21, <1>22, <1>23, <1>24, <1>25, <1>26, <1>27, <1>28, <1>29, <1>30,
     <1>31, <1>32, <1>33
     DEF Next, Step, Call

-----------------------------------------------------------------------------
(* Pointers into the chunk. *)

\* Pointers that stay, or are dropped, stay live while the call goes on.
LEMMA LiveKept ==
  ASSUME CallInv, TokenInv, PointersLive, phase = "feed", phase' = "feed",
         chunk_begin' = chunk_begin, i <= i', i' \in Int,
         \A f \in Fields : token'.direct[f] \in {Null, token.direct[f]}
  PROVE  PointersLive'
<1>1. \A f \in Fields : token.direct[f].end \in Int
  BY DEF TokenInv, Sound, Tokens, Slice
<1>2. i \in Int
  BY DEF CallInv, CallTypes
<1> QED
  BY <1>1, <1>2 DEF CallInv, CallOrder, PointersLive, Active

\* No pointer at all is live.
LEMMA LiveNone ==
  ASSUME \A f \in Fields : token'.direct[f] = Null
  PROVE  PointersLive'
BY DEF PointersLive

\* After an error or a BREAK nothing is claimed.
LEMMA LiveInactive ==
  ASSUME rejected' \/ callback_break' PROVE PointersLive'
BY DEF PointersLive, Active

\* A call that ends in an error leaves nothing to claim.
LEMMA LiveReject == ASSUME NEW r \in Errors, Return(r) PROVE PointersLive'
BY LiveInactive DEF Return

\* A token that starts at the byte being looked at, or after it.
LEMMA LiveOpened ==
  ASSUME CallInv, TokenInv, PointersLive, phase = "feed", NEW t, NEW f \in Fields,
         t = token \/ t = Cleared,
         NEW begin \in {i, i + 1}, token' = PointAt(t, f, begin, i), Advance
  PROVE  PointersLive'
<1>1. /\ i \in Nat /\ chunk_begin \in Nat /\ chunk_begin <= i /\ Active
  BY DEF CallInv, CallTypes, CallOrder, Active
<1>2. i' = i + 1 /\ phase' = "feed" /\ chunk_begin' = chunk_begin
  BY DEF Advance, caller
<1>3. token'.direct[f] = [begin |-> begin, end |-> i]
  BY DEF PointAt, TokenInv, Sound, Tokens, Cleared
<1>4. \A g \in Fields \ {f} : token'.direct[g] \in {Null, token.direct[g]}
  BY DEF PointAt, TokenInv, Sound, Tokens, Cleared
<1>5. \A g \in Fields : token.direct[g].end \in Int
  BY DEF TokenInv, Sound, Tokens, Slice
<1> SUFFICES ASSUME NEW g \in Fields, token'.direct[g] # Null
             PROVE  /\ phase' = "feed" /\ chunk_begin' <= token'.direct[g].begin
                    /\ token'.direct[g].begin <= token'.direct[g].end + 1
                    /\ token'.direct[g].end < i'
  BY DEF PointersLive
<1>6. CASE g = f
  BY <1>1, <1>2, <1>3, <1>6
<1>7. CASE g # f
  BY <1>1, <1>2, <1>4, <1>5, <1>7 DEF PointersLive
<1> QED
  BY <1>6, <1>7

\* A token whose end moves over the run just consumed.
LEMMA LiveRun ==
  ASSUME CallInv, TokenInv, PointersLive, phase = "feed", NEW f \in Fields,
         token.direct[f] # Null, NEW last \in i..Len(fed),
         token' = [token EXCEPT !.direct[f].end = last], ConsumeTo(last)
  PROVE  PointersLive'
<1>1. /\ i \in Nat /\ Len(fed) \in Nat /\ Active /\ token \in Tokens
  BY DEF CallInv, CallTypes, CallOrder, Active, TokenInv, Sound
<1>2. i' = last + 1 /\ phase' = "feed" /\ chunk_begin' = chunk_begin
  BY DEF ConsumeTo, caller
<1>3. \A g \in Fields : token.direct[g] \in Slice
  BY <1>1 DEF Tokens
<1>4. /\ token'.direct[f].begin = token.direct[f].begin /\ token'.direct[f].end = last
      /\ \A g \in Fields \ {f} : token'.direct[g] = token.direct[g]
  BY <1>1, <1>3 DEF Tokens, Slice
<1>5. \A g \in Fields : token.direct[g].end \in Int /\ token.direct[g].begin \in Int
  BY <1>3 DEF Slice
<1> SUFFICES ASSUME NEW g \in Fields, token'.direct[g] # Null
             PROVE  /\ phase' = "feed" /\ chunk_begin' <= token'.direct[g].begin
                    /\ token'.direct[g].begin <= token'.direct[g].end + 1
                    /\ token'.direct[g].end < i'
  BY DEF PointersLive
<1>6. CASE g = f
  BY <1>1, <1>2, <1>4, <1>5, <1>6 DEF PointersLive
<1>7. CASE g # f
  BY <1>1, <1>2, <1>4, <1>5, <1>7 DEF PointersLive
<1> QED
  BY <1>6, <1>7

\* A committed value leaves no pointer, or a callback that broke.
LEMMA LiveCommit ==
  ASSUME NEW type, NEW next, NEW verdict, Commit(type, next, verdict)
  PROVE  PointersLive'
<1>1. CASE verdict = "BREAK"
  BY <1>1, LiveInactive DEF Commit, Break
<1>2. CASE verdict # "BREAK"
  <2>1. token' = Cleared
    BY <1>2 DEF Commit
  <2> QED BY <2>1, LiveNone DEF Cleared
<1> QED
  BY <1>1, <1>2

\* Every step keeps the pointers into the chunk live.
LEMMA LiveNext == CallInv /\ TokenInv /\ HeldInv /\ PointersLive /\ [Next]_vars => PointersLive'
<1> SUFFICES ASSUME CallInv, TokenInv, HeldInv, PointersLive,
    [Next]_vars PROVE PointersLive'
  OBVIOUS
<1>a. i \in Nat /\ i + 1 \in Nat /\ fed \in Seq(Byte) /\ token \in Tokens
      /\ \A k \in 1..Len(fed) : fed[k] \in Byte
      /\ UsedBy(token.has_key, state) \in SUBSET Fields
  BY DEF CallInv, CallTypes, TokenInv, Sound, UsedBy
<1>b. Len(fed) \in Nat
  BY <1>a
<1>1. CASE phase = "feed" /\ Advance /\ token'.direct = token.direct
  BY <1>1, <1>a, LiveKept DEF Advance, caller
<1>2. CASE \E r \in Errors : Reject(r)
  BY <1>2, LiveReject DEF Reject
<1>3. CASE phase = "feed" /\ token'.direct = token.direct
           /\ UNCHANGED <<phase, chunk_begin, i>>
  BY <1>3, <1>a, LiveKept
<1>4. CASE RootScalar
  <2>1. phase = "feed" /\ Advance
    BY <1>4 DEF RootScalar, AtByte
  <2>2. \E p \in {i, i + 1} : token' = PointAt(token, "value", p, i)
    BY <1>4 DEF RootScalar
  <2> QED BY <2>1, <2>2, LiveOpened DEF Fields
<1>5. CASE OpenKey
  BY <1>5, LiveOpened DEF OpenKey, InByte, AtByte, Fields
<1>6. CASE OpenString
  BY <1>6, LiveOpened DEF OpenString, InByte, AtByte, Fields
<1>7. CASE OpenGeneric
  BY <1>7, LiveOpened DEF OpenGeneric, AtByte, Fields
<1>8. ASSUME Room(token) > 0, NEW f \in Fields, i <= Len(fed)
      PROVE  Grown(token, fed[i], f).direct = token.direct
  <2>1. [append_scratch(token, fed[i]) EXCEPT !.slice[f].end = Len(token.scratch) + 1].direct
          = append_scratch(token, fed[i]).direct
    BY <1>a DEF append_scratch, Tokens
  <2>2. append_scratch(token, fed[i]).direct = token.direct
    BY <1>a DEF append_scratch, Tokens
  <2> QED BY <2>1, <2>2 DEF Grown
<1>9. ASSUME NEW f \in Fields, TextBytes(f) PROVE PointersLive'
  <2>1. phase = "feed" /\ i <= Len(fed)
    BY <1>9 DEF TextBytes, AtByte
  <2>2. ASSUME NEW last \in i..Len(fed), token' = [token EXCEPT !.direct[f].end = last],
               ConsumeTo(last), token.direct[f] # Null
        PROVE  PointersLive'
    BY <2>1, <2>2, LiveRun
  <2>3. CASE Room(token) > 0 /\ token' = Grown(token, fed[i], f) /\ Advance
    BY <1>1, <1>8, <2>1, <2>3
  <2> QED BY <1>9, <2>2, <2>3 DEF TextBytes, Grown
<1>10. ASSUME NEW f \in Fields, TextByteFull(f) PROVE PointersLive'
  BY <1>10, LiveReject DEF TextByteFull, Errors
<1>11. ASSUME NEW f \in Fields, BeginEscape(f) PROVE PointersLive'
  <2> DEFINE kept == preserve_direct(token)
             fits == Preserved(kept) /\ Room(kept) > 0
  <2>1. CASE Return("BUFFER_FULL")
    BY <2>1, LiveReject DEF Errors
  <2>2. CASE Advance /\ fits
    <3>1. \A g \in Fields : kept.direct[g] = Null
      BY <2>2 DEF Preserved
    <3>2. \E used \in SUBSET Fields : Sound(kept, used, Len(fed))
      <4> DEFINE used == UsedBy(token.has_key, state)
      <4>1. used \in SUBSET Fields
        BY DEF UsedBy
      <4>2. Sound(token, used, Len(fed))
        BY DEF TokenInv
      <4> HIDE DEF used
      <4> QED BY <1>a, <4>1, <4>2, PreserveSound
    <3>3. kept \in Tokens
      BY <3>2 DEF Sound
    <3>4. token' = [append_scratch(kept, BACKSLASH) EXCEPT !.escape_hex_left = 0]
      BY <1>11, <2>2 DEF BeginEscape
    <3> HIDE DEF kept
    <3>5. token'.direct = kept.direct
      BY <3>3, <3>4 DEF append_scratch, Tokens
    <3> QED BY <3>1, <3>5, LiveNone
  <2> QED BY <1>11, <2>1, <2>2 DEF BeginEscape
<1>12. ASSUME NEW f \in Fields, EscapeByte(f) PROVE PointersLive'
  <2>1. /\ phase = "feed" /\ i <= Len(fed) /\ Room(token) > 0 /\ Advance
        /\ token' = WithHexLeft(Grown(token, fed[i], f), HexLeftAfter(token, fed[i]))
    BY <1>12 DEF EscapeByte, AtByte, Grown, WithHexLeft
  <2>2. Grown(token, fed[i], f).direct = token.direct
    BY <1>8, <2>1
  <2>3. token'.direct = Grown(token, fed[i], f).direct
    BY <2>1 DEF WithHexLeft
  <2> QED BY <1>1, <2>1, <2>2, <2>3
<1>13. CASE CloseKey
  <2>1. CASE token' = WithKey(token) /\ Advance
    <3>1. token'.direct = token.direct /\ phase = "feed"
      BY <1>13, <1>a, <2>1 DEF WithKey, Tokens, CloseKey, InByte, AtByte
    <3> QED BY <1>1, <2>1, <3>1
  <2> QED BY <1>2, <1>13, <2>1 DEF CloseKey, WithKey, Errors
<1>14. ASSUME NEW type, NEW next, CommitInFeed(type, next) PROVE PointersLive'
  BY <1>14, LiveCommit DEF CommitInFeed
<1>15. CASE CloseString
  BY <1>2, <1>14, <1>15 DEF CloseString, Errors
<1>16. CASE GenericBytes
  <2>1. phase = "feed" /\ i <= Len(fed) /\ "value" \in Fields
    BY <1>16 DEF GenericBytes, AtByte, Fields
  <2>2. ASSUME NEW last \in i..Len(fed),
      token' = [token EXCEPT !.direct["value"].end = last],
               ConsumeTo(last), token.direct["value"] # Null
        PROVE  PointersLive'
    BY <2>1, <2>2, LiveRun
  <2>3. CASE Room(token) > 0 /\ token' = Grown(token, fed[i], "value") /\ Advance
    BY <1>1, <1>8, <2>1, <2>3
  <2> QED BY <1>16, <2>2, <2>3 DEF GenericBytes, Grown
<1>17. CASE GenericByteFull
  BY <1>17, LiveReject DEF GenericByteFull, Errors
<1>18. CASE CommitGeneric
  BY <1>2, <1>14, <1>18 DEF CommitGeneric, Errors
<1>19. CASE StartContainer
  <2>1. CASE Break
    BY <2>1, LiveInactive DEF Break
  <2>2. CASE token' = append_scratch(Cleared, fed[i])
    <3>1. token'.direct = Cleared.direct
      BY <2>2 DEF append_scratch, Cleared
    <3> QED BY <3>1, LiveNone DEF Cleared
  <2> QED BY <1>19, <2>1, <2>2 DEF StartContainer
<1>20. CASE ContainerOpen
  <2>1. CASE token' = append_scratch(token, fed[i]) /\ Advance
    <3>1. token'.direct = token.direct /\ phase = "feed"
      BY <1>20, <1>a, <2>1 DEF append_scratch, Tokens, ContainerOpen, AtContainerByte
    <3> QED BY <1>1, <2>1, <3>1
  <2> QED BY <1>2, <1>20, <2>1 DEF ContainerOpen, Errors
<1>21. CASE token' = Popped /\ state = "STREAM_CONTAINER"
  BY <1>21, PoppedSound, LiveNone
<1>22. CASE ContainerClose
  BY <1>21, <1>22 DEF ContainerClose, AtContainerByte, CallInv, CallOrder
<1>23. CASE ContainerEnd
  <2>1. CASE Break
    BY <2>1, LiveInactive DEF Break
  <2>2. CASE token' = Cleared
    BY <2>2, LiveNone DEF Cleared
  <2> QED BY <1>23, <2>1, <2>2 DEF ContainerEnd
<1>24. CASE ContainerChunkEnd
  <2>1. CASE Break
    BY <2>1, LiveInactive DEF Break
  <2>2. CASE Leave(i)
    BY <1>3, <1>24, <2>2 DEF ContainerChunkEnd, Leave, caller
  <2> QED BY <1>24, <2>1, <2>2 DEF ContainerChunkEnd
<1>25. CASE FeedEnd
  <2> DEFINE kept == preserve_direct(token)
  <2>1. CASE Preserved(kept)
    BY <1>25, <2>1, LiveNone DEF FeedEnd, Preserved
  <2>2. CASE ~Preserved(kept)
    BY <1>25, <2>2, LiveReject DEF FeedEnd, Errors
  <2> QED BY <2>1, <2>2
<1>26. CASE phase = "idle" /\ token' = token
            /\ (~rejected' => ~rejected) /\ (~callback_break' => ~callback_break)
  BY <1>26, LiveNone DEF PointersLive, Active
<1>e. ASSUME NEW r, EndsWith(r) PROVE phase = "idle" /\ (~rejected' => ~rejected)
  BY <1>e DEF EndsWith
<1>27. CASE Feed \/ CallAfterBreak
  BY <1>26, <1>27 DEF Feed, CallAfterBreak, stream, control
<1>36. CASE FinishComplete \/ FinishStale \/ FinishIncomplete
  <2>1. token' = token /\ callback_break' = callback_break
    BY <1>36 DEF FinishComplete, FinishStale, FinishIncomplete, stream, control
  <2>2. \E r : EndsWith(r)
    BY <1>36 DEF FinishComplete, FinishStale, FinishIncomplete
  <2> QED BY <1>26, <1>e, <2>1, <2>2
<1>28. CASE FinishScalar
  <2>1. CASE UNCHANGED stream
    BY <1>26, <1>28, <2>1 DEF FinishScalar, EndsWith, stream, control
  <2> QED BY <1>28, <2>1, LiveCommit DEF FinishScalar
<1>29. CASE Reset
  BY <1>29, LiveNone DEF Reset, Cleared
<1>30. SkipWhitespace \/ RootEntries \/ CloseEmpty \/ FindValueSep \/ FindParamSep \/ ContainerByte
         => phase = "feed" /\ Advance /\ token' = token
  BY DEF SkipWhitespace, RootEntries, CloseEmpty, FindValueSep, FindParamSep,
       ContainerByte,
         InByte, AtByte, AtContainerByte, stream
<1>31. RejectByte \/ ContainerMismatch => \E r \in Errors : Reject(r)
  BY DEF RejectByte, ContainerMismatch, Errors
<1>32. ASSUME NEW f \in Fields
    PROVE TextControlChar(f) \/ EscapeRejected(f) => \E r \in Errors : Reject(r)
  BY DEF TextControlChar, EscapeRejected, Errors
<1>33. EnterContainer => phase = "feed" /\ UNCHANGED <<token, phase, chunk_begin, i>>
  BY DEF EnterContainer, AtByte, caller, stream
<1>34. CASE ContainerStringByte
  BY <1>1, <1>2, <1>34 DEF ContainerStringByte, AtContainerByte, Errors
<1>35. CASE UNCHANGED vars
  BY <1>35 DEF vars, caller, stream, control, PointersLive, Active
<1> QED
  BY <1>1, <1>2, <1>3, <1>4, <1>5, <1>6, <1>7, <1>9, <1>10, <1>11, <1>12, <1>13,
       <1>15, <1>16, <1>17, <1>18,
     <1>19, <1>20, <1>22, <1>23, <1>24, <1>25, <1>26, <1>27, <1>28, <1>29, <1>30,
     <1>31, <1>32, <1>33, <1>34, <1>35,
     <1>36 DEF Next, Step, Call

-----------------------------------------------------------------------------
(* What the scratch holds. *)

Escapes == {"KEY_ESCAPE", "STRING_ESCAPE"}

\* What the scratch holds in state s when the tokens in used are read: inside
\* an escape the bytes read of it too, which no slice counts yet.
ExactAt(t, used, s) ==
  s # "STREAM_CONTAINER" =>
    IF s \in Escapes THEN Tiled(t, used) /\ Preserved(t) ELSE Exact(t, used)
ExactInv == Active => ExactAt(token, UsedBy(token.has_key, state), state)

\* Calls that fail, and a callback that breaks, leave nothing to claim.
LEMMA ExactInactive == ASSUME rejected' \/ callback_break' PROVE ExactInv'
BY DEF ExactInv, Active

\* So does the inside of a container, whose brackets the scratch holds.
LEMMA ExactReject == ASSUME NEW r \in Errors, Return(r) PROVE ExactInv'
BY ExactInactive DEF Return

\* A cleared token leaves the scratch empty.
LEMMA ExactCleared ==
  ASSUME token' = Cleared, state' \notin KeyStates \cup ValueStates
  PROVE  ExactInv'
<1>1. UsedBy(token'.has_key, state') = {}
  BY DEF UsedBy, Cleared
<1>2. state' \notin Escapes
  BY DEF Escapes, KeyStates, ValueStates
<1> QED
  BY <1>1, <1>2, ClearedExact DEF ExactInv, ExactAt

\* A value that is committed leaves it empty too.
LEMMA ExactCommit ==
  ASSUME NEW type, NEW next, next \notin KeyStates \cup ValueStates,
         NEW verdict, Commit(type, next, verdict)
  PROVE  ExactInv'
<1>1. CASE verdict = "BREAK"
  BY <1>1, ExactInactive DEF Commit, Break
<1>2. CASE verdict # "BREAK"
  BY <1>2, ExactCleared DEF Commit
<1> QED
  BY <1>1, <1>2

\* Between tokens the state may change; the layout stays.
LEMMA ExactKept ==
  ASSUME ExactInv, token' = token, Active' => Active,
         \/ state' = state
         \/ /\ state \notin KeyStates \cup ValueStates \cup {"STREAM_CONTAINER"}
            /\ state' \notin KeyStates \cup ValueStates
  PROVE  ExactInv'
<1>1. CASE state' = state
  BY <1>1 DEF ExactInv
<1>2. CASE state' # state
  <2>1. UsedBy(token'.has_key, state') = UsedBy(token.has_key, state)
    BY <1>2 DEF UsedBy
  <2>2. state' \notin Escapes /\ state \notin Escapes
    BY <1>2 DEF Escapes, KeyStates, ValueStates
  <2> QED BY <1>2, <2>1, <2>2 DEF ExactInv, ExactAt
<1> QED
  BY <1>1, <1>2

\* A value begins in the chunk, behind the key if there is one.
LEMMA ExactOpened ==
  ASSUME CallInv, TokenInv, ExactInv, Active, phase = "feed",
         state \in {"FIND_ROOT", "FIND_VALUE_BEGIN"},
         NEW p, token' = PointAt(token, "value", p, i),
         state' \in {"FIND_STRING_END", "FIND_GENERIC_END"}
  PROVE  ExactInv'
<1> DEFINE used == UsedBy(token.has_key, state)
<1>1. /\ token \in Tokens /\ i \in Nat \ {0} /\ "value" \in Fields
      /\ used \in SUBSET Fields
  BY DEF CallInv, CallTypes, TokenInv, Sound, UsedBy, Fields
<1>2. "value" \notin used
  BY DEF UsedBy, ValueStates
<1>3. Exact(token, used)
  BY DEF ExactInv, ExactAt, Escapes
<1>4. [begin |-> p, end |-> i] # Null
  BY <1>1 DEF Null
<1>5. token'.has_key = token.has_key
  BY <1>1 DEF PointAt, Tokens
<1>6. UsedBy(token'.has_key, state') = used \cup {"value"}
  BY <1>5 DEF UsedBy, KeyStates, ValueStates, Fields
<1> HIDE DEF used
<1>7. Exact(token', used \cup {"value"})
  BY <1>1, <1>2, <1>3, <1>4, PointExact
<1> QED
  BY <1>6, <1>7 DEF ExactInv, ExactAt, Escapes

\* The run of bytes of a token that is still in the chunk.
LEMMA ExactRun ==
  ASSUME CallInv, TokenInv, ExactInv, Active, phase = "feed", NEW f \in Fields,
         state \notin Escapes \cup {"STREAM_CONTAINER"}, state' = state,
         token.direct[f] # Null, NEW last \in i..Len(fed),
         token' = [token EXCEPT !.direct[f].end = last]
  PROVE  ExactInv'
<1> DEFINE used == UsedBy(token.has_key, state)
<1>1. /\ token \in Tokens /\ i \in Nat \ {0} /\ used \in SUBSET Fields /\ Len(fed) \in Nat
  BY DEF CallInv, CallTypes, TokenInv, Sound, UsedBy
<1>2. Exact(token, used)
  BY DEF ExactInv, ExactAt
<1>3. UsedBy(token'.has_key, state') = used
  BY <1>1 DEF Tokens
<1> HIDE DEF used
<1>4. Exact(token', used)
  BY <1>1, <1>2, RunExact
<1> QED
  BY <1>3, <1>4 DEF ExactInv, ExactAt

\* A byte appended to the token that is read, inside an escape or not.
LEMMA GrownExact ==
  ASSUME NEW n \in Nat, NEW t, NEW used \in SUBSET Fields, Sound(t, used, n),
         Tiled(t, used), NEW f \in used, f = "value" \/ "value" \notin used,
         t.direct[f] = Null, NEW c \in Byte, Room(t) > 0
  PROVE  Exact(Grown(t, c, f), used)
<1> DEFINE u == Grown(t, c, f)
           more == append_scratch(t, c)
<1>1. /\ t \in Tokens /\ t.scratch \in Seq(Byte) /\ more \in Tokens
      /\ more.scratch = Append(t.scratch, c) /\ more.slice = t.slice
      /\ more.direct = t.direct
  <2>1. /\ Sound(more, used, n) /\ more.scratch = Append(t.scratch, c)
        /\ more.slice = t.slice /\ more.direct = t.direct
    BY AppendSound
  <2> HIDE DEF more
  <2> QED BY <2>1 DEF Sound, Tokens
<1>2. Len(Append(t.scratch, c)) = Len(t.scratch) + 1 /\ Len(t.scratch) \in Nat
  BY <1>1, AppendProperties
<1>3. u = [more EXCEPT !.slice[f].end = Len(t.scratch) + 1]
  BY DEF Grown
<1> HIDE DEF more
<1>4. /\ u.direct = t.direct /\ u.scratch = Append(t.scratch, c)
      /\ u.slice = [t.slice EXCEPT ![f].end = Len(t.scratch) + 1]
  BY <1>1, <1>3 DEF Tokens
<1> HIDE DEF u
<1>5. "key" \in used => t.direct["key"] = Null
  BY DEF Sound, Fields
<1>6. /\ Len(u.scratch) = Len(t.scratch) + 1 /\ Len(u.scratch) \in Nat
  BY <1>2, <1>4
<1>7. u.slice = [t.slice EXCEPT ![f].end = Len(u.scratch)]
  BY <1>4, <1>6
<1>8. Exact(u, used)
  BY <1>1, <1>4, <1>5, <1>6, <1>7, EndExact
<1> QED
  BY <1>8 DEF u

\* Every step keeps the scratch exact.
LEMMA ExactNext == CallInv /\ TokenInv /\ PointersLive /\ HeldInv /\ ExactInv /\ [Next]_vars => ExactInv'
<1> SUFFICES ASSUME CallInv, TokenInv, PointersLive, HeldInv, ExactInv, [Next]_vars
             PROVE  ExactInv'
  OBVIOUS
<1> DEFINE used == UsedBy(token.has_key, state)
<1>a. /\ fed \in Seq(Byte) /\ Len(fed) \in Nat /\ i \in 1..(Len(fed) + 1)
      /\ used \in SUBSET Fields /\ Sound(token, used, Len(fed)) /\ token \in Tokens
      /\ \A k \in 1..Len(fed) : fed[k] \in Byte
  BY DEF CallInv, CallTypes, UsedBy, TokenInv, Sound
<1>b. phase = "feed" => Active
  BY DEF CallInv, CallOrder, Active
<1>c. Active => ExactAt(token, used, state)
  BY DEF ExactInv
<1>d. \A f \in Fields : state \in {TextState(f), EscapeState(f)} =>
        /\ f \in used
        /\ f = "value" \/ "value" \notin used
        /\ UsedBy(token.has_key, TextState(f)) = used
        /\ UsedBy(token.has_key, EscapeState(f)) = used
  BY DEF UsedBy, KeyStates, ValueStates, TextState, EscapeState, Fields
<1>e. \A f \in Fields : /\ TextState(f) \notin Escapes \cup {"STREAM_CONTAINER"}
                        /\ EscapeState(f) \in Escapes /\ EscapeState(f) # "STREAM_CONTAINER"
  BY DEF TextState, EscapeState, Escapes
<1>1. CASE \E r \in Errors : Return(r)
  BY <1>1, ExactReject
<1>2. CASE token' = token /\ state' = state /\ (Active' => Active)
  BY <1>2, ExactKept
<1>3. CASE state' = "STREAM_CONTAINER"
  BY <1>3 DEF ExactInv, ExactAt
<1>4. CASE Break
  BY <1>4, ExactInactive DEF Break
<1>5. CASE token' = Cleared /\ state' \in {"FIND_ROOT", "FIND_PARAM_SEP"}
  BY <1>5, ExactCleared DEF KeyStates, ValueStates
<1>6. ASSUME NEW type, NEW next, next \notin KeyStates \cup ValueStates,
             CommitInFeed(type, next)
      PROVE  ExactInv'
  BY <1>6, ExactCommit DEF CommitInFeed
<1>7. RootEntries \/ CloseEmpty \/ FindValueSep \/ FindParamSep => ExactInv'
  <2> SUFFICES ASSUME RootEntries \/ CloseEmpty \/ FindValueSep \/ FindParamSep
               PROVE  ExactInv'
    OBVIOUS
  <2>1. token' = token /\ phase = "feed"
    BY DEF RootEntries, CloseEmpty, FindValueSep, FindParamSep, InByte, AtByte
  <2>2. state \in {"FIND_ROOT", "FIND_KEY_BEGIN", "FIND_VALUE_BEGIN", "FIND_VALUE_SEP",
                   "FIND_PARAM_SEP"}
    BY DEF RootEntries, CloseEmpty, FindValueSep, FindParamSep, InByte, AtByte
  <2>3. state' \in {"FIND_KEY_BEGIN", "FIND_VALUE_BEGIN", "COMPLETE"}
    BY DEF RootEntries, CloseEmpty, FindValueSep, FindParamSep, AfterSeparator, Goto
  <2> QED BY <1>b, <2>1, <2>2, <2>3, ExactKept DEF KeyStates, ValueStates
<1>8. CASE RootScalar
  BY <1>8, <1>b, ExactOpened DEF RootScalar, AtByte
<1>9. CASE OpenKey
  <2>1. /\ token' = PointAt(Cleared, "key", i + 1, i) /\ state' = "FIND_KEY_END"
        /\ i \in Nat \ {0} /\ "key" \in Fields
    BY <1>9, <1>a DEF OpenKey, Goto, Fields
  <2>2. Cleared \in Tokens /\ token'.has_key = FALSE
    BY <1>a, <2>1, ClearedSound DEF Sound, PointAt, Cleared
  <2>3. UsedBy(token'.has_key, state') = {} \cup {"key"}
    BY <2>1, <2>2 DEF UsedBy, KeyStates, ValueStates
  <2>4. [begin |-> i + 1, end |-> i] # Null
    BY <2>1 DEF Null
  <2>5. Exact(token', {} \cup {"key"})
    BY <2>1, <2>2, <2>4, ClearedExact, PointExact
  <2> QED BY <2>1, <2>3, <2>5 DEF ExactInv, ExactAt, Escapes
<1>10. CASE OpenString
  BY <1>10, <1>b, ExactOpened DEF OpenString, InByte, AtByte, Goto
<1>11. CASE OpenGeneric
  BY <1>11, <1>b, ExactOpened DEF OpenGeneric, AtByte, Goto
<1>12. ASSUME NEW f \in Fields, phase = "feed", i <= Len(fed), Room(token) > 0,
              state \notin Escapes \cup {"STREAM_CONTAINER"}, state' = state,
              f \in used, f = "value" \/ "value" \notin used, token.direct[f] = Null,
              token' = Grown(token, fed[i], f)
       PROVE  ExactInv'
  <2>1. Tiled(token, used)
    BY <1>b, <1>c, <1>12 DEF ExactAt, Exact
  <2>2. Exact(token', used) /\ token'.has_key = token.has_key
    BY <1>a, <1>12, <2>1, GrownExact, GrowSound
  <2> QED BY <1>12, <2>2 DEF ExactInv, ExactAt
<1>13. ASSUME NEW f \in Fields, TextBytes(f) PROVE ExactInv'
  <2>1. phase = "feed" /\ i <= Len(fed) /\ state = TextState(f) /\ state' = state
    BY <1>13 DEF TextBytes, AtByte, control
  <2>2. ASSUME NEW last \in i..Len(fed), token.direct[f] # Null,
               token' = [token EXCEPT !.direct[f].end = last]
        PROVE  ExactInv'
    BY <1>b, <1>e, <2>1, <2>2, ExactRun
  <2>3. CASE Room(token) > 0 /\ token.direct[f] = Null /\ token' = Grown(token, fed[i], f)
    BY <1>d, <1>e, <1>12, <2>1, <2>3
  <2> QED BY <1>13, <2>2, <2>3 DEF TextBytes, Grown
<1>14. ASSUME NEW f \in Fields, TextByteFull(f) PROVE ExactInv'
  BY <1>1, <1>14 DEF TextByteFull, Errors
<1>15. ASSUME NEW f \in Fields, BeginEscape(f) PROVE ExactInv'
  <2> DEFINE kept == preserve_direct(token)
             fits == Preserved(kept) /\ Room(kept) > 0
             more == append_scratch(kept, BACKSLASH)
  <2>1. CASE Return("BUFFER_FULL")
    BY <1>1, <2>1 DEF Errors
  <2>2. CASE fits
    <3>1. /\ phase = "feed" /\ state = TextState(f) /\ state' = EscapeState(f)
          /\ token' = WithHexLeft(more, 0)
      BY <1>15, <2>2 DEF BeginEscape, InByte, AtByte, Goto, WithHexLeft
    <3>2. Exact(token, used)
      BY <1>b, <1>c, <1>e, <3>1 DEF ExactAt
    <3>3. Exact(kept, used) /\ Sound(kept, used, Len(fed)) /\ kept.has_key = token.has_key
      BY <1>a, <2>2, <3>2, PreserveExact, PreserveSound
    <3>4. Room(kept) > 0 /\ Preserved(kept)
      BY <2>2
    <3>5. BACKSLASH \in Byte
      BY DEF Byte, BACKSLASH
    <3> HIDE DEF kept
    <3>6. /\ Sound(more, used, Len(fed)) /\ more.slice = kept.slice
          /\ more.direct = kept.direct /\ more.has_key = kept.has_key
      BY <1>a, <3>3, <3>4, <3>5, AppendSound
    <3>7. more \in Tokens
      BY <3>6 DEF Sound
    <3> HIDE DEF more
    <3>8. token'.slice = more.slice /\ token'.direct = more.direct /\ token'.has_key = more.has_key
      BY <3>1, <3>7 DEF WithHexLeft, Tokens
    <3>9. Tiled(token', used)
      BY <3>3, <3>6, <3>8, SameExact DEF Exact
    <3>10. Preserved(token')
      BY <3>4, <3>6, <3>8 DEF Preserved
    <3>11. UsedBy(token'.has_key, state') = used
      BY <1>d, <3>1, <3>3, <3>6, <3>8
    <3> QED BY <1>e, <3>1, <3>9, <3>10, <3>11 DEF ExactInv, ExactAt
  <2> QED BY <1>15, <2>1, <2>2 DEF BeginEscape
<1>16. ASSUME NEW f \in Fields, EscapeByte(f) PROVE ExactInv'
  <2> DEFINE t == Grown(token, fed[i], f)
             left == HexLeftAfter(token, fed[i])
  <2>1. /\ phase = "feed" /\ i <= Len(fed) /\ Room(token) > 0
        /\ state = EscapeState(f) /\ state' \in {TextState(f), EscapeState(f)}
        /\ token' = WithHexLeft(t, left)
    BY <1>16 DEF EscapeByte, AtByte, Goto, Grown, WithHexLeft
  <2>2. Tiled(token, used) /\ Preserved(token)
    BY <1>b, <1>c, <1>e, <2>1 DEF ExactAt
  <2>3. f \in used /\ (f = "value" \/ "value" \notin used) /\ token.direct[f] = Null
    BY <1>d, <2>1, <2>2 DEF Preserved
  <2>4. /\ Exact(t, used) /\ Sound(t, used, Len(fed))
        /\ t.has_key = token.has_key /\ t.direct = token.direct
    BY <1>a, <2>1, <2>2, <2>3, GrownExact, GrowSound
  <2>5. t \in Tokens
    BY <2>4 DEF Sound
  <2> HIDE DEF t, left
  <2>6. /\ token'.slice = t.slice /\ token'.direct = t.direct
        /\ token'.has_key = t.has_key /\ token'.scratch = t.scratch
    BY <2>1, <2>5 DEF WithHexLeft, Tokens
  <2>7. Exact(token', used) /\ Tiled(token', used)
    BY <2>4, <2>6, SameExact DEF Exact
  <2>8. Preserved(token')
    BY <2>2, <2>4, <2>6 DEF Preserved
  <2>9. UsedBy(token'.has_key, state') = used
    BY <1>d, <2>1, <2>4, <2>6
  <2> QED BY <2>7, <2>8, <2>9 DEF ExactInv, ExactAt
<1>17. ASSUME NEW f \in Fields, TextControlChar(f) \/ EscapeRejected(f) PROVE ExactInv'
  BY <1>1, <1>17 DEF TextControlChar, EscapeRejected, Reject, Errors
<1>18. CASE CloseKey
  <2>1. CASE Reject("ERROR")
    BY <1>1, <2>1 DEF Reject, Errors
  <2>2. CASE token' = WithKey(token) /\ Goto("FIND_VALUE_SEP")
    <3>1. phase = "feed" /\ state = "FIND_KEY_END" /\ state' = "FIND_VALUE_SEP"
      BY <1>18, <2>2 DEF CloseKey, InByte, AtByte, Goto
    <3>2. /\ token'.scratch = token.scratch /\ token'.slice = token.slice
          /\ token'.direct = token.direct /\ token'.has_key
      BY <1>a, <2>2 DEF WithKey, Tokens
    <3>3. UsedBy(token'.has_key, state') = used
      BY <3>1, <3>2 DEF UsedBy, KeyStates, ValueStates
    <3>4. Exact(token, used)
      BY <1>b, <1>c, <3>1 DEF ExactAt, Escapes
    <3>5. Exact(token', used)
      BY <3>2, <3>4, SameExact
    <3> QED BY <3>1, <3>3, <3>5 DEF ExactInv, ExactAt, Escapes
  <2> QED BY <1>18, <2>1, <2>2 DEF CloseKey, WithKey
<1>19. CASE CloseString
  <2>1. CASE Reject("ERROR")
    BY <1>1, <2>1 DEF Reject, Errors
  <2> QED BY <1>6, <1>19, <2>1 DEF CloseString, KeyStates, ValueStates
<1>20. CASE GenericBytes
  <2>1. /\ phase = "feed" /\ i <= Len(fed) /\ state = "FIND_GENERIC_END" /\ state' = state
        /\ "value" \in Fields /\ state \notin Escapes \cup {"STREAM_CONTAINER"}
    BY <1>20 DEF GenericBytes, AtByte, control, Fields, Escapes
  <2>2. "value" \in used
    BY <2>1 DEF UsedBy, ValueStates
  <2>3. ASSUME NEW last \in i..Len(fed), token.direct["value"] # Null,
               token' = [token EXCEPT !.direct["value"].end = last]
        PROVE  ExactInv'
    BY <1>b, <2>1, <2>3, ExactRun
  <2>4. CASE Room(token) > 0 /\ token.direct["value"] = Null
             /\ token' = Grown(token, fed[i], "value")
    BY <1>12, <2>1, <2>2, <2>4
  <2> QED BY <1>20, <2>3, <2>4 DEF GenericBytes, Grown
<1>21. CASE GenericByteFull
  BY <1>1, <1>21 DEF GenericByteFull, Errors
<1>22. CASE CommitGeneric
  <2>1. CASE Reject("ERROR")
    BY <1>1, <2>1 DEF Reject, Errors
  <2>2. AfterGeneric(fed[i]) \notin KeyStates \cup ValueStates
    BY DEF AfterGeneric, AfterSeparator, KeyStates, ValueStates
  <2> QED BY <1>6, <1>22, <2>1, <2>2 DEF CommitGeneric
<1>23. CASE StartContainer
  BY <1>3, <1>4, <1>23 DEF StartContainer, Goto
<1>24. ContainerOpen \/ ContainerClose \/ ContainerStringByte \/ ContainerByte \/ EnterContainer
         => ExactInv'
  <2> SUFFICES ASSUME ContainerOpen \/ ContainerClose \/ ContainerStringByte
                        \/ ContainerByte \/ EnterContainer
               PROVE  ExactInv'
    OBVIOUS
  <2>1. state = "STREAM_CONTAINER"
    BY DEF ContainerOpen, ContainerClose, ContainerStringByte, ContainerByte,
           EnterContainer, AtContainerByte, AtByte, CallInv, CallOrder
  <2>2. state' = state \/ \E r \in Errors : Return(r)
    BY DEF ContainerOpen, ContainerClose, ContainerStringByte, ContainerByte,
           EnterContainer, Reject, stream, control, Errors
  <2> QED BY <1>1, <1>3, <2>1, <2>2
<1>25. CASE ContainerEnd
  BY <1>4, <1>5, <1>25 DEF ContainerEnd
<1>26. CASE ContainerChunkEnd
  <2>1. state = "STREAM_CONTAINER"
    BY <1>26 DEF ContainerChunkEnd, CallInv, CallOrder
  <2> QED BY <1>3, <1>4, <1>26, <2>1 DEF ContainerChunkEnd, control
<1>27. CASE FeedEnd
  <2> DEFINE kept == preserve_direct(token)
  <2>1. /\ phase = "feed" /\ token' = kept /\ state' = state
        /\ ~Preserved(kept) => Return("BUFFER_FULL")
    BY <1>27 DEF FeedEnd, control
  <2>2. CASE ~Preserved(kept)
    BY <1>1, <2>1, <2>2 DEF Errors
  <2>3. CASE Preserved(kept)
    <3>1. kept.has_key = token.has_key
      BY <1>a, PreserveSound
    <3>2. CASE state \in Escapes
      <4>1. Preserved(token) /\ "key" \in Fields /\ "value" \in Fields
        BY <1>b, <1>c, <2>1, <3>2 DEF ExactAt, Escapes, Fields
      <4>2. kept = token
        BY <4>1 DEF preserve_direct, copy_direct, Preserved
      <4> QED BY <1>b, <2>1, <4>2, ExactKept
    <3>3. CASE state \notin Escapes /\ state # "STREAM_CONTAINER"
      <4>1. Exact(kept, used)
        BY <1>a, <1>b, <1>c, <2>1, <2>3, <3>3, PreserveExact DEF ExactAt
      <4> HIDE DEF kept
      <4> QED BY <2>1, <3>1, <3>3, <4>1 DEF ExactInv, ExactAt
    <3> QED BY <1>3, <2>1, <3>2, <3>3
  <2> QED BY <2>2, <2>3
<1>28. ASSUME NEW r, EndsWith(r) PROVE ~rejected' => ~rejected
  BY <1>28 DEF EndsWith
<1>29. CASE Feed \/ CallAfterBreak
  BY <1>2, <1>29 DEF Feed, CallAfterBreak, stream, control, Active
<1>30. CASE FinishComplete \/ FinishStale \/ FinishIncomplete
  <2>1. token' = token /\ state' = state /\ callback_break' = callback_break
    BY <1>30 DEF FinishComplete, FinishStale, FinishIncomplete, stream, control
  <2>2. \E r : EndsWith(r)
    BY <1>30 DEF FinishComplete, FinishStale, FinishIncomplete
  <2> QED BY <1>2, <1>28, <2>1, <2>2 DEF Active
<1>31. CASE FinishScalar
  <2>1. CASE UNCHANGED stream /\ EndsWith("ERROR")
    BY <1>2, <1>28, <2>1 DEF stream, control, Active
  <2>2. "COMPLETE" \notin KeyStates \cup ValueStates
    BY DEF KeyStates, ValueStates
  <2> QED BY <1>31, <2>1, <2>2, ExactCommit DEF FinishScalar
<1>32. CASE Reset
  BY <1>5, <1>32 DEF Reset
<1>33. CASE SkipWhitespace \/ UNCHANGED vars
  <2>1. token' = token /\ state' = state /\ (Active' => Active)
    BY <1>33 DEF SkipWhitespace, vars, Advance, caller, stream, control, Active
  <2> QED BY <1>2, <2>1
<1>34. CASE RejectByte \/ ContainerMismatch
  BY <1>1, <1>34 DEF RejectByte, ContainerMismatch, Reject, Errors
<1> QED
  BY <1>7, <1>8, <1>9, <1>10, <1>11, <1>13, <1>14, <1>15, <1>16, <1>17, <1>18, <1>19,
     <1>20, <1>21, <1>22, <1>23, <1>24, <1>25, <1>26, <1>27, <1>29, <1>30, <1>31, <1>32,
     <1>33, <1>34 DEF Next, Step, Call

-----------------------------------------------------------------------------
(* What the tokens in use hold. *)

ReadIn(f, s) == s \in (IF f = "key" THEN KeyStates ELSE ValueStates)

\* Where token f of t ends in the scratch.
Stop(t, f, s) == IF s = EscapeState(f) THEN Len(t.scratch) ELSE t.slice[f].end

\* The bytes kept of f are the bytes first..last of the input.
Placed(t, f, stop, first, last) ==
  IF t.direct[f] # Null
  THEN t.direct[f].begin = first /\ t.direct[f].end = last
  ELSE /\ stop - t.slice[f].begin = last - first
       /\ \A k \in first..last : t.scratch[t.slice[f].begin + (k - first)] = fed[k]

\* Those bytes are the token read up to n, or a key that was closed before n.
Framed(f, s, n, first, last) ==
  /\ 1 <= first /\ first <= last + 1
  /\ IF ReadIn(f, s) THEN last = n - 1 ELSE last + 1 < n /\ fed[last + 1] = QUOTE
  /\ (f = "key" \/ s # "FIND_GENERIC_END") => 1 < first /\ fed[first - 1] = QUOTE

AsFed(t, f, s, n) == \E first, last \in Int :
  Framed(f, s, n, first, last) /\ Placed(t, f, Stop(t, f, s), first, last)
IdleInv == (phase = "idle" /\ Active) => i = Len(fed) + 1
ContentInv ==
  Active => \A f \in UsedBy(token.has_key, state) : AsFed(token, f, state, i)

\* A token that is neither moved nor added to is kept.
LEMMA CarriedContent ==
  ASSUME NEW t \in Tokens, NEW u \in Tokens, NEW f \in Fields, NEW s, NEW r,
         NEW n \in Int, NEW m \in Int, AsFed(t, f, s, n),
         \/ n = m /\ r = s
         \/ n <= m /\ f = "key" /\ ~ReadIn(f, s) /\ ~ReadIn(f, r),
         u.direct[f] = t.direct[f], u.slice[f] = t.slice[f],
         Stop(u, f, r) = Stop(t, f, s) \/ t.direct[f] # Null,
         t.direct[f] = Null => /\ 1 <= t.slice[f].begin
                               /\ \A k \in 1..Stop(t, f, s) : u.scratch[k] = t.scratch[k]
  PROVE  AsFed(u, f, r, m)
<1>1. PICK first \in Int, last \in Int :
        Framed(f, s, n, first, last) /\ Placed(t, f, Stop(t, f, s), first, last)
  BY DEF AsFed
<1>2. Framed(f, r, m, first, last)
  BY <1>1 DEF Framed
<1>3. Placed(u, f, Stop(u, f, r), first, last)
  <2>1. CASE t.direct[f] # Null
    BY <1>1, <2>1 DEF Placed
  <2>2. CASE t.direct[f] = Null
    <3>1. t.slice[f].begin \in Int /\ 1 <= t.slice[f].begin
      BY <2>2 DEF Tokens, Slice
    <3>2. Stop(t, f, s) \in Int
      BY DEF Stop, Tokens, Slice
    <3>3. /\ Stop(t, f, s) - t.slice[f].begin = last - first
          /\ \A k \in first..last : t.scratch[t.slice[f].begin + (k - first)] = fed[k]
      BY <1>1, <2>2 DEF Placed
    <3>4. ASSUME NEW k \in first..last
          PROVE  t.slice[f].begin + (k - first) \in 1..Stop(t, f, s)
      BY <3>1, <3>2, <3>3
    <3>5. \A k \in first..last : u.scratch[t.slice[f].begin + (k - first)] = fed[k]
      BY <2>2, <3>3, <3>4
    <3> QED BY <2>2, <3>3, <3>5 DEF Placed
  <2> QED BY <2>1, <2>2
<1> QED
  BY <1>2, <1>3 DEF AsFed

\* A byte read is appended to the token in the scratch.
LEMMA GrownContent ==
  ASSUME NEW n \in Int, NEW t \in Tokens, NEW u \in Tokens, NEW f \in Fields, NEW s, NEW r,
         AsFed(t, f, s, n), ReadIn(f, s), ReadIn(f, r),
         r # "FIND_GENERIC_END" => s # "FIND_GENERIC_END",
         t.direct[f] = Null, u.direct[f] = Null,
         u.slice[f].begin = t.slice[f].begin, 1 <= t.slice[f].begin,
         u.scratch = Append(t.scratch, fed[n]), fed[n] \in Byte,
         Stop(t, f, s) = Len(t.scratch), Stop(u, f, r) = Len(t.scratch) + 1
  PROVE  AsFed(u, f, r, n + 1)
<1>1. PICK first \in Int, last \in Int :
        Framed(f, s, n, first, last) /\ Placed(t, f, Stop(t, f, s), first, last)
  BY DEF AsFed
<1>2. last = n - 1 /\ first <= n
  BY <1>1 DEF Framed
<1>3. Framed(f, r, n + 1, first, n)
  BY <1>1, <1>2 DEF Framed
<1>4. /\ t.slice[f].begin \in Int /\ t.scratch \in Seq(Byte) /\ Len(t.scratch) \in Nat
  BY DEF Tokens, Slice
<1>5. /\ Len(t.scratch) - t.slice[f].begin = last - first
      /\ \A k \in first..last : t.scratch[t.slice[f].begin + (k - first)] = fed[k]
  BY <1>1 DEF Placed
<1>6. t.slice[f].begin + (n - first) = Len(t.scratch) + 1
  <2> DEFINE b == t.slice[f].begin
             m == Len(t.scratch)
  <2>1. b \in Int /\ m \in Int /\ m - b = last - first
    BY <1>4, <1>5
  <2> HIDE DEF b, m
  <2>2. b + (n - first) = m + 1
    BY <1>2, <2>1
  <2> QED BY <2>2 DEF b, m
<1>7. /\ u.scratch[Len(t.scratch) + 1] = fed[n]
      /\ \A k \in 1..Len(t.scratch) : u.scratch[k] = t.scratch[k]
  BY <1>4, AppendProperties
<1>8. ASSUME NEW k \in first..n
      PROVE  u.scratch[t.slice[f].begin + (k - first)] = fed[k]
  <2>1. CASE k = n
    <3>1. t.slice[f].begin + (k - first) = Len(t.scratch) + 1
      BY <1>2, <1>6, <2>1
    <3> QED BY <1>7, <2>1, <3>1
  <2>2. CASE k # n
    <3>1. k \in first..last
      BY <1>2, <2>2
    <3>2. t.slice[f].begin + (k - first) \in 1..Len(t.scratch)
      BY <1>2, <1>4, <1>5, <3>1
    <3> QED BY <1>5, <1>7, <3>1, <3>2
  <2> QED BY <2>1, <2>2
<1>9. Stop(u, f, r) - u.slice[f].begin = n - first
  <2>1. Stop(u, f, r) = Len(t.scratch) + 1 /\ u.slice[f].begin = t.slice[f].begin
    OBVIOUS
  <2> QED BY <1>4, <1>6, <2>1
<1>10. Placed(u, f, Stop(u, f, r), first, n)
  BY <1>8, <1>9 DEF Placed
<1> QED
  BY <1>3, <1>10 DEF AsFed

\* A token in the chunk is extended to the byte before n.
LEMMA RunContent ==
  ASSUME NEW t, NEW u, NEW f \in Fields, NEW s, NEW n \in Int, NEW m \in Int,
         AsFed(t, f, s, n), ReadIn(f, s), n <= m,
         t.direct[f] # Null, u.direct[f] # Null,
         u.direct[f].begin = t.direct[f].begin, u.direct[f].end = m - 1
  PROVE  AsFed(u, f, s, m)
<1>1. PICK first \in Int, last \in Int :
        Framed(f, s, n, first, last) /\ Placed(t, f, Stop(t, f, s), first, last)
  BY DEF AsFed
<1>2. Framed(f, s, m, first, m - 1)
  BY <1>1 DEF Framed
<1>3. Placed(u, f, Stop(u, f, s), first, m - 1)
  BY <1>1 DEF Placed
<1> QED
  BY <1>2, <1>3 DEF AsFed

\* A token begins in the chunk: behind a quote, or with its first byte.
LEMMA OpenedContent ==
  ASSUME NEW u, NEW f \in Fields, NEW s, NEW n \in Int, 1 <= n, ReadIn(f, s),
         NEW p \in Int, u.direct[f] = [begin |-> p, end |-> n],
         \/ p = n /\ f = "value" /\ s = "FIND_GENERIC_END"
         \/ p = n + 1 /\ fed[n] = QUOTE
  PROVE  AsFed(u, f, s, n + 1)
<1>1. Framed(f, s, n + 1, p, n)
  BY DEF Framed
<1>2. u.direct[f] # Null /\ u.direct[f].begin = p /\ u.direct[f].end = n
  BY DEF Null
<1>3. Placed(u, f, Stop(u, f, s), p, n)
  BY <1>2 DEF Placed
<1> QED
  BY <1>1, <1>3 DEF AsFed

\* A complete copy appends the bytes of the chunk.
LEMMA CopyWhole ==
  ASSUME fed \in Seq(Byte), NEW t, NEW used, Sound(t, used, Len(fed)), NEW f \in Fields,
         t.direct[f] # Null, copy_direct(t, f).direct[f] = Null
  PROVE  /\ ChunkSlice(t.direct[f]) \in Seq(Byte)
         /\ copy_direct(t, f).scratch = t.scratch \o ChunkSlice(t.direct[f])
         /\ copy_direct(t, f).slice[f].begin = Len(t.scratch) + 1
         /\ copy_direct(t, f).slice[f].end = Len(t.scratch) + Len(ChunkSlice(t.direct[f]))
<1> DEFINE text == ChunkSlice(t.direct[f])
           kept == IF Len(text) <= Room(t) THEN Len(text) ELSE Room(t)
           part == SubSeq(text, 1, kept)
           at   == [begin |-> Len(t.scratch) + 1, end |-> Len(t.scratch) + 1 + kept - 1]
           u    == [t EXCEPT !.scratch   = @ \o part,
                             !.slice[f]  = at,
                             !.direct[f] = IF kept = Len(text) THEN Null ELSE @]
<1>1. text \in Seq(Byte) /\ Len(text) \in Nat
  BY ChunkText
<1>2. t \in Tokens /\ Len(t.scratch) \in Nat
  BY DEF Sound, Tokens
<1>3. copy_direct(t, f) = u
  BY DEF copy_direct
<1> HIDE DEF text, kept, part, at
<1>4. /\ u.scratch = t.scratch \o part /\ u.slice[f] = at
      /\ u.direct[f] = IF kept = Len(text) THEN Null ELSE t.direct[f]
  BY <1>2 DEF Tokens
<1>5. kept = Len(text)
  BY <1>3, <1>4
<1>6. part = text
  BY <1>1, <1>5, SubSeqFull DEF part
<1>7. at.begin = Len(t.scratch) + 1 /\ at.end = Len(t.scratch) + Len(text)
  BY <1>1, <1>2, <1>5 DEF at
<1> QED
  BY <1>1, <1>3, <1>4, <1>6, <1>7 DEF text

\* Where a byte lies in the scratch, whichever way it is counted.
LEMMA Shifted ==
  ASSUME NEW a \in Int, NEW k \in Int, NEW first \in Int
  PROVE  (a + 1) + (k - first) = a + (k - first + 1)
OBVIOUS

\* The bytes of a piece of the input.
LEMMA PieceOf ==
  ASSUME NEW s \in Seq(Byte), NEW b \in Int, NEW e \in Int,
         1 <= b, b <= e + 1, e <= Len(s)
  PROVE  /\ Len(SubSeq(s, b, e)) = e - b + 1
         /\ \A k \in 1..(e - b + 1) : SubSeq(s, b, e)[k] = s[b + k - 1]
<1>1. \A k \in b..e : s[k] \in Byte
  OBVIOUS
<1>2. /\ Len(SubSeq(s, b, e)) = IF b <= e THEN e - b + 1 ELSE 0
      /\ \A k \in 1..(e - b + 1) : SubSeq(s, b, e)[k] = s[b + k - 1]
  BY <1>1, SubSeqProperties
<1> QED
  BY <1>2

\* So a token that is copied whole is kept, and so is the other one.
LEMMA CopiedContent ==
  ASSUME fed \in Seq(Byte), NEW t, NEW used \in SUBSET Fields, Sound(t, used, Len(fed)),
         NEW g \in Fields, g = "key" \/ t.direct["key"] = Null,
         copy_direct(t, g).direct[g] = Null,
         NEW f \in used, NEW s, s # EscapeState(f), NEW n \in Int, AsFed(t, f, s, n)
  PROVE  AsFed(copy_direct(t, g), f, s, n)
<1>1. CASE t.direct[g] = Null
  BY <1>1 DEF copy_direct
<1>2. CASE t.direct[g] # Null
  <2> DEFINE w == copy_direct(t, g)
             text == ChunkSlice(t.direct[g])
  <2>1. /\ w \in Tokens /\ \A h \in Fields \ {g} : /\ w.slice[h] = t.slice[h]
                                                  /\ w.direct[h] = t.direct[h]
    BY <1>2, CopyShape
  <2>2. /\ text \in Seq(Byte) /\ w.scratch = t.scratch \o text
        /\ w.slice[g].begin = Len(t.scratch) + 1
        /\ w.slice[g].end = Len(t.scratch) + Len(text)
    BY <1>2, CopyWhole
  <2>3. /\ t \in Tokens /\ t.scratch \in Seq(Byte) /\ Len(t.scratch) \in Nat
        /\ t.direct[g].begin \in Int /\ t.direct[g].end \in Int
        /\ 1 <= t.direct[g].begin /\ t.direct[g].begin <= t.direct[g].end + 1
        /\ t.direct[g].end <= Len(fed)
    <3>1. t \in Tokens
      BY DEF Sound
    <3>2. t.direct[g] \in Slice /\ t.scratch \in Seq(Byte)
      BY <3>1 DEF Tokens
    <3>3. t.direct[g].begin \in Int /\ t.direct[g].end \in Int
      BY <3>2 DEF Slice
    <3>4. /\ 1 <= t.direct[g].begin /\ t.direct[g].begin <= t.direct[g].end + 1
          /\ t.direct[g].end <= Len(fed)
      BY <1>2 DEF Sound
    <3> QED BY <3>1, <3>2, <3>3, <3>4
  <2>4. /\ Len(text) = t.direct[g].end - t.direct[g].begin + 1
        /\ \A k \in 1..Len(text) : text[k] = fed[t.direct[g].begin + k - 1]
    <3> DEFINE b == t.direct[g].begin
               e == t.direct[g].end
    <3>1. /\ b \in Int /\ e \in Int /\ 1 <= b /\ b <= e + 1 /\ e <= Len(fed)
      BY <2>3
    <3>2. text = SubSeq(fed, b, e)
      BY DEF ChunkSlice
    <3> HIDE DEF b, e, text
    <3>3. Len(text) = e - b + 1 /\ \A k \in 1..(e - b + 1) : text[k] = fed[b + k - 1]
      BY <3>1, <3>2, PieceOf
    <3>4. \A k \in 1..Len(text) : text[k] = fed[b + k - 1]
      BY <3>3
    <3> QED BY <3>3, <3>4 DEF b, e
  <2>5. /\ \A k \in 1..Len(t.scratch) : w.scratch[k] = t.scratch[k]
        /\ \A k \in 1..Len(text) : w.scratch[Len(t.scratch) + k] = text[k]
    <3> HIDE DEF text, w
    <3>1. Len(text) \in Nat
      BY <2>2
    <3>2. \A k \in 1..Len(t.scratch) : (t.scratch \o text)[k] = t.scratch[k]
      BY <2>2, <2>3, ConcatProperties
    <3>3. ASSUME NEW k \in 1..Len(text) PROVE (t.scratch \o text)[Len(t.scratch) + k] = text[k]
      <4>1. Len(t.scratch) + k \in (Len(t.scratch) + 1) .. (Len(t.scratch) + Len(text))
        BY <2>3, <3>1
      <4>2. (t.scratch \o text)[Len(t.scratch) + k] = text[Len(t.scratch) + k - Len(t.scratch)]
        BY <2>2, <2>3, <4>1, ConcatProperties
      <4> QED BY <2>3, <3>1, <4>2
    <3> QED BY <2>2, <3>2, <3>3
  <2>6. w.direct[g] = Null
    OBVIOUS
  <2> HIDE DEF w, text
  <2>7. f \in Fields
    OBVIOUS
  <2>8. CASE f # g
    <3>1. w.slice[f] = t.slice[f] /\ w.direct[f] = t.direct[f]
      BY <2>1, <2>7, <2>8
    <3>2. Stop(t, f, s) = t.slice[f].end /\ Stop(w, f, s) = t.slice[f].end
      BY <3>1 DEF Stop
    <3>3. t.direct[f] = Null => 1 <= t.slice[f].begin /\ t.slice[f].end <= Len(t.scratch)
      BY DEF Sound
    <3>4. t.slice[f].end \in Int
      BY <2>3, <2>7 DEF Tokens, Slice
    <3>5. t.direct[f] = Null => \A k \in 1..Stop(t, f, s) : w.scratch[k] = t.scratch[k]
      BY <2>3, <2>5, <3>2, <3>3, <3>4
    <3>6. AsFed(w, f, s, n)
      BY <2>1, <2>3, <2>7, <3>1, <3>2, <3>3, <3>5, CarriedContent
    <3> QED BY <3>6 DEF w
  <2>9. CASE f = g
    <3>1. PICK first \in Int, last \in Int :
            Framed(f, s, n, first, last) /\ Placed(t, f, Stop(t, f, s), first, last)
      BY DEF AsFed
    <3>2. first = t.direct[g].begin /\ last = t.direct[g].end
      BY <1>2, <2>9, <3>1 DEF Placed
    <3>3. Stop(w, f, s) = Len(t.scratch) + Len(text) /\ Len(text) = last - first + 1
      BY <2>2, <2>4, <2>9, <3>2 DEF Stop
    <3>7. w.slice[f].begin = Len(t.scratch) + 1
      BY <2>2, <2>9
    <3>4. Stop(w, f, s) - w.slice[f].begin = last - first
      BY <2>3, <3>3, <3>7
    <3>5. ASSUME NEW k \in first..last
          PROVE  w.scratch[w.slice[f].begin + (k - first)] = fed[k]
      <4>1. k - first + 1 \in 1..Len(text)
        BY <3>3
      <4>2. w.slice[f].begin + (k - first) = Len(t.scratch) + (k - first + 1)
        <5>1. Len(t.scratch) \in Int /\ k \in Int /\ first \in Int
          BY <2>3
        <5>2. (Len(t.scratch) + 1) + (k - first) = Len(t.scratch) + (k - first + 1)
          BY <5>1, Shifted
        <5> QED BY <3>7, <5>2
      <4>3. t.direct[g].begin + (k - first + 1) - 1 = k
        BY <3>2
      <4>4. w.scratch[Len(t.scratch) + (k - first + 1)] = text[k - first + 1]
        BY <2>5, <4>1
      <4>5. text[k - first + 1] = fed[t.direct[g].begin + (k - first + 1) - 1]
        BY <2>4, <4>1
      <4> QED BY <4>2, <4>3, <4>4, <4>5
    <3>6. Placed(w, f, Stop(w, f, s), first, last)
      BY <2>6, <2>9, <3>4, <3>5 DEF Placed
    <3> QED BY <3>1, <3>6 DEF AsFed, w
  <2> QED BY <2>8, <2>9
<1> QED
  BY <1>1, <1>2

\* kason_stream_preserve_direct keeps what it moves.
LEMMA PreservedContent ==
  ASSUME fed \in Seq(Byte), NEW t, NEW used \in SUBSET Fields, Sound(t, used, Len(fed)),
         Preserved(preserve_direct(t)),
         NEW f \in used, NEW s, s # EscapeState(f), NEW n \in Int, AsFed(t, f, s, n)
  PROVE  AsFed(preserve_direct(t), f, s, n)
<1> DEFINE keyed == copy_direct(t, "key")
<1>1. "key" \in Fields /\ "value" \in Fields
  BY DEF Fields
<1>2. keyed.direct["key"] = Null
  BY <1>1 DEF preserve_direct, Preserved
<1>3. Sound(keyed, used, Len(fed)) /\ AsFed(keyed, f, s, n)
  BY <1>1, <1>2, CopySound, CopiedContent
<1>4. preserve_direct(t) = copy_direct(keyed, "value")
  BY <1>2 DEF preserve_direct
<1> HIDE DEF keyed
<1> QED
  BY <1>1, <1>2, <1>3, <1>4, CopiedContent DEF Preserved

\* The last of the tokens that were moved ends with the scratch.
LEMMA LastEnds ==
  ASSUME NEW n \in Nat, NEW t, NEW used \in SUBSET Fields, Sound(t, used, n), Exact(t, used),
         NEW f \in used, f = "value" \/ "value" \notin used, t.direct[f] = Null
  PROVE  t.slice[f].end = Len(t.scratch)
<1>1. /\ Fields = {"key", "value"} /\ Len(t.scratch) \in Nat
      /\ \A g \in Fields : t.slice[g].begin \in Nat /\ t.slice[g].end \in Int
  BY DEF Fields, Sound, Tokens, Slice
<1>2. CASE f = "value"
  <2>1. Filled(t, used, "key") \in Int
    BY <1>1 DEF Filled
  <2>2. Filled(t, used, "value") = t.slice["value"].end - t.slice["value"].begin + 1
    BY <1>2 DEF Filled
  <2> QED BY <1>1, <1>2, <2>1, <2>2 DEF Exact, Tiled
<1>3. CASE f = "key"
  BY <1>1, <1>3 DEF Exact, Tiled, Filled
<1> QED
  BY <1>1, <1>2, <1>3

\* A step that leaves no token in use has nothing to keep.
LEMMA ContentNone ==
  ASSUME ~token'.has_key, state' \notin KeyStates \cup ValueStates
  PROVE  ContentInv'
<1>1. UsedBy(token'.has_key, state') = {}
  BY DEF UsedBy
<1> QED
  BY <1>1 DEF ContentInv

\* Nor has one after which the parser is not asked to go on.
LEMMA ContentInactive == ASSUME rejected' \/ callback_break' PROVE ContentInv'
BY DEF ContentInv, Active
LEMMA ContentReject == ASSUME NEW r \in Errors, Return(r) PROVE ContentInv'
BY ContentInactive DEF Return

\* A value that is committed clears the tokens.
LEMMA ContentCommit ==
  ASSUME NEW type, NEW next, next \notin KeyStates \cup ValueStates,
         NEW verdict, Commit(type, next, verdict)
  PROVE  ContentInv'
<1>1. CASE verdict = "BREAK"
  BY <1>1, ContentInactive DEF Commit, Break
<1>2. CASE verdict # "BREAK"
  BY <1>2, ContentNone DEF Commit, Cleared
<1> QED
  BY <1>1, <1>2

\* Between two calls everything fed has been read.
LEMMA IdleNext == CallInv /\ IdleInv /\ [Next]_vars => IdleInv'
<1> SUFFICES ASSUME CallInv, IdleInv, [Next]_vars PROVE IdleInv'
  OBVIOUS
<1>a. Len(fed) \in Nat /\ i \in 1..(Len(fed) + 1)
  BY DEF CallInv, CallTypes
<1>b. phase = "feed" => Active
  BY DEF CallInv, CallOrder, Active
<1>1. CASE phase' = "feed"
  BY <1>1 DEF IdleInv
<1>2. CASE rejected' \/ callback_break'
  BY <1>2 DEF IdleInv, Active
<1>3. CASE phase = "idle" /\ UNCHANGED <<i, fed>> /\ (Active' => Active)
  BY <1>3 DEF IdleInv
<1>4. ASSUME NEW r \in Errors, Return(r) PROVE IdleInv'
  BY <1>2, <1>4 DEF Return
<1>5. ASSUME phase = "feed", Advance PROVE IdleInv'
  BY <1>1, <1>5 DEF Advance, caller
<1>6. ASSUME NEW type, NEW next, phase = "feed", CommitInFeed(type, next) PROVE IdleInv'
  <2>1. PICK verdict \in Verdicts :
          /\ Commit(type, next, verdict)
          /\ IF verdict = "BREAK" THEN Return("SUCCESS") ELSE Advance
    BY <1>6 DEF CommitInFeed
  <2>2. CASE verdict = "BREAK"
    BY <1>2, <2>1, <2>2 DEF Commit, Break
  <2>3. CASE verdict # "BREAK"
    BY <1>5, <1>6, <2>1, <2>3
  <2> QED BY <2>2, <2>3
<1>7. CASE SkipWhitespace \/ RootEntries \/ RootScalar \/ CloseEmpty \/ OpenKey \/ FindValueSep
           \/ FindParamSep \/ OpenString \/ OpenGeneric \/ ContainerByte \/ ContainerClose
  BY <1>5, <1>7 DEF SkipWhitespace, RootEntries, RootScalar, CloseEmpty, OpenKey, FindValueSep,
       FindParamSep, OpenString, OpenGeneric, ContainerByte, ContainerClose, InByte, AtByte,
       AtContainerByte
<1>8. CASE RejectByte \/ ContainerMismatch \/ GenericByteFull
  BY <1>4, <1>8 DEF RejectByte, ContainerMismatch, GenericByteFull, Reject, Errors
<1>9. ASSUME NEW f \in Fields, TextByteFull(f) \/ TextControlChar(f) \/ EscapeRejected(f)
      PROVE  IdleInv'
  BY <1>4, <1>9 DEF TextByteFull, TextControlChar, EscapeRejected, Reject, Errors
<1>10. ASSUME NEW f \in Fields, TextBytes(f) PROVE IdleInv'
  <2>1. phase = "feed" /\ (Advance \/ \E last : ConsumeTo(last))
    BY <1>10 DEF TextBytes, AtByte
  <2> QED BY <1>1, <1>5, <2>1 DEF ConsumeTo, caller
<1>11. ASSUME NEW f \in Fields, BeginEscape(f) PROVE IdleInv'
  <2>1. phase = "feed" /\ (Advance \/ Return("BUFFER_FULL"))
    BY <1>11 DEF BeginEscape, InByte, AtByte
  <2> QED BY <1>4, <1>5, <2>1 DEF Errors
<1>12. ASSUME NEW f \in Fields, EscapeByte(f) PROVE IdleInv'
  BY <1>5, <1>12 DEF EscapeByte, AtByte
<1>13. CASE CloseKey \/ ContainerStringByte \/ ContainerOpen
  <2>1. phase = "feed" /\ (Advance \/ \E r \in Errors : Return(r))
    BY <1>13 DEF CloseKey, ContainerStringByte, ContainerOpen, InByte, AtByte,
         AtContainerByte, Reject, Errors
  <2> QED BY <1>4, <1>5, <2>1
<1>14. CASE CloseString
  BY <1>4, <1>6, <1>14 DEF CloseString, InByte, AtByte, Reject, Errors
<1>15. CASE GenericBytes
  <2>1. phase = "feed" /\ (Advance \/ \E last : ConsumeTo(last))
    BY <1>15 DEF GenericBytes, AtByte
  <2> QED BY <1>1, <1>5, <2>1 DEF ConsumeTo, caller
<1>16. CASE CommitGeneric
  BY <1>4, <1>6, <1>16 DEF CommitGeneric, AtByte, Reject, Errors
<1>17. CASE StartContainer
  BY <1>2, <1>5, <1>17 DEF StartContainer, AtByte, Break
<1>18. CASE EnterContainer
  BY <1>1, <1>18 DEF EnterContainer, AtByte, caller
<1>19. CASE ContainerEnd \/ ContainerChunkEnd
  <2>1. phase = "feed" /\ (Break \/ \E next : Leave(next))
    BY <1>19 DEF ContainerEnd, ContainerChunkEnd, AtContainerByte
  <2> QED BY <1>1, <1>2, <2>1 DEF Leave, caller, Break
<1>20. CASE FeedEnd
  <2>1. i > Len(fed) /\ UNCHANGED <<i, fed>>
    BY <1>20 DEF FeedEnd, Return
  <2> QED BY <1>a, <2>1 DEF IdleInv
<1>21. CASE Feed
  BY <1>1, <1>21 DEF Feed
<1>22. CASE CallAfterBreak
  BY <1>3, <1>22 DEF CallAfterBreak, input, stream, control, Active
<1>23. ASSUME NEW r, EndsWith(r), callback_break' = callback_break PROVE IdleInv'
  BY <1>3, <1>23 DEF EndsWith, input, Active
<1>24. CASE FinishComplete \/ FinishStale \/ FinishIncomplete
  BY <1>23, <1>24 DEF FinishComplete, FinishStale, FinishIncomplete, stream, control
<1>25. CASE FinishScalar
  <2>1. CASE UNCHANGED stream
    BY <1>23, <1>25, <2>1 DEF FinishScalar, stream, control
  <2>2. ASSUME NEW type, NEW verdict, Commit(type, "COMPLETE", verdict), EndsWith("SUCCESS")
        PROVE  IdleInv'
    <3>1. callback_break' \/ callback_break' = callback_break
      BY <2>2 DEF Commit, Break
    <3> QED BY <1>2, <1>23, <2>2, <3>1
  <2> QED BY <1>25, <2>1, <2>2 DEF FinishScalar
<1>26. CASE Reset
  <2>1. fed' = << >> /\ i' = 1 /\ Len(<< >>) = 0
    BY <1>26 DEF Reset
  <2> QED BY <2>1 DEF IdleInv
<1>27. CASE UNCHANGED vars
  BY <1>27 DEF vars, caller, stream, control, IdleInv, Active
<1> QED
  BY <1>7, <1>8, <1>9, <1>10, <1>11, <1>12, <1>13, <1>14, <1>15, <1>16, <1>17, <1>18,
     <1>19, <1>20, <1>21, <1>22, <1>24, <1>25, <1>26, <1>27 DEF Next, Step, Call

\* What a step that hands over no chunk has to show.
LEMMA ContentFrom ==
  ASSUME fed' = fed, NEW m, i' = m,
         \A f \in UsedBy(token'.has_key, state') : AsFed(token', f, state', m)
  PROVE  ContentInv'
BY DEF ContentInv, AsFed, Framed, Placed, Stop, ReadIn, UsedBy

\* The key that is finished stays what it is while its value is read.
LEMMA KeyKept ==
  ASSUME NEW n \in Nat, NEW t, NEW used \in SUBSET Fields, Sound(t, used, n), "key" \in used,
         NEW u \in Tokens, u.direct["key"] = t.direct["key"], u.slice["key"] = t.slice["key"],
         \A k \in 1..Len(t.scratch) : u.scratch[k] = t.scratch[k],
         NEW s, NEW r, ~ReadIn("key", s), ~ReadIn("key", r),
         NEW last \in Int, NEW m \in Int, last <= m, AsFed(t, "key", s, last)
  PROVE  AsFed(u, "key", r, m)
<1>1. /\ "key" \in Fields /\ t \in Tokens /\ Len(t.scratch) \in Nat
      /\ t.slice["key"].end \in Int
  BY DEF Fields, Sound, Tokens, Slice
<1>2. Stop(t, "key", s) = t.slice["key"].end /\ Stop(u, "key", r) = t.slice["key"].end
  BY DEF Stop, ReadIn, EscapeState, KeyStates
<1>3. t.direct["key"] = Null =>
        1 <= t.slice["key"].begin /\ t.slice["key"].end <= Len(t.scratch)
  BY DEF Sound
<1>4. t.direct["key"] = Null => \A k \in 1..Stop(t, "key", s) : u.scratch[k] = t.scratch[k]
  BY <1>1, <1>2, <1>3
<1> QED
  BY <1>1, <1>2, <1>3, <1>4, CarriedContent

\* A value begins in the chunk, behind the key if there is one.
LEMMA ContentOpened ==
  ASSUME CallInv, TokenInv, ContentInv, Active, phase = "feed", Advance,
         state \in {"FIND_ROOT", "FIND_VALUE_BEGIN"},
         NEW p \in Int, token' = PointAt(token, "value", p, i),
         \/ p = i /\ state' = "FIND_GENERIC_END"
         \/ p = i + 1 /\ fed[i] = QUOTE /\ state' = "FIND_STRING_END"
  PROVE  ContentInv'
<1>1. /\ token \in Tokens /\ i \in Nat \ {0} /\ Len(fed) \in Nat
      /\ Fields = {"key", "value"}
      /\ UsedBy(token.has_key, state) \in SUBSET Fields
      /\ Sound(token, UsedBy(token.has_key, state), Len(fed))
  <2>1. i \in Nat \ {0} /\ Len(fed) \in Nat
    BY DEF CallInv, CallTypes
  <2>2. Fields = {"key", "value"} /\ UsedBy(token.has_key, state) \in SUBSET Fields
    BY DEF UsedBy, Fields
  <2>3. Sound(token, UsedBy(token.has_key, state), Len(fed))
    BY DEF TokenInv
  <2>4. token \in Tokens
    BY <2>3 DEF Sound
  <2> QED BY <2>1, <2>2, <2>3, <2>4
<1>2. fed' = fed /\ i' = i + 1
  BY DEF Advance, caller
<1> DEFINE at == [begin |-> p, end |-> i]
<1>3. /\ token'.scratch = token.scratch /\ token'.slice = token.slice
      /\ token'.direct["value"] = at /\ token'.direct["key"] = token.direct["key"]
      /\ token'.has_key = token.has_key
  BY <1>1 DEF PointAt, Tokens
<1>4. AsFed(token', "value", state', i + 1)
  BY <1>1, <1>3, OpenedContent DEF ReadIn, ValueStates
<1>5. ASSUME "key" \in UsedBy(token'.has_key, state') PROVE AsFed(token', "key", state', i + 1)
  <2>1. ~ReadIn("key", state) /\ ~ReadIn("key", state')
    BY DEF ReadIn, KeyStates
  <2>2. token.has_key
    BY <1>3, <1>5, <2>1 DEF UsedBy, ReadIn
  <2>3. "key" \in UsedBy(token.has_key, state)
    BY <2>2 DEF UsedBy, Fields
  <2>4. AsFed(token, "key", state, i)
    BY <2>3 DEF ContentInv
  <2>5. token' \in Tokens
    <3>1. at \in Slice
      BY <1>1 DEF Slice
    <3>2. token' = [token EXCEPT !.direct = [token.direct EXCEPT !["value"] = at]]
      BY DEF PointAt
    <3>3. [token.direct EXCEPT !["value"] = at] \in [Fields -> Slice]
      BY <1>1, <3>1 DEF Tokens
    <3> HIDE DEF at
    <3> QED BY <1>1, <3>2, <3>3 DEF Tokens
  <2> QED BY <1>1, <1>3, <2>1, <2>3, <2>4, <2>5, KeyKept
<1>6. \A f \in UsedBy(token'.has_key, state') : AsFed(token', f, state', i + 1)
  BY <1>4, <1>5 DEF UsedBy, Fields
<1> QED
  BY <1>2, <1>6, ContentFrom

\* A byte that is appended to the token f keeps both tokens.
LEMMA ContentGrown ==
  ASSUME CallInv, TokenInv, ContentInv, ExactInv, Active, phase = "feed", i <= Len(fed),
         Room(token) > 0, Advance, NEW f \in Fields, ReadIn(f, state), ReadIn(f, state'),
         state' # "FIND_GENERIC_END" => state # "FIND_GENERIC_END",
         token.direct[f] = Null, NEW more, more = Grown(token, fed[i], f),
         token'.scratch = more.scratch, token'.slice = more.slice,
         token'.direct = more.direct, token'.has_key = more.has_key, token' \in Tokens
  PROVE  ContentInv'
<1> DEFINE used == UsedBy(token.has_key, state)
<1>1. /\ token \in Tokens /\ i \in Nat \ {0} /\ Len(fed) \in Nat /\ fed[i] \in Byte
      /\ used \in SUBSET Fields /\ Sound(token, used, Len(fed)) /\ Len(token.scratch) \in Nat
      /\ token.scratch \in Seq(Byte)
  BY DEF CallInv, CallTypes, TokenInv, Sound, UsedBy, Tokens
<1>2. fed' = fed /\ i' = i + 1
  BY DEF Advance, caller
<1>3. /\ f \in used
      /\ f = "value" \/ "value" \notin used
      /\ UsedBy(token.has_key, state') = used
      /\ f = "value" => ~ReadIn("key", state) /\ ~ReadIn("key", state')
  BY DEF UsedBy, ReadIn, KeyStates, ValueStates, Fields
<1>4. /\ token'.scratch = Append(token.scratch, fed[i]) /\ token'.direct = token.direct
      /\ token'.has_key = token.has_key
      /\ token'.slice[f].begin = token.slice[f].begin
      /\ token'.slice[f].end = Len(token.scratch) + 1
      /\ \A g \in Fields \ {f} : token'.slice[g] = token.slice[g]
  <2> DEFINE longer == append_scratch(token, fed[i])
  <2>1. /\ Sound(longer, used, Len(fed)) /\ longer.scratch = Append(token.scratch, fed[i])
        /\ longer.slice = token.slice /\ longer.direct = token.direct
        /\ longer.has_key = token.has_key
    BY <1>1, AppendSound
  <2>2. longer \in Tokens
    BY <2>1 DEF Sound
  <2>3. more = [longer EXCEPT !.slice[f].end = Len(token.scratch) + 1]
    BY DEF Grown
  <2> HIDE DEF longer
  <2>4. /\ more.scratch = longer.scratch /\ more.direct = longer.direct
        /\ more.has_key = longer.has_key
        /\ more.slice = [longer.slice EXCEPT ![f].end = Len(token.scratch) + 1]
    BY <2>2, <2>3 DEF Tokens
  <2>5. longer.slice \in [Fields -> Slice] /\ longer.slice[f] \in Slice
    BY <2>2 DEF Tokens
  <2>6. /\ more.slice[f].begin = longer.slice[f].begin
        /\ more.slice[f].end = Len(token.scratch) + 1
        /\ \A g \in Fields \ {f} : more.slice[g] = longer.slice[g]
    BY <2>4, <2>5 DEF Slice
  <2> QED BY <2>1, <2>4, <2>6
<1>5. Len(token'.scratch) = Len(token.scratch) + 1
      /\ \A k \in 1..Len(token.scratch) : token'.scratch[k] = token.scratch[k]
  BY <1>1, <1>4, AppendProperties
<1>6. Stop(token, f, state) = Len(token.scratch)
  <2>1. CASE state = EscapeState(f)
    BY <2>1 DEF Stop
  <2>2. CASE state # EscapeState(f)
    <3>1. state \notin Escapes \cup {"STREAM_CONTAINER"}
      BY <2>2 DEF ReadIn, KeyStates, ValueStates, EscapeState, Escapes, Fields
    <3>2. Exact(token, used)
      BY <3>1 DEF ExactInv, ExactAt
    <3> HIDE DEF used
    <3>3. token.slice[f].end = Len(token.scratch)
      BY <1>1, <1>3, <3>2, LastEnds
    <3> QED BY <2>2, <3>3 DEF Stop
  <2> QED BY <2>1, <2>2
<1>7. Stop(token', f, state') = Len(token.scratch) + 1
  BY <1>4, <1>5 DEF Stop
<1>8. 1 <= token.slice[f].begin
  BY <1>1, <1>3 DEF Sound
<1>9. AsFed(token, f, state, i)
  BY <1>3 DEF ContentInv
<1>10. AsFed(token', f, state', i + 1)
  BY <1>1, <1>4, <1>6, <1>7, <1>8, <1>9, GrownContent
<1>11. ASSUME "key" \in used, f = "value" PROVE AsFed(token', "key", state', i + 1)
  <2>1. AsFed(token, "key", state, i)
    BY <1>11 DEF ContentInv
  <2>2. token'.direct["key"] = token.direct["key"] /\ token'.slice["key"] = token.slice["key"]
    BY <1>4, <1>11 DEF Fields
  <2> HIDE DEF used
  <2>3. /\ Len(fed) \in Nat /\ used \in SUBSET Fields /\ Sound(token, used, Len(fed))
        /\ token' \in Tokens /\ i \in Int /\ i + 1 \in Int /\ i <= i + 1
    BY <1>1
  <2>4. ~ReadIn("key", state) /\ ~ReadIn("key", state')
    BY <1>3, <1>11
  <2>5. \A k \in 1..Len(token.scratch) : token'.scratch[k] = token.scratch[k]
    BY <1>5
  <2> QED BY <1>11, <2>1, <2>2, <2>3, <2>4, <2>5, KeyKept
<1>12. UsedBy(token'.has_key, state') = used
  BY <1>3, <1>4
<1>13. \A g \in used : g = f \/ (g = "key" /\ f = "value")
  BY <1>3 DEF UsedBy, Fields
<1> HIDE DEF used
<1>14. \A g \in UsedBy(token'.has_key, state') : AsFed(token', g, state', i + 1)
  BY <1>10, <1>11, <1>12, <1>13
<1> QED
  BY <1>2, <1>14, ContentFrom

\* A run of bytes of the token f in the chunk keeps both tokens.
LEMMA ContentRun ==
  ASSUME CallInv, TokenInv, PointersLive, ContentInv, Active, phase = "feed",
         NEW f \in Fields, ReadIn(f, state), state' = state,
         token.direct[f] # Null, NEW last \in i..Len(fed),
         token' = [token EXCEPT !.direct[f].end = last], ConsumeTo(last)
  PROVE  ContentInv'
<1> DEFINE used == UsedBy(token.has_key, state)
<1>1. /\ token \in Tokens /\ i \in Nat \ {0} /\ Len(fed) \in Nat
      /\ used \in SUBSET Fields /\ Sound(token, used, Len(fed))
      /\ token.direct \in [Fields -> Slice] /\ token.direct[f] \in Slice
  BY DEF CallInv, CallTypes, TokenInv, Sound, UsedBy, Tokens
<1>2. fed' = fed /\ i' = last + 1
  BY DEF ConsumeTo, caller
<1>3. /\ f \in used
      /\ f = "value" \/ "value" \notin used
      /\ f = "value" => ~ReadIn("key", state)
  BY DEF UsedBy, ReadIn, KeyStates, ValueStates, Fields
<1>4. /\ token'.scratch = token.scratch /\ token'.slice = token.slice
      /\ token'.has_key = token.has_key
      /\ token'.direct = [token.direct EXCEPT ![f].end = last]
  BY <1>1 DEF Tokens
<1>5. /\ token'.direct[f].begin = token.direct[f].begin /\ token'.direct[f].end = last
      /\ \A g \in Fields \ {f} : token'.direct[g] = token.direct[g]
  BY <1>1, <1>4 DEF Slice
<1>6. token'.direct[f] # Null
  BY <1>1, <1>5 DEF Null
<1>7. token' \in Tokens
  <2> HIDE DEF used
  <2>1. Sound([token EXCEPT !.direct[f].end = last], used, Len(fed))
    BY <1>1, <1>3, RunSound
  <2> QED BY <2>1 DEF Sound
<1>8. AsFed(token, f, state, i)
  BY <1>3 DEF ContentInv
<1>9. AsFed(token', f, state', last + 1)
  <2>1. i <= last + 1 /\ last + 1 \in Int /\ token'.direct[f].end = (last + 1) - 1
    BY <1>1, <1>5
  <2>2. i \in Int /\ ReadIn(f, state) /\ token.direct[f] # Null
    BY <1>1
  <2> HIDE DEF used
  <2>3. AsFed(token', f, state, last + 1)
    BY <1>5, <1>6, <1>8, <2>1, <2>2, RunContent
  <2> QED BY <2>3
<1>10. ASSUME "key" \in used, f = "value" PROVE AsFed(token', "key", state', last + 1)
  <2>1. AsFed(token, "key", state, i)
    BY <1>10 DEF ContentInv
  <2>2. token'.direct["key"] = token.direct["key"] /\ token'.slice["key"] = token.slice["key"]
    BY <1>4, <1>5, <1>10 DEF Fields
  <2>3. i <= last + 1 /\ last + 1 \in Int /\ i \in Int
    BY <1>1
  <2> HIDE DEF used
  <2> QED BY <1>1, <1>3, <1>4, <1>7, <1>10, <2>1, <2>2, <2>3, KeyKept
<1>11. UsedBy(token'.has_key, state') = used
  BY <1>4
<1>12. \A g \in used : g = f \/ (g = "key" /\ f = "value")
  BY <1>3 DEF UsedBy, Fields
<1> HIDE DEF used
<1>13. \A g \in UsedBy(token'.has_key, state') : AsFed(token', g, state', last + 1)
  BY <1>9, <1>10, <1>11, <1>12
<1> QED
  BY <1>2, <1>13, ContentFrom

\* Every step keeps the bytes of the tokens in use.
LEMMA ContentNext ==
  CallInv /\ TokenInv /\ PointersLive /\ HeldInv /\ ExactInv /\ IdleInv /\ ContentInv
    /\ HeldInv' /\ [Next]_vars => ContentInv'
<1> SUFFICES ASSUME CallInv, TokenInv, PointersLive, HeldInv, ExactInv, IdleInv, ContentInv,
                    HeldInv', [Next]_vars
             PROVE  ContentInv'
  OBVIOUS
<1> DEFINE used == UsedBy(token.has_key, state)
<1>a. /\ fed \in Seq(Byte) /\ Len(fed) \in Nat /\ i \in 1..(Len(fed) + 1)
      /\ used \in SUBSET Fields /\ Sound(token, used, Len(fed)) /\ token \in Tokens
      /\ \A k \in 1..Len(fed) : fed[k] \in Byte
  BY DEF CallInv, CallTypes, UsedBy, TokenInv, Sound
<1>b. phase = "feed" => Active
  BY DEF CallInv, CallOrder, Active
<1>c. Active => ExactAt(token, used, state)
  BY DEF ExactInv
<1>d. \A f \in Fields : /\ ReadIn(f, TextState(f)) /\ ReadIn(f, EscapeState(f))
                        /\ TextState(f) # "FIND_GENERIC_END"
                        /\ EscapeState(f) # "FIND_GENERIC_END"
  BY DEF ReadIn, TextState, EscapeState, KeyStates, ValueStates, Fields
<1>1. CASE \E r \in Errors : Return(r)
  BY <1>1, ContentReject
<1>2. CASE state' = "STREAM_CONTAINER"
  BY <1>2, ContentNone DEF HeldInv, KeyStates, ValueStates
<1>3. CASE Break
  BY <1>3, ContentInactive DEF Break
<1>4. CASE token' = Cleared /\ state' \in {"FIND_ROOT", "FIND_PARAM_SEP"}
  BY <1>4, ContentNone DEF Cleared, KeyStates, ValueStates
<1>5. ASSUME NEW type, NEW next, next \notin KeyStates \cup ValueStates,
             CommitInFeed(type, next)
      PROVE  ContentInv'
  BY <1>5, ContentCommit DEF CommitInFeed
<1>6. CASE UNCHANGED <<token, state, fed, i>> /\ (Active' => Active)
  <2>1. CASE ~Active'
    BY <2>1 DEF ContentInv
  <2>2. CASE Active'
    <3>1. \A f \in UsedBy(token'.has_key, state') : AsFed(token', f, state', i)
      BY <1>6, <2>2 DEF ContentInv
    <3> QED BY <1>6, <3>1, ContentFrom
  <2> QED BY <2>1, <2>2
<1>7. CASE SkipWhitespace \/ RootEntries \/ CloseEmpty \/ FindValueSep \/ FindParamSep
  <2>1. token' = token /\ phase = "feed" /\ Advance
    BY <1>7 DEF SkipWhitespace, RootEntries, CloseEmpty, FindValueSep, FindParamSep, InByte,
         AtByte, stream
  <2>2. /\ state \notin KeyStates \cup ValueStates
        /\ state' \notin KeyStates \cup ValueStates
    BY <1>7 DEF SkipWhitespace, RootEntries, CloseEmpty, FindValueSep, FindParamSep, InByte,
         AtByte, Goto, AfterSeparator, Skipping, stream, control, KeyStates, ValueStates
  <2>3. fed' = fed /\ i' = i + 1 /\ UsedBy(token'.has_key, state') = used
    BY <2>1, <2>2 DEF Advance, caller, UsedBy
  <2>4. ASSUME NEW f \in used PROVE AsFed(token', f, state', i + 1)
    <3>1. f = "key" /\ AsFed(token, f, state, i)
      BY <1>b, <2>1, <2>2, <2>4 DEF UsedBy, ContentInv, Fields
    <3>2. ~ReadIn(f, state) /\ ~ReadIn(f, state') /\ i <= i + 1 /\ i \in Int /\ i + 1 \in Int
      BY <1>a, <2>2, <3>1 DEF ReadIn
    <3> HIDE DEF used
    <3> QED BY <1>a, <2>1, <2>4, <3>1, <3>2, KeyKept
  <2> QED BY <2>3, <2>4, ContentFrom
<1>8. CASE RootScalar
  <2>1. /\ phase = "feed" /\ state = "FIND_ROOT" /\ Advance
        /\ \/ /\ fed[i] = QUOTE /\ state' = "FIND_STRING_END"
              /\ token' = PointAt(token, "value", i + 1, i)
           \/ state' = "FIND_GENERIC_END" /\ token' = PointAt(token, "value", i, i)
    BY <1>8 DEF RootScalar, AtByte
  <2> QED BY <1>a, <1>b, <2>1, ContentOpened
<1>9. CASE OpenKey
  <2>1. /\ token' = PointAt(Cleared, "key", i + 1, i) /\ state' = "FIND_KEY_END"
        /\ fed[i] = QUOTE /\ Advance
    BY <1>9 DEF OpenKey, InByte, Goto
  <2>2. token'.direct["key"] = [begin |-> i + 1, end |-> i]
    BY <2>1 DEF PointAt, Cleared, Fields
  <2>3. "key" \in Fields /\ i \in Int /\ 1 <= i /\ ReadIn("key", state')
    BY <1>a, <2>1 DEF Fields, ReadIn, KeyStates
  <2>4. AsFed(token', "key", state', i + 1)
    BY <2>1, <2>2, <2>3, OpenedContent
  <2>5. \A f \in UsedBy(token'.has_key, state') : f = "key"
    BY <2>1 DEF UsedBy, ValueStates
  <2> QED BY <2>1, <2>4, <2>5, ContentFrom DEF Advance, caller
<1>10. CASE OpenString
  <2>1. /\ phase = "feed" /\ state = "FIND_VALUE_BEGIN" /\ Advance
        /\ fed[i] = QUOTE /\ state' = "FIND_STRING_END"
        /\ token' = PointAt(token, "value", i + 1, i)
    BY <1>10 DEF OpenString, InByte, AtByte, Goto
  <2> QED BY <1>a, <1>b, <2>1, ContentOpened
<1>11. CASE OpenGeneric
  <2>1. /\ phase = "feed" /\ state = "FIND_VALUE_BEGIN" /\ Advance
        /\ state' = "FIND_GENERIC_END" /\ token' = PointAt(token, "value", i, i)
    BY <1>11 DEF OpenGeneric, AtByte, Goto
  <2> QED BY <1>a, <1>b, <2>1, ContentOpened
<1>12. ASSUME NEW f \in Fields, phase = "feed", i <= Len(fed), Room(token) > 0,
              ReadIn(f, state), state' = state, token.direct[f] = Null, Advance,
              token' = Grown(token, fed[i], f)
       PROVE  ContentInv'
  <2>1. f = "value" \/ "value" \notin used
    BY <1>12 DEF UsedBy, ReadIn, KeyStates, ValueStates, Fields
  <2>2. token' \in Tokens
    <3>1. fed[i] \in Byte
      BY <1>a, <1>12
    <3> HIDE DEF used
    <3>2. Sound(Grown(token, fed[i], f), used, Len(fed))
      BY <1>a, <1>12, <2>1, <3>1, GrowSound
    <3> QED BY <1>12, <3>2 DEF Sound
  <2> QED BY <1>b, <1>12, <2>2, ContentGrown
<1>13. ASSUME NEW f \in Fields, TextBytes(f) PROVE ContentInv'
  <2>1. phase = "feed" /\ i <= Len(fed) /\ ReadIn(f, state) /\ state' = state
    BY <1>d, <1>13 DEF TextBytes, AtByte, control
  <2>2. ASSUME NEW last \in i..Len(fed), token.direct[f] # Null, ConsumeTo(last),
               token' = [token EXCEPT !.direct[f].end = last]
        PROVE  ContentInv'
    BY <1>b, <2>1, <2>2, ContentRun
  <2>3. CASE Room(token) > 0 /\ token.direct[f] = Null /\ Advance
             /\ token' = Grown(token, fed[i], f)
    BY <1>12, <2>1, <2>3
  <2> QED BY <1>13, <2>2, <2>3 DEF TextBytes, Grown
<1>14. ASSUME NEW f \in Fields, TextByteFull(f) PROVE ContentInv'
  BY <1>1, <1>14 DEF TextByteFull, Errors
<1>15. ASSUME NEW f \in Fields, BeginEscape(f) PROVE ContentInv'
  <2> DEFINE kept == preserve_direct(token)
             fits == Preserved(kept) /\ Room(kept) > 0
             more == append_scratch(kept, BACKSLASH)
  <2>1. CASE Return("BUFFER_FULL")
    BY <1>1, <2>1 DEF Errors
  <2>2. CASE fits
    <3>1. /\ phase = "feed" /\ state = TextState(f) /\ state' = EscapeState(f)
          /\ fed[i] = BACKSLASH /\ Advance /\ token' = WithHexLeft(more, 0)
      BY <1>15, <2>2 DEF BeginEscape, InByte, AtByte, Goto, WithHexLeft
    <3>2. /\ f \in used /\ state \notin Escapes \cup {"STREAM_CONTAINER"}
          /\ \A g \in Fields : state # EscapeState(g)
      BY <3>1 DEF UsedBy, TextState, EscapeState, KeyStates, ValueStates, Escapes, Fields
    <3>3. f = "value" \/ "value" \notin used
      BY <3>1 DEF UsedBy, TextState, ValueStates, Fields
    <3>4. UsedBy(token.has_key, state') = used
      BY <3>1 DEF UsedBy, TextState, EscapeState, KeyStates, ValueStates, Fields
    <3>5. \A g \in used : AsFed(token, g, state, i)
      BY <1>b, <3>1 DEF ContentInv
    <3>6. Exact(token, used)
      BY <1>b, <1>c, <3>1, <3>2 DEF ExactAt
    <3>7. used \in SUBSET Fields /\ Sound(token, used, Len(fed)) /\ i \in Int
      BY <1>a
    <3> HIDE DEF used
    <3>8. Exact(kept, used) /\ Sound(kept, used, Len(fed)) /\ kept.has_key = token.has_key
      BY <1>a, <2>2, <3>6, <3>7, PreserveExact, PreserveSound
    <3>9. \A g \in used : AsFed(kept, g, state, i)
      BY <1>a, <2>2, <3>2, <3>5, <3>7, PreservedContent
    <3>10. Room(kept) > 0 /\ \A g \in Fields : kept.direct[g] = Null
      BY <2>2 DEF Preserved
    <3>11. BACKSLASH \in Byte
      BY DEF Byte, BACKSLASH
    <3> HIDE DEF kept
    <3>12. /\ Sound(more, used, Len(fed)) /\ more.slice = kept.slice
           /\ more.scratch = Append(kept.scratch, BACKSLASH)
           /\ more.direct = kept.direct /\ more.has_key = kept.has_key
      BY <1>a, <3>7, <3>8, <3>10, <3>11, AppendSound
    <3>13. more \in Tokens /\ kept \in Tokens
      BY <3>8, <3>12 DEF Sound
    <3> HIDE DEF more
    <3>14. /\ token'.slice = kept.slice /\ token'.direct = kept.direct
           /\ token'.has_key = kept.has_key /\ token'.scratch = Append(kept.scratch, fed[i])
           /\ token' \in Tokens
      <4>1. /\ token'.slice = more.slice /\ token'.direct = more.direct
            /\ token'.has_key = more.has_key /\ token'.scratch = more.scratch
        BY <3>1, <3>13 DEF WithHexLeft, Tokens
      <4>2. token' \in Tokens
        <5>1. Sound(WithHexLeft(more, 0), used, Len(fed))
          BY <1>a, <3>7, <3>12, FlagSound
        <5> QED BY <3>1, <5>1 DEF Sound
      <4> QED BY <3>1, <3>12, <4>1, <4>2
    <3>15. /\ kept.scratch \in Seq(Byte) /\ Len(kept.scratch) \in Nat
           /\ Len(token'.scratch) = Len(kept.scratch) + 1
           /\ \A k \in 1..Len(kept.scratch) : token'.scratch[k] = kept.scratch[k]
      <4>1. kept.scratch \in Seq(Byte)
        BY <3>13 DEF Tokens
      <4> QED BY <3>1, <3>11, <3>14, <4>1, AppendProperties
    <3>16. AsFed(token', f, state', i + 1)
      <4>1. kept.slice[f].end = Len(kept.scratch)
        BY <1>a, <3>2, <3>3, <3>7, <3>8, <3>10, LastEnds
      <4>2. Stop(kept, f, state) = Len(kept.scratch)
        BY <3>2, <4>1 DEF Stop
      <4>3. Stop(token', f, state') = Len(kept.scratch) + 1
        BY <3>1, <3>15 DEF Stop
      <4>4. 1 <= kept.slice[f].begin
        BY <3>2, <3>8, <3>10 DEF Sound
      <4>5. AsFed(kept, f, state, i)
        BY <3>2, <3>9
      <4>6. ReadIn(f, state) /\ ReadIn(f, state') /\ state # "FIND_GENERIC_END"
        BY <1>d, <3>1
      <4>7. fed[i] \in Byte /\ token'.slice[f].begin = kept.slice[f].begin
        BY <3>1, <3>11, <3>14
      <4> QED
        BY <3>7, <3>10, <3>13, <3>14, <4>2, <4>3, <4>4, <4>5, <4>6, <4>7, GrownContent
    <3>17. ASSUME "key" \in used, f = "value" PROVE AsFed(token', "key", state', i + 1)
      <4>1. ~ReadIn("key", state) /\ ~ReadIn("key", state')
        BY <3>1, <3>17 DEF ReadIn, TextState, EscapeState, KeyStates
      <4>2. AsFed(kept, "key", state, i) /\ i + 1 \in Int /\ i <= i + 1
        BY <3>7, <3>9, <3>17
      <4> QED BY <1>a, <3>7, <3>8, <3>14, <3>15, <3>17, <4>1, <4>2, KeyKept
    <3>18. \A g \in used : g = f \/ (g = "key" /\ f = "value")
      BY <3>3, <3>7 DEF Fields
    <3>19. UsedBy(token'.has_key, state') = used
      BY <3>4, <3>8, <3>14
    <3> QED BY <3>1, <3>16, <3>17, <3>18, <3>19, ContentFrom DEF Advance, caller
  <2> QED BY <1>15, <2>1, <2>2 DEF BeginEscape
<1>16. ASSUME NEW f \in Fields, EscapeByte(f) PROVE ContentInv'
  <2> DEFINE t == Grown(token, fed[i], f)
             left == HexLeftAfter(token, fed[i])
  <2>1. /\ phase = "feed" /\ i <= Len(fed) /\ Room(token) > 0 /\ Advance
        /\ state = EscapeState(f) /\ state' \in {TextState(f), EscapeState(f)}
        /\ token' = WithHexLeft(t, left)
    BY <1>16 DEF EscapeByte, AtByte, Goto, Grown, WithHexLeft
  <2>2. token.direct[f] = Null
    BY <1>b, <1>c, <2>1 DEF ExactAt, EscapeState, Escapes, Preserved, Fields
  <2>3. f = "value" \/ "value" \notin used
    BY <2>1 DEF UsedBy, EscapeState, ValueStates, Fields
  <2>4. t \in Tokens
    BY <1>a, <2>1, <2>3, GrowSound DEF Sound
  <2>5. left \in 0..4
    BY <1>a, <1>16 DEF HexLeftAfter, Tokens
  <2>6. ReadIn(f, state) /\ ReadIn(f, state') /\ state # "FIND_GENERIC_END"
    BY <1>d, <2>1
  <2>7. t = Grown(token, fed[i], f)
    OBVIOUS
  <2> HIDE DEF t, left
  <2>8. /\ token'.slice = t.slice /\ token'.direct = t.direct /\ token' \in Tokens
        /\ token'.has_key = t.has_key /\ token'.scratch = t.scratch
    BY <2>1, <2>4, <2>5 DEF WithHexLeft, Tokens
  <2> QED BY <1>b, <2>1, <2>2, <2>6, <2>7, <2>8, ContentGrown
<1>17. ASSUME NEW f \in Fields, TextControlChar(f) \/ EscapeRejected(f) PROVE ContentInv'
  BY <1>1, <1>17 DEF TextControlChar, EscapeRejected, Reject, Errors
<1>18. CASE CloseKey
  <2>1. CASE Reject("ERROR")
    BY <1>1, <2>1 DEF Reject, Errors
  <2>2. CASE token' = WithKey(token) /\ Goto("FIND_VALUE_SEP") /\ Advance
    <3>1. /\ phase = "feed" /\ state = "FIND_KEY_END" /\ state' = "FIND_VALUE_SEP"
          /\ fed[i] = QUOTE /\ fed' = fed /\ i' = i + 1
      BY <1>18, <2>2 DEF CloseKey, InByte, AtByte, Goto, Advance, caller
    <3>2. /\ token'.scratch = token.scratch /\ token'.slice = token.slice
          /\ token'.direct = token.direct
      BY <1>a, <2>2 DEF WithKey, Tokens
    <3>3. "key" \in used
      BY <3>1 DEF UsedBy, KeyStates, Fields
    <3>4. PICK first \in Int, last \in Int :
            /\ Framed("key", state, i, first, last)
            /\ Placed(token, "key", Stop(token, "key", state), first, last)
      BY <1>b, <3>1, <3>3 DEF ContentInv, AsFed
    <3>5. last = i - 1
      BY <3>1, <3>4 DEF Framed, ReadIn, KeyStates
    <3>6. last + 1 = i /\ last + 1 < i + 1
      BY <1>a, <3>5
    <3>7. Framed("key", state', i + 1, first, last)
      BY <3>1, <3>4, <3>6 DEF Framed, ReadIn, KeyStates
    <3>8. Stop(token', "key", state') = Stop(token, "key", state)
      BY <3>1, <3>2 DEF Stop, EscapeState
    <3>9. Placed(token', "key", Stop(token', "key", state'), first, last)
      BY <3>2, <3>4, <3>8 DEF Placed
    <3>10. AsFed(token', "key", state', i + 1)
      BY <3>7, <3>9 DEF AsFed
    <3>11. \A f \in UsedBy(token'.has_key, state') : f = "key"
      BY <3>1 DEF UsedBy, ValueStates
    <3> QED BY <3>1, <3>10, <3>11, ContentFrom
  <2> QED BY <1>18, <2>1, <2>2 DEF CloseKey, WithKey
<1>19. CASE CloseString
  <2>1. CASE Reject("ERROR")
    BY <1>1, <2>1 DEF Reject, Errors
  <2> QED BY <1>5, <1>19, <2>1 DEF CloseString, KeyStates, ValueStates
<1>20. CASE GenericBytes
  <2>1. /\ phase = "feed" /\ i <= Len(fed) /\ state = "FIND_GENERIC_END" /\ state' = state
        /\ "value" \in Fields /\ ReadIn("value", state)
    BY <1>20 DEF GenericBytes, AtByte, control, Fields, ReadIn, ValueStates
  <2>2. ASSUME NEW last \in i..Len(fed), token.direct["value"] # Null, ConsumeTo(last),
               token' = [token EXCEPT !.direct["value"].end = last]
        PROVE  ContentInv'
    BY <1>b, <2>1, <2>2, ContentRun
  <2>3. CASE Room(token) > 0 /\ token.direct["value"] = Null /\ Advance
             /\ token' = Grown(token, fed[i], "value")
    BY <1>12, <2>1, <2>3
  <2> QED BY <1>20, <2>2, <2>3 DEF GenericBytes, Grown
<1>21. CASE GenericByteFull
  BY <1>1, <1>21 DEF GenericByteFull, Errors
<1>22. CASE CommitGeneric
  <2>1. CASE Reject("ERROR")
    BY <1>1, <2>1 DEF Reject, Errors
  <2>2. AfterGeneric(fed[i]) \notin KeyStates \cup ValueStates
    BY DEF AfterGeneric, AfterSeparator, KeyStates, ValueStates
  <2> QED BY <1>5, <1>22, <2>1, <2>2 DEF CommitGeneric
<1>23. CASE StartContainer
  BY <1>2, <1>3, <1>23 DEF StartContainer, Goto
<1>24. CASE ContainerOpen \/ ContainerClose \/ ContainerStringByte \/ ContainerByte
            \/ EnterContainer
  <2>1. state = "STREAM_CONTAINER"
    BY <1>24 DEF ContainerOpen, ContainerClose, ContainerStringByte, ContainerByte,
           EnterContainer, AtContainerByte, AtByte, CallInv, CallOrder
  <2>2. state' = state \/ \E r \in Errors : Return(r)
    BY <1>24 DEF ContainerOpen, ContainerClose, ContainerStringByte, ContainerByte,
           EnterContainer, Reject, stream, control, Errors
  <2> QED BY <1>1, <1>2, <2>1, <2>2
<1>25. CASE ContainerEnd
  BY <1>3, <1>4, <1>25 DEF ContainerEnd
<1>26. CASE ContainerChunkEnd
  <2>1. state = "STREAM_CONTAINER"
    BY <1>26 DEF ContainerChunkEnd, CallInv, CallOrder
  <2> QED BY <1>2, <1>3, <1>26, <2>1 DEF ContainerChunkEnd, control
<1>27. CASE FeedEnd
  <2> DEFINE kept == preserve_direct(token)
  <2>1. /\ phase = "feed" /\ token' = kept /\ state' = state /\ fed' = fed /\ i' = i
        /\ ~Preserved(kept) => Return("BUFFER_FULL")
    BY <1>27 DEF FeedEnd, Return, control
  <2>2. CASE ~Preserved(kept)
    BY <1>1, <2>1, <2>2 DEF Errors
  <2>3. CASE Preserved(kept)
    <3>1. CASE state \in Escapes
      <4>1. Preserved(token) /\ "key" \in Fields /\ "value" \in Fields
        BY <1>b, <1>c, <2>1, <3>1 DEF ExactAt, Escapes, Fields
      <4>2. kept = token
        BY <4>1 DEF preserve_direct, copy_direct, Preserved
      <4> QED BY <1>6, <1>b, <2>1, <4>2
    <3>2. CASE state \notin Escapes
      <4>1. \A f \in used : state # EscapeState(f) /\ AsFed(token, f, state, i)
        BY <1>b, <2>1, <3>2 DEF EscapeState, Escapes, ContentInv, UsedBy
      <4>2. used \in SUBSET Fields /\ i \in Int /\ kept.has_key = token.has_key
        <5>1. kept.has_key = token.has_key
          BY <1>a, PreserveSound
        <5> QED BY <1>a, <5>1
      <4>3. UsedBy(token'.has_key, state') = used
        BY <2>1, <4>2
      <4> HIDE DEF used
      <4>4. \A f \in used : AsFed(kept, f, state, i)
        BY <1>a, <2>3, <4>1, <4>2, PreservedContent
      <4> QED BY <2>1, <4>3, <4>4, ContentFrom
    <3> QED BY <3>1, <3>2
  <2> QED BY <2>2, <2>3
<1>28. CASE Feed
  <2>1. PICK chunk \in Seq(Byte) : fed' = fed \o chunk
    BY <1>28 DEF Feed
  <2>2. /\ phase = "idle" /\ i' = Len(fed) + 1 /\ UNCHANGED <<token, state>>
        /\ Active /\ Active'
    BY <1>28 DEF Feed, stream, control, Active
  <2>3. i = Len(fed) + 1
    BY <2>2 DEF IdleInv
  <2>4. \A k \in 1..Len(fed) : fed'[k] = fed[k]
    BY <1>a, <2>1, ConcatProperties
  <2>5. ASSUME NEW f \in UsedBy(token'.has_key, state') PROVE AsFed(token, f, state, i)'
    <3>1. f \in used
      BY <2>2
    <3>2. PICK first \in Int, last \in Int :
            /\ Framed(f, state, i, first, last)
            /\ Placed(token, f, Stop(token, f, state), first, last)
      BY <2>2, <3>1 DEF ContentInv, AsFed
    <3>3. 1 <= first /\ last + 1 <= i /\ first <= last + 1
      BY <1>a, <3>2 DEF Framed
    <3>4. \A k \in first..last : fed'[k] = fed[k]
      BY <1>a, <2>3, <2>4, <3>3
    <3>5. 1 < first => fed'[first - 1] = fed[first - 1]
      BY <1>a, <2>3, <2>4, <3>3
    <3>6. last + 1 < i => fed'[last + 1] = fed[last + 1]
      BY <1>a, <2>3, <2>4, <3>3
    <3>7. Framed(f, state, i, first, last)'
      BY <2>2, <2>3, <3>2, <3>5, <3>6 DEF Framed, ReadIn
    <3>8. Placed(token, f, Stop(token, f, state), first, last)'
      BY <2>2, <3>2, <3>4 DEF Placed, Stop
    <3> QED BY <3>7, <3>8 DEF AsFed
  <2> QED BY <2>5 DEF ContentInv
<1>29. ASSUME NEW r, EndsWith(r) PROVE UNCHANGED <<fed, i>> /\ (~rejected' => ~rejected)
  BY <1>29 DEF EndsWith, input
<1>30. CASE CallAfterBreak
  BY <1>6, <1>30 DEF CallAfterBreak, input, stream, control, Active
<1>31. CASE FinishComplete \/ FinishStale \/ FinishIncomplete
  <2>1. token' = token /\ state' = state /\ callback_break' = callback_break
    BY <1>31 DEF FinishComplete, FinishStale, FinishIncomplete, stream, control
  <2>2. \E r : EndsWith(r)
    BY <1>31 DEF FinishComplete, FinishStale, FinishIncomplete
  <2> QED BY <1>6, <1>29, <2>1, <2>2 DEF Active
<1>32. CASE FinishScalar
  <2>1. CASE UNCHANGED stream /\ EndsWith("ERROR")
    BY <1>6, <1>29, <2>1 DEF stream, control, Active
  <2>2. "COMPLETE" \notin KeyStates \cup ValueStates
    BY DEF KeyStates, ValueStates
  <2> QED BY <1>32, <2>1, <2>2, ContentCommit DEF FinishScalar
<1>33. CASE Reset
  BY <1>4, <1>33 DEF Reset
<1>34. CASE UNCHANGED vars
  BY <1>6, <1>34 DEF vars, caller, stream, control, Active
<1>35. CASE RejectByte \/ ContainerMismatch
  BY <1>1, <1>35 DEF RejectByte, ContainerMismatch, Reject, Errors
<1> QED
  BY <1>7, <1>8, <1>9, <1>10, <1>11, <1>13, <1>14, <1>15, <1>16, <1>17, <1>18, <1>19,
     <1>20, <1>21, <1>22, <1>23, <1>24, <1>25, <1>26, <1>27, <1>28, <1>30, <1>31, <1>32,
     <1>33, <1>34, <1>35 DEF Next, Step, Call

-----------------------------------------------------------------------------
(* Events. *)

\* The last entry is open exactly while the parser is inside a container.
OutInv ==
  /\ out \in Seq(Entries) /\ container \in Containers
  /\ state = "STREAM_CONTAINER" =>
       out # << >> /\ out[Len(out)].open /\ out[Len(out)].type = container.type
  /\ (~callback_break /\ state # "STREAM_CONTAINER") => ~Events!ContainerOpen

EventInv == HeldInv /\ OutInv
ProtocolStep == [Events!Next]_(Events!eventVars)

\* A step without an event, outside containers.
LEMMA Quiet ==
  ASSUME EventInv, out' = out, container' \in Containers,
         container'.type = container.type,
         callback_break' = callback_break,
         state' # "STREAM_CONTAINER" /\ state # "STREAM_CONTAINER"
  PROVE  EventInv' /\ ProtocolStep
<1>1. HeldInv'
  BY DEF HeldInv
<1>2. OutInv'
  BY DEF EventInv, OutInv, Events!ContainerOpen
<1> QED
  BY <1>1, <1>2 DEF EventInv, ProtocolStep, Events!eventVars

\* A step without an event that keeps the state and the token.
LEMMA QuietContainer ==
  ASSUME EventInv, out' = out, container' \in Containers,
         container'.type = container.type,
         callback_break' = callback_break, state' = state,
         token' = token
  PROVE  EventInv' /\ ProtocolStep
<1>1. HeldInv'
  BY DEF EventInv, HeldInv
<1>2. OutInv'
  BY DEF EventInv, OutInv, Events!ContainerOpen
<1> QED
  BY <1>1, <1>2 DEF EventInv, ProtocolStep, Events!eventVars

\* The key of an event is absent or a sequence of bytes.
LEMMA KeyType ==
  ASSUME CallInv, TokenInv
  PROVE  KeyOf(token) \in Seq(Seq(Byte))
<1> DEFINE used == UsedBy(token.has_key, state)
<1>1. token.has_key => "key" \in used /\ "key" \in Fields
  BY DEF UsedBy, Fields
<1>2. fed \in Seq(Byte) /\ Sound(token, used, Len(fed))
  BY DEF CallInv, CallTypes, TokenInv
<1> HIDE DEF used
<1>3. token.has_key => Text(token, "key") \in Seq(Byte)
  BY <1>1, <1>2, TokenText
<1>4. \A x \in Seq(Byte) : <<x>> \in Seq(Seq(Byte))
  OBVIOUS
<1>5. << >> \in Seq(Seq(Byte))
  OBVIOUS
<1> QED
  BY <1>3, <1>4, <1>5 DEF KeyOf

\* The value of an event is a sequence of bytes.
LEMMA ValueType ==
  ASSUME CallInv, TokenInv, state \in ValueStates
  PROVE  Text(token, "value") \in Seq(Byte)
<1> DEFINE used == UsedBy(token.has_key, state)
<1>1. "value" \in used /\ "value" \in Fields
  BY DEF UsedBy, Fields
<1>2. fed \in Seq(Byte) /\ Sound(token, used, Len(fed))
  BY DEF CallInv, CallTypes, TokenInv
<1> HIDE DEF used
<1> QED
  BY <1>1, <1>2, TokenText

\* An entry appended while none is open has arrived.
LEMMA Appended ==
  ASSUME NEW e \in Entries, OutInv, ~callback_break, state # "STREAM_CONTAINER",
         out' = Append(out, e)
  PROVE  /\ out' \in Seq(Entries) /\ out' # << >> /\ out'[Len(out')] = e
         /\ Len(out') = Len(out) + 1 /\ out'[Len(out) + 1] = e
         /\ \A types : e.type \in types => Events!Arrives(types, e.open)
         /\ (Events!ContainerOpen)' <=> e.open
<1>1. /\ out' \in Seq(Entries) /\ out' # << >> /\ Len(out') = Len(out) + 1
      /\ out'[Len(out) + 1] = e /\ out'[Len(out')] = e
  BY AppendProperties DEF OutInv
<1>2. ~Events!ContainerOpen
  BY DEF OutInv
<1>3. e.key \in Events!Keys /\ e.data \in Seq(Events!Byte)
  BY DEF Entries, Events!Keys, Events!Byte, Byte
<1> QED
  BY <1>1, <1>2, <1>3 DEF Events!Arrives, Events!ContainerOpen

\* kason_stream_commit_primitive emits one VALUE event.
LEMMA CommitEvent ==
  ASSUME CallInv, TokenInv, EventInv, state \in ValueStates, ~callback_break,
         NEW type \in Events!PrimitiveTypes, NEW next, next # "STREAM_CONTAINER",
         NEW verdict \in Verdicts, Commit(type, next, verdict)
  PROVE  EventInv' /\ ProtocolStep
<1> DEFINE e == Entry(KeyOf(token), type, Text(token, "value"), FALSE)
<1>1. e \in Entries /\ e.type = type /\ e.open = FALSE
  <2>1. type \in OutTypes
    BY DEF Events!PrimitiveTypes, Events!ScalarTypes, OutTypes, ScalarTypes
  <2> QED BY <2>1, KeyType, ValueType DEF Entry, Entries
<1>2. /\ out' = Append(out, e) /\ container' = container
      /\ state' \in {next, "COMPLETE"} /\ callback_break' \in {TRUE, callback_break}
  BY DEF Commit, Break
<1> HIDE DEF e
<1>3. state # "STREAM_CONTAINER" /\ state' # "STREAM_CONTAINER"
  BY <1>2 DEF ValueStates
<1>4. /\ out' \in Seq(Entries) /\ Events!Arrives(Events!PrimitiveTypes, FALSE)
      /\ ~(Events!ContainerOpen)'
  BY <1>1, <1>2, <1>3, Appended DEF EventInv
<1>5. callback_break' \in BOOLEAN
  BY <1>2 DEF CallInv, CallTypes
<1>6. Events!Value
  BY <1>4, <1>5 DEF Events!Value
<1>7. HeldInv' /\ OutInv'
  BY <1>2, <1>3, <1>4 DEF HeldInv, OutInv, EventInv
<1> QED
  BY <1>6, <1>7 DEF EventInv, ProtocolStep, Events!Next

\* A part added while a container is read grows the open entry.
LEMMA GrowEvent ==
  ASSUME OutInv, ~callback_break, state = "STREAM_CONTAINER",
         NEW bytes \in Seq(Byte), Len(bytes) > 0, NEW open \in BOOLEAN,
         out' = AddPart(out, bytes, open)
  PROVE  /\ Events!Grows(open) /\ out' \in Seq(Entries) /\ out' # << >> /\ Len(out') = Len(out)
         /\ out'[Len(out')].open = open /\ out'[Len(out')].type = container.type
         /\ LET data == out'[Len(out')].data IN data[Len(data)] = bytes[Len(bytes)]
<1>1. GrownBy(out, out', bytes, open)
  BY PartAdded DEF OutInv
<1>2. Events!ContainerOpen
  BY DEF Events!ContainerOpen, OutInv
<1>3. Events!Grows(open)
  BY <1>1, <1>2 DEF Events!Grows, GrownBy
<1> QED
  BY <1>1, <1>3 DEF OutInv, GrownBy

\* A part is a sequence of bytes that is not empty.
LEMMA PartType ==
  ASSUME CallInv, part_start > 0, NEW last \in part_start..Len(fed)
  PROVE  /\ Part(last) \in Seq(Byte) /\ Len(Part(last)) > 0
         /\ Part(last)[Len(Part(last))] = fed[last]
<1>1. /\ fed \in Seq(Byte) /\ Len(fed) \in Nat /\ part_start \in Nat /\ last \in Nat
      /\ part_start <= last /\ last <= Len(fed)
  BY DEF CallInv, CallTypes
<1>2. \A k \in part_start..last : fed[k] \in Byte
  BY <1>1
<1> DEFINE p == SubSeq(fed, part_start, last)
<1>3. /\ p \in Seq(Byte) /\ Len(p) = last - part_start + 1
      /\ \A k \in 1..(last - part_start + 1) : p[k] = fed[part_start + k - 1]
  BY <1>1, <1>2, SubSeqProperties
<1> HIDE DEF p
<1>4. last - part_start + 1 \in 1..(last - part_start + 1)
      /\ part_start + (last - part_start + 1) - 1 = last
  BY <1>1
<1>5. p[last - part_start + 1] = fed[last]
  BY <1>3, <1>4
<1> QED
  BY <1>1, <1>3, <1>5 DEF p, Part

\* While a container is being read the callback is still listening.
LEMMA InContainer ==
  ASSUME CallInv, phase = "feed", part_start > 0
  PROVE  /\ state = "STREAM_CONTAINER" /\ ~callback_break /\ part_start <= i
         /\ i \in Nat /\ part_start \in Nat
BY DEF CallInv, CallTypes, CallOrder

\* A CONTAINER_PART event follows the protocol.
LEMMA ContainerPart ==
  ASSUME CallInv, EventInv, phase = "feed", part_start > 0,
         NEW last \in part_start..Len(fed), out' = AddPart(out, Part(last), TRUE),
         container' = container, callback_break' \in BOOLEAN,
         \/ state' = "COMPLETE" /\ callback_break' = TRUE
         \/ state' = state /\ token' = token
  PROVE  EventInv' /\ ProtocolStep
<1>1. state = "STREAM_CONTAINER" /\ ~callback_break
  BY InContainer
<1>2. /\ Events!Grows(TRUE) /\ out' \in Seq(Entries) /\ out' # << >>
      /\ out'[Len(out')].open = TRUE /\ out'[Len(out')].type = container.type
  BY <1>1, PartType, GrowEvent DEF EventInv
<1>3. Events!Part
  BY <1>2 DEF Events!Part
<1>4. HeldInv'
  BY DEF EventInv, HeldInv
<1>5. OutInv'
  BY <1>1, <1>2 DEF EventInv, OutInv
<1> QED
  BY <1>3, <1>4, <1>5 DEF EventInv, ProtocolStep, Events!Next

\* A CONTAINER_END event carries the bracket that closes its type: the
\* bracket at the bottom of the scratch is the one the container began with.
LEMMA ContainerFinish ==
  ASSUME CallInv, EventInv, ContainerEnd, out' = AddPart(out, Part(i), FALSE),
         callback_break' \in BOOLEAN, state' \in {"COMPLETE", "FIND_PARAM_SEP"}
  PROVE  EventInv' /\ ProtocolStep
<1>1. /\ phase = "feed" /\ part_start > 0 /\ i <= Len(fed) /\ container' = container
      /\ TopMatches(fed[i]) /\ Len(token.scratch) = 1
  BY DEF ContainerEnd, AtContainerByte
<1>2. state = "STREAM_CONTAINER" /\ ~callback_break /\ i \in part_start..Len(fed)
  BY <1>1, InContainer
<1>3. /\ Events!Grows(FALSE) /\ out' \in Seq(Entries) /\ out' # << >> /\ Len(out') = Len(out)
      /\ out'[Len(out')].open = FALSE /\ out'[Len(out')].type = container.type
      /\ LET data == out'[Len(out')].data IN data[Len(data)] = fed[i]
  BY <1>1, <1>2, PartType, GrowEvent DEF EventInv
<1>4. fed[i] = Events!Closing(container.type)
  <2>1. kason_stream_container_match(token.scratch[1], fed[i])
    BY <1>1 DEF TopMatches
  <2>2. /\ container.type \in {"OBJECT", "ARRAY"}
        /\ token.scratch[1] = IF container.type = "OBJECT" THEN OBJECT_START ELSE ARRAY_START
    BY <1>2 DEF EventInv, HeldInv, Events!ContainerTypes, Events!Opening,
         Events!OBJECT_START,
                Events!ARRAY_START, OBJECT_START, ARRAY_START
  <2>3. fed[i] = IF container.type = "OBJECT" THEN OBJECT_END ELSE ARRAY_END
    BY <2>1, <2>2 DEF kason_stream_container_match, OBJECT_START, ARRAY_START,
         OBJECT_END, ARRAY_END
  <2> QED BY <2>3 DEF Events!Closing, Events!OBJECT_END, Events!ARRAY_END,
      OBJECT_END, ARRAY_END
<1>5. Events!End
  BY <1>3, <1>4 DEF Events!End
<1>6. HeldInv' /\ OutInv'
  BY <1>1, <1>3 DEF EventInv, HeldInv, OutInv, Events!ContainerOpen
<1> QED
  BY <1>5, <1>6 DEF EventInv, ProtocolStep, Events!Next

\* A CONTAINER_BEGIN event follows the protocol.
LEMMA ContainerBegin ==
  ASSUME CallInv, TokenInv, EventInv, StartContainer
  PROVE  EventInv' /\ ProtocolStep
<1> DEFINE type == IF fed[i] = OBJECT_START THEN "OBJECT" ELSE "ARRAY"
           e == Entry(KeyOf(token), type, <<fed[i]>>, TRUE)
<1>1. /\ state = "FIND_VALUE_BEGIN" /\ ~callback_break /\ fed[i] \in {OBJECT_START, ARRAY_START}
      /\ out' = Append(out, e)
  BY DEF StartContainer, AtByte, CallInv, CallOrder
<1>2. /\ type \in Events!ContainerTypes /\ type \in {"OBJECT", "ARRAY"} /\ fed[i] = Events!Opening(type)
      /\ fed[i] \in Byte
  BY <1>1 DEF Events!ContainerTypes, Events!Opening, Events!OBJECT_START,
       Events!ARRAY_START,
              OBJECT_START, ARRAY_START, Byte
<1> HIDE DEF type
<1>3. e \in Entries /\ e.type = type /\ e.open = TRUE /\ e.data = <<Events!Opening(type)>>
  <2>1. <<fed[i]>> \in Seq(Byte)
    BY <1>2
  <2>2. type \in OutTypes
    BY <1>2 DEF OutTypes
  <2> QED BY <1>2, <2>1, <2>2, KeyType DEF Entry, Entries
<1>4. \/ callback_break' = TRUE /\ state' = "COMPLETE" /\ container' = [container EXCEPT !.type = type]
      \/ /\ callback_break' = callback_break /\ state' = "STREAM_CONTAINER"
         /\ container' = ContainerFields(type, FALSE) /\ token' = append_scratch(Cleared, fed[i])
  BY DEF StartContainer, Break, Goto, type
<1> HIDE DEF e
<1>5. /\ out' \in Seq(Entries) /\ out' # << >> /\ out'[Len(out')] = e
      /\ Events!Arrives(Events!ContainerTypes, TRUE)
      /\ (Events!ContainerOpen)'
  BY <1>1, <1>2, <1>3, Appended DEF EventInv
<1>6. callback_break' \in BOOLEAN
  BY <1>4 DEF CallInv, CallTypes
<1>7. Events!Begin
  BY <1>3, <1>5, <1>6 DEF Events!Begin
<1>8. container' \in Containers /\ (state' = "STREAM_CONTAINER" => container'.type = type)
  <2>1. CASE container' = [container EXCEPT !.type = type] /\ state' = "COMPLETE"
    BY <1>2, <2>1 DEF EventInv, OutInv, Containers
  <2>2. CASE container' = ContainerFields(type, FALSE)
    BY <1>2, <2>2 DEF ContainerFields, Containers, Surrogates
  <2> QED BY <1>4, <2>1, <2>2
<1>9. HeldInv'
  <2>1. CASE state' = "COMPLETE"
    BY <2>1 DEF HeldInv
  <2>2. CASE token' = append_scratch(Cleared, fed[i]) /\ state' = "STREAM_CONTAINER"
    <3>1. token'.scratch = <<fed[i]>> /\ token'.has_key = FALSE
          /\ \A f \in Fields : token'.direct[f] = Null
      BY <2>2 DEF append_scratch, Cleared
    <3> QED BY <1>2, <1>8, <2>2, <3>1 DEF HeldInv
  <2> QED BY <1>4, <2>1, <2>2
<1>10. OutInv'
  BY <1>3, <1>4, <1>5, <1>8 DEF OutInv
<1> QED
  BY <1>7, <1>9, <1>10 DEF EventInv, ProtocolStep, Events!Next

\* A bracket above the first one is pushed or popped: the first one stays.
LEMMA ContainerBrackets ==
  ASSUME CallInv, TokenInv, EventInv, state = "STREAM_CONTAINER",
         UNCHANGED <<control, container, out>>, NEW c \in Byte,
         \/ token' = append_scratch(token, c)
         \/ token' = Popped /\ Len(token.scratch) > 1
  PROVE  EventInv' /\ ProtocolStep
<1>1. token \in Tokens /\ token.scratch \in Seq(Byte) /\ Len(token.scratch) \in Nat \ {0}
  BY EmptySeq DEF TokenInv, Sound, Tokens, EventInv, HeldInv
<1>2. /\ token'.has_key = token.has_key /\ token'.direct = token.direct
  BY <1>1 DEF append_scratch, Popped, Tokens
<1>3. token'.scratch # << >> /\ token'.scratch[1] = token.scratch[1]
  <2>1. CASE token' = append_scratch(token, c)
    <3>1. token'.scratch = Append(token.scratch, c)
      BY <1>1, <2>1 DEF append_scratch, Tokens
    <3> QED BY <1>1, <3>1, AppendProperties
  <2>2. CASE token' = Popped /\ Len(token.scratch) > 1
    <3> DEFINE rest == SubSeq(token.scratch, 1, Len(token.scratch) - 1)
    <3>1. token'.scratch = rest
      BY <1>1, <2>2 DEF Popped, Tokens
    <3>2. \A k \in 1..(Len(token.scratch) - 1) : token.scratch[k] \in Byte
      BY <1>1
    <3>3. 1 <= Len(token.scratch) - 1 /\ 1 \in 1..(Len(token.scratch) - 1 - 1 + 1)
      BY <1>1, <2>2
    <3>4. /\ rest \in Seq(Byte) /\ Len(rest) = Len(token.scratch) - 1 - 1 + 1
          /\ rest[1] = token.scratch[1 + 1 - 1]
      BY <1>1, <3>2, <3>3, SubSeqProperties
    <3> HIDE DEF rest
    <3>5. rest # << >>
      BY <1>1, <3>3, <3>4
    <3> QED BY <3>1, <3>4, <3>5
  <2> QED BY <2>1, <2>2
<1>4. HeldInv'
  BY <1>2, <1>3 DEF EventInv, HeldInv, control
<1>5. OutInv'
  BY DEF EventInv, OutInv, control, Events!ContainerOpen
<1> QED
  BY <1>4, <1>5 DEF EventInv, ProtocolStep, Events!eventVars, control

-----------------------------------------------------------------------------
(* The inductive invariant and the theorems. *)

\* Committing a value inside a feed follows the protocol.
LEMMA CommitInFeedEvent ==
  ASSUME CallInv, TokenInv, EventInv, state \in ValueStates, ~callback_break,
         NEW type \in Events!PrimitiveTypes, NEW next, next # "STREAM_CONTAINER",
         CommitInFeed(type, next)
  PROVE  EventInv' /\ ProtocolStep
<1>1. PICK verdict \in Verdicts : Commit(type, next, verdict)
  BY DEF CommitInFeed
<1> QED
  BY <1>1, CommitEvent

\* The bytes of a key or a string cause no event.
LEMMA TextActionsQuiet ==
  ASSUME EventInv, NEW f \in Fields,
         TextBytes(f) \/ TextByteFull(f) \/ TextControlChar(f)
         \/ BeginEscape(f) \/ EscapeByte(f) \/ EscapeRejected(f)
  PROVE  /\ out' = out /\ container' = container /\ callback_break' = callback_break
         /\ state' # "STREAM_CONTAINER" /\ state # "STREAM_CONTAINER"
<1> USE DEF AtByte, InByte, TextState, EscapeState, Goto, control, stream, Reject
<1>1. CASE TextBytes(f)
  BY <1>1 DEF TextBytes
<1>2. CASE TextByteFull(f)
  BY <1>2 DEF TextByteFull
<1>3. CASE TextControlChar(f)
  BY <1>3 DEF TextControlChar
<1>4. CASE BeginEscape(f)
  BY <1>4 DEF BeginEscape
<1>5. CASE EscapeByte(f)
  BY <1>5 DEF EscapeByte
<1>6. CASE EscapeRejected(f)
  BY <1>6 DEF EscapeRejected
<1> QED
  BY <1>1, <1>2, <1>3, <1>4, <1>5, <1>6

\* Every step keeps EventInv and is a step of the protocol, or a stutter.
LEMMA EventNext == CallInv /\ TokenInv /\ EventInv /\ [Next]_vars => EventInv' /\ ProtocolStep
<1> SUFFICES ASSUME CallInv, TokenInv, EventInv,
    [Next]_vars PROVE EventInv' /\ ProtocolStep
  OBVIOUS
<1> DEFINE Same == out' = out /\ container' = container /\ callback_break' = callback_break
<1>a. container \in Containers
  BY DEF EventInv, OutInv
<1>b. Same /\ state' # "STREAM_CONTAINER" /\ state # "STREAM_CONTAINER" => EventInv' /\ ProtocolStep
  BY <1>a, Quiet
<1>c. Same /\ state' = state /\ token' = token => EventInv' /\ ProtocolStep
  BY <1>a, QuietContainer
<1>d. ASSUME NEW r, Reject(r) PROVE Same /\ state' = state /\ token' = token
  BY <1>d DEF Reject, stream, control
<1> HIDE DEF Same
<1>1. CASE SkipWhitespace \/ RejectByte
  BY <1>1, <1>c DEF Same, SkipWhitespace, RejectByte, Reject, stream, control
<1>2. CASE RootEntries \/ RootScalar \/ CloseEmpty
  BY <1>2, <1>b DEF Same, RootEntries, RootScalar, CloseEmpty, InByte, AtByte, Goto
<1>3. CASE OpenKey \/ FindValueSep \/ OpenString \/ OpenGeneric
  BY <1>3, <1>b DEF Same, OpenKey, FindValueSep, OpenString, OpenGeneric, InByte,
       AtByte, Goto
<1>4. CASE FindParamSep
  BY <1>4, <1>b DEF Same, FindParamSep, InByte, AtByte, Goto, AfterSeparator
<1>5. ASSUME NEW f \in Fields,
             TextBytes(f) \/ TextByteFull(f) \/ TextControlChar(f)
             \/ BeginEscape(f) \/ EscapeByte(f) \/ EscapeRejected(f)
      PROVE  EventInv' /\ ProtocolStep
  BY <1>5, <1>b, TextActionsQuiet DEF Same
<1>6. CASE CloseKey
  <2>1. CASE Reject("ERROR")
    BY <1>c, <1>d, <2>1
  <2>2. CASE Goto("FIND_VALUE_SEP") /\ UNCHANGED <<container, out>>
    BY <1>6, <1>b, <2>2 DEF Same, CloseKey, InByte, AtByte, Goto
  <2> QED BY <1>6, <2>1, <2>2 DEF CloseKey
<1>e. /\ phase = "feed" => ~callback_break
      /\ ScalarTypes \subseteq Events!PrimitiveTypes /\ "STRING" \in Events!PrimitiveTypes
  BY DEF CallInv, CallOrder, Events!PrimitiveTypes, Events!ScalarTypes, ScalarTypes
<1>7. CASE CloseString
  <2>1. CASE Reject("ERROR")
    BY <1>c, <1>d, <2>1
  <2>2. CASE CommitInFeed("STRING", IF InEntries THEN "FIND_PARAM_SEP" ELSE "COMPLETE")
    <3>1. state \in ValueStates /\ ~callback_break
      BY <1>7, <1>e DEF CloseString, InByte, AtByte, ValueStates
    <3> QED BY <1>e, <2>2, <3>1, CommitInFeedEvent
  <2> QED BY <1>7, <2>1, <2>2 DEF CloseString
<1>8. CASE GenericBytes \/ GenericByteFull
  BY <1>8, <1>b DEF Same, GenericBytes, GenericByteFull, AtByte, control
<1>9. CASE CommitGeneric
  <2> DEFINE type == ScalarType(Text(token, "value"))
             next == AfterGeneric(fed[i])
  <2>1. CASE Reject("ERROR")
    BY <1>c, <1>d, <2>1
  <2>2. CASE type # "INVALID" /\ CommitInFeed(type, next)
    <3>1. state \in ValueStates /\ ~callback_break
      BY <1>9, <1>e DEF CommitGeneric, AtByte, ValueStates
    <3>2. type \in Events!PrimitiveTypes
      BY <1>e, <2>2, ScalarTypeIsOne
    <3>3. next # "STREAM_CONTAINER"
      BY DEF AfterGeneric, AfterSeparator
    <3> HIDE DEF type, next
    <3> QED BY <2>2, <3>1, <3>2, <3>3, CommitInFeedEvent
  <2> QED BY <1>9, <2>1, <2>2 DEF CommitGeneric
<1>10. CASE StartContainer
  BY <1>10, ContainerBegin
<1>11. CASE EnterContainer
  BY <1>11, <1>c DEF Same, EnterContainer, stream, control
<1>f. AtContainerByte => /\ state = "STREAM_CONTAINER" /\ ~callback_break
                         /\ fed[i] \in Byte
  BY InContainer DEF AtContainerByte, CallInv, CallTypes
<1>12. CASE ContainerStringByte
  <2>1. CASE Reject("ERROR")
    BY <1>c, <1>d, <2>1
  <2>2. CASE container' \in StringStep(container, fed[i]) /\ UNCHANGED <<control, token, out>>
    <3>1. container' \in Containers /\ container'.type = container.type
      BY <1>12, <1>a, <1>f, <2>2, StringStepType DEF ContainerStringByte
    <3> QED BY <2>2, <3>1, QuietContainer DEF control
  <2> QED BY <1>12, <2>1, <2>2 DEF ContainerStringByte
<1>13. CASE ContainerByte
  <2>1. ContainerFields(container.type, TRUE) \in Containers
        /\ ContainerFields(container.type, TRUE).type = container.type
    BY <1>a DEF ContainerFields, Containers, Surrogates
  <2>2. container' \in Containers /\ container'.type = container.type
    BY <1>13, <1>a, <2>1 DEF ContainerByte
  <2> QED BY <1>13, <2>2, QuietContainer DEF ContainerByte, control
<1>14. CASE ContainerOpen
  <2>1. CASE Reject("BUFFER_FULL")
    BY <1>c, <1>d, <2>1
  <2>2. CASE token' = append_scratch(token, fed[i]) /\ UNCHANGED <<control, container, out>>
    BY <1>14, <1>f, <2>2, ContainerBrackets DEF ContainerOpen
  <2> QED BY <1>14, <2>1, <2>2 DEF ContainerOpen
<1>15. CASE ContainerMismatch
  BY <1>15, <1>c, <1>d DEF ContainerMismatch
<1>16. CASE ContainerClose
  BY <1>16, <1>f, ContainerBrackets DEF ContainerClose
<1>17. CASE ContainerEnd
  <2>1. /\ phase = "feed" /\ part_start > 0 /\ i <= Len(fed) /\ container' = container
        /\ i \in Nat /\ part_start \in Nat /\ Len(fed) \in Nat /\ part_start <= i
        /\ callback_break \in BOOLEAN
    BY <1>17, InContainer DEF ContainerEnd, AtContainerByte, CallInv, CallTypes
  <2>2. CASE i > part_start /\ out' = AddPart(out, Part(i - 1), TRUE) /\ Break
    <3>1. i - 1 \in part_start..Len(fed)
      BY <2>1, <2>2
    <3>2. callback_break' = TRUE /\ state' = "COMPLETE"
      BY <2>2 DEF Break
    <3> QED BY <2>1, <2>2, <3>1, <3>2, ContainerPart
  <2>3. CASE out' = AddPart(out, Part(i), FALSE) /\ Break
    <3>1. callback_break' = TRUE /\ state' = "COMPLETE"
      BY <2>3 DEF Break
    <3> QED BY <1>17, <2>3, <3>1, ContainerFinish
  <2>4. CASE /\ out' = AddPart(out, Part(i), FALSE) /\ state' = "FIND_PARAM_SEP"
             /\ callback_break' = callback_break
    BY <1>17, <2>1, <2>4, ContainerFinish
  <2> QED BY <1>17, <2>2, <2>3, <2>4 DEF ContainerEnd
<1>18. CASE ContainerChunkEnd
  <2>1. /\ phase = "feed" /\ part_start > 0 /\ container' = container /\ token' = token
        /\ out' = AddPart(out, Part(Len(fed)), TRUE) /\ callback_break \in BOOLEAN
    BY <1>18 DEF ContainerChunkEnd, CallInv, CallTypes
  <2>2. Len(fed) \in part_start..Len(fed)
    BY DEF CallInv, CallTypes
  <2>3. CASE Break
    BY <2>1, <2>2, <2>3, ContainerPart DEF Break
  <2>4. CASE UNCHANGED control
    BY <2>1, <2>2, <2>4, ContainerPart DEF control
  <2> QED BY <1>18, <2>3, <2>4 DEF ContainerChunkEnd
<1>19. CASE FeedEnd
  <2>1. Same /\ state' = state
    BY <1>19 DEF FeedEnd, Same, control
  <2>2. CASE state # "STREAM_CONTAINER"
    BY <1>b, <2>1, <2>2
  <2>3. CASE state = "STREAM_CONTAINER"
    <3>1. token.direct["key"] = Null /\ token.direct["value"] = Null
      BY <2>3 DEF EventInv, HeldInv, Fields
    <3>2. preserve_direct(token) = token
      BY <3>1 DEF preserve_direct, copy_direct
    <3>3. token' = token
      BY <1>19, <3>2 DEF FeedEnd
    <3> QED BY <1>c, <2>1, <3>3
  <2> QED BY <2>2, <2>3
<1>20. CASE Feed
  BY <1>20, <1>c DEF Same, Feed, stream, control
<1>21. CASE CallAfterBreak \/ FinishComplete \/ FinishStale \/ FinishIncomplete
  BY <1>21, <1>c DEF Same, CallAfterBreak, FinishComplete, FinishStale,
       FinishIncomplete, stream, control
<1>22. CASE FinishScalar
  <2>1. CASE UNCHANGED <<stream, out>>
    BY <1>c, <2>1 DEF Same, stream, control
  <2>2. ASSUME NEW verdict \in Verdicts, ScalarType(Text(token, "value")) # "INVALID",
               Commit(ScalarType(Text(token, "value")), "COMPLETE", verdict)
        PROVE  EventInv' /\ ProtocolStep
    <3> DEFINE type == ScalarType(Text(token, "value"))
    <3>1. state \in ValueStates /\ ~callback_break
      BY <1>22 DEF FinishScalar, MayFinish, AtRootScalar, ValueStates
    <3>2. type \in Events!PrimitiveTypes
      BY <1>e, <2>2, ScalarTypeIsOne
    <3>3. Commit(type, "COMPLETE", verdict)
      BY <2>2
    <3> HIDE DEF type
    <3> QED BY <3>1, <3>2, <3>3, CommitEvent
  <2> QED BY <1>22, <2>1, <2>2 DEF FinishScalar
<1>23. CASE Reset
  <2>1. out' = << >> /\ callback_break' = FALSE /\ state' = "FIND_ROOT"
        /\ container' = ContainerFields("UNKNOWN", FALSE)
    BY <1>23 DEF Reset
  <2>2. Events!Restart
    BY <2>1 DEF Events!Restart
  <2>3. out' \in Seq(Entries) /\ container' \in Containers /\ ~(Events!ContainerOpen)'
    BY <2>1 DEF ContainerFields, Containers, Surrogates, Events!ContainerOpen
  <2> QED BY <2>1, <2>2, <2>3 DEF EventInv, HeldInv, OutInv, ProtocolStep, Events!Next
<1>24. CASE UNCHANGED vars
  BY <1>24, <1>c DEF Same, vars, stream, control
<1> QED
  BY <1>1, <1>2, <1>3, <1>4, <1>5, <1>6, <1>7, <1>8, <1>9, <1>10, <1>11, <1>12,
       <1>13, <1>14, <1>15, <1>16,
     <1>17, <1>18, <1>19, <1>20, <1>21, <1>22, <1>23, <1>24 DEF Next, Step, Call

\* The inductive invariant.
IInv == CallInv /\ TokenInv /\ PointersLive /\ ExactInv /\ IdleInv /\ ContentInv /\ EventInv

\* kason_stream_init establishes the invariant and the protocol.
LEMMA InitInv == Init => IInv /\ Events!Init
<1> SUFFICES ASSUME Init PROVE IInv /\ Events!Init
  OBVIOUS
<1>1. /\ fed = << >> /\ chunk_begin = 1 /\ i = 1 /\ part_start = 0
      /\ phase = "idle" /\ result = "SUCCESS"
      /\ ended = FALSE /\ rejected = FALSE /\ stale_read = FALSE /\ out = << >>
      /\ mode = "M_AUTO" /\ state = "FIND_ROOT" /\ has_entries = FALSE
      /\ callback_break = FALSE /\ token = Cleared
      /\ container = ContainerFields("UNKNOWN", FALSE)
  BY DEF Init
<1>2. fed \in Seq(Byte) /\ Len(fed) = 0
  BY <1>1, EmptySeq
<1>3. CallInv
  <2>1. chunk_begin \in 1..(Len(fed) + 1) /\ i \in 1..(Len(fed) + 1) /\ part_start \in 0..Len(fed)
    BY <1>1, <1>2
  <2>2. /\ phase \in {"idle", "feed"} /\ result \in Results
        /\ mode \in Modes /\ state \in States
    BY <1>1 DEF Results, Modes, States
  <2>3. /\ ended \in BOOLEAN /\ rejected \in BOOLEAN /\ stale_read \in BOOLEAN
        /\ has_entries \in BOOLEAN /\ callback_break \in BOOLEAN
    BY <1>1
  <2>4. CallTypes
    BY <1>2, <2>1, <2>2, <2>3 DEF CallTypes
  <2>5. CallOrder
    BY <1>1 DEF CallOrder
  <2> QED BY <2>4, <2>5 DEF CallInv
<1>4. TokenInv
  <2>1. UsedBy(token.has_key, state) = {}
    BY <1>1 DEF UsedBy, Cleared, KeyStates, ValueStates
  <2> QED BY <1>1, <1>2, <2>1, ClearedSound DEF TokenInv
<1>5. PointersLive
  BY <1>1 DEF PointersLive, Cleared
<1>6. EventInv
  <2>1. container \in Containers
    BY <1>1 DEF ContainerFields, Containers, Surrogates
  <2>2. HeldInv
    BY <1>1 DEF HeldInv
  <2>3. out \in Seq(Entries) /\ ~Events!ContainerOpen /\ state # "STREAM_CONTAINER"
    BY <1>1 DEF Events!ContainerOpen
  <2> QED BY <2>1, <2>2, <2>3 DEF EventInv, OutInv
<1>7. Events!Init
  BY <1>1 DEF Events!Init
<1>8. ExactInv
  <2>1. UsedBy(token.has_key, state) = {}
    BY <1>1 DEF UsedBy, Cleared, KeyStates, ValueStates
  <2> QED BY <1>1, <2>1, ClearedExact DEF ExactInv, ExactAt, Escapes
<1>9. IdleInv /\ ContentInv
  <2>1. UsedBy(token.has_key, state) = {}
    BY <1>1 DEF UsedBy, Cleared, KeyStates, ValueStates
  <2> QED BY <1>1, <1>2, <2>1 DEF IdleInv, ContentInv
<1> QED
  BY <1>3, <1>4, <1>5, <1>6, <1>7, <1>8, <1>9 DEF IInv

\* The invariant is inductive, and every step is a step of the protocol.
LEMMA InvNext == IInv /\ [Next]_vars => IInv' /\ ProtocolStep
<1> SUFFICES ASSUME IInv, [Next]_vars PROVE IInv' /\ ProtocolStep
  OBVIOUS
<1>1. /\ CallInv /\ TokenInv /\ PointersLive /\ ExactInv /\ EventInv /\ HeldInv
      /\ IdleInv /\ ContentInv
  BY DEF IInv, EventInv
<1>2. CallInv'
  BY <1>1, CallNext
<1>3. TokenInv'
  BY <1>1, TokenNext
<1>4. PointersLive'
  BY <1>1, LiveNext
<1>5. EventInv' /\ ProtocolStep
  BY <1>1, EventNext
<1>6. ExactInv'
  BY <1>1, ExactNext
<1>7. IdleInv'
  BY <1>1, IdleNext
<1>8. ContentInv'
  BY <1>1, <1>5, ContentNext DEF EventInv
<1> QED
  BY <1>2, <1>3, <1>4, <1>5, <1>6, <1>7, <1>8 DEF IInv

(* The inductive invariant holds in every reachable state. *)
THEOREM Inductive == Spec => []IInv
<1>1. Init => IInv
  BY InitInv
<1>2. IInv /\ [Next]_vars => IInv'
  BY InvNext
<1> QED
  BY <1>1, <1>2, PTL DEF Spec

\* The invariant implies the type invariant.
LEMMA InvType == IInv => TypeOK
<1> SUFFICES ASSUME IInv PROVE TypeOK
  OBVIOUS
<1>1. token \in Tokens /\ container \in Containers /\ out \in Seq(Entries)
  BY DEF IInv, TokenInv, Sound, EventInv, OutInv
<1> QED
  BY <1>1 DEF IInv, CallInv, CallTypes, TypeOK

(* Every variable of the parser and of its application keeps its type,
   whatever the chunks, the scratch size and the answers of the callback. *)
THEOREM TypeCorrect == Spec => []TypeOK
BY Inductive, InvType, PTL

\* The invariant bounds the scratch.
LEMMA InvScratch == IInv => ScratchBounded
BY DEF IInv, TokenInv, Sound, ScratchBounded

(* append_scratch never writes past scratch_size: tokens, escapes and open
   brackets share the buffer and none of them overruns it. *)
THEOREM ScratchIsBounded == Spec => []ScratchBounded
BY Inductive, InvScratch, PTL

\* The invariant includes the life of the pointers.
LEMMA InvPointers == IInv => PointersLive
BY DEF IInv

(* Between two calls of kason_stream_feed the parser holds no pointer into a
   chunk, and during a call only into the chunk it was given, behind i. *)
THEOREM PointersAreLive == Spec => []PointersLive
BY Inductive, InvPointers, PTL

\* The invariant keeps the slices inside the scratch.
LEMMA InvSlices == IInv => SlicesInScratch
<1> SUFFICES ASSUME IInv PROVE SlicesInScratch
  OBVIOUS
<1> DEFINE used == UsedBy(token.has_key, state)
<1>1. \A f \in Fields : InUse(f) <=> f \in used
  BY DEF InUse, UsedBy, Fields
<1>2. (\A f \in Fields : InUse(f)) => used = Fields
  BY <1>1 DEF UsedBy
<1>3. Sound(token, used, Len(fed))
  BY DEF IInv, TokenInv
<1> HIDE DEF used
<1>4. \A f \in Fields : InUse(f) /\ token.direct[f] = Null =>
         /\ 1 <= token.slice[f].begin
         /\ token.slice[f].begin <= token.slice[f].end + 1
         /\ token.slice[f].end <= Len(token.scratch)
  BY <1>1, <1>3 DEF Sound
<1>5. (\A f \in Fields : InUse(f) /\ token.direct[f] = Null)
         => token.slice["key"].end < token.slice["value"].begin
  BY <1>2, <1>3 DEF Sound, Fields
<1> QED
  BY <1>4, <1>5 DEF SlicesInScratch

(* A token moved to the scratch stays a slice of what the scratch holds, the
   key before the value, across any number of chunks. *)
THEOREM SlicesAreInScratch == Spec => []SlicesInScratch
BY Inductive, InvSlices, PTL

\* Equal pieces of two sequences of bytes.
LEMMA SamePiece ==
  ASSUME NEW s \in Seq(Byte), NEW r \in Seq(Byte), NEW a \in Int, NEW b \in Int,
         NEW c \in Int, NEW d \in Int, 1 <= a, b <= Len(s), 1 <= c, d <= Len(r),
         b - a = d - c, a <= b + 1,
         \A k \in c..d : s[a + (k - c)] = r[k]
  PROVE  /\ SubSeq(s, a, b) = SubSeq(r, c, d)
         /\ Len(SubSeq(s, a, b)) = d - c + 1
<1>1. (\A k \in a..b : s[k] \in Byte) /\ (\A k \in c..d : r[k] \in Byte)
  OBVIOUS
<1> DEFINE x == SubSeq(s, a, b)
           y == SubSeq(r, c, d)
<1>2. /\ x \in Seq(Byte) /\ Len(x) = IF a <= b THEN b - a + 1 ELSE 0
      /\ \A k \in 1..(b - a + 1) : x[k] = s[a + k - 1]
  BY <1>1, SubSeqProperties
<1>3. /\ y \in Seq(Byte) /\ Len(y) = IF c <= d THEN d - c + 1 ELSE 0
      /\ \A k \in 1..(d - c + 1) : y[k] = r[c + k - 1]
  BY <1>1, SubSeqProperties
<1> HIDE DEF x, y
<1>4. Len(x) = d - c + 1 /\ Len(y) = d - c + 1
  BY <1>2, <1>3
<1>5. ASSUME NEW k \in 1..Len(x) PROVE x[k] = y[k]
  <2>1. c + k - 1 \in c..d /\ a + ((c + k - 1) - c) = a + k - 1
    BY <1>4
  <2>2. s[a + k - 1] = r[c + k - 1]
    BY <2>1
  <2>3. k \in 1..(b - a + 1) /\ k \in 1..(d - c + 1)
    BY <1>4
  <2> QED BY <1>2, <1>3, <2>2, <2>3
<1>6. x = y
  BY <1>2, <1>3, <1>4, <1>5, SeqEqual
<1> QED
  BY <1>4, <1>6 DEF x, y

\* The invariant keeps every token in use as it was fed.
LEMMA InvContent == IInv /\ Active => \A f \in Fields : InUse(f) => KeptAsFed(f)
<1> SUFFICES ASSUME IInv, Active, NEW f \in Fields, InUse(f) PROVE KeptAsFed(f)
  OBVIOUS
<1> DEFINE used == UsedBy(token.has_key, state)
           stop == Stop(token, f, state)
<1>1. /\ fed \in Seq(Byte) /\ Len(fed) \in Nat /\ i \in 1..(Len(fed) + 1)
      /\ Sound(token, used, Len(fed)) /\ token \in Tokens
  BY DEF IInv, CallInv, CallTypes, TokenInv, Sound
<1>2. /\ token.scratch \in Seq(Byte) /\ Len(token.scratch) \in Nat
      /\ token.slice[f].begin \in Int /\ token.slice[f].end \in Int
  <2>1. token.scratch \in Seq(Byte) /\ token.slice[f] \in Slice
    BY <1>1 DEF Tokens
  <2> QED BY <2>1 DEF Slice
<1>3. f \in used /\ (BeingRead(f) <=> ReadIn(f, state))
  BY DEF InUse, UsedBy, BeingRead, ReadIn, Fields
<1>4. PICK first \in Int, last \in Int :
        Framed(f, state, i, first, last) /\ Placed(token, f, stop, first, last)
  BY <1>3 DEF IInv, ContentInv, AsFed
<1>5. /\ 1 <= first /\ first <= last + 1 /\ last \in 0..(i - 1) /\ last <= Len(fed)
  BY <1>1, <1>4 DEF Framed
<1>6. Kept(f) = SubSeq(fed, first, last) /\ Len(Kept(f)) = last - first + 1
  <2>1. CASE token.direct[f] # Null
    <3>1. state # EscapeState(f)
      BY <1>3, <2>1 DEF IInv, ExactInv, ExactAt, Escapes, EscapeState, Preserved, Fields
    <3>2. Kept(f) = SubSeq(fed, first, last)
      BY <1>4, <2>1, <3>1 DEF Kept, Text, ChunkSlice, Placed
    <3>3. \A k \in first..last : fed[first + (k - first)] = fed[k]
      OBVIOUS
    <3> QED BY <1>1, <1>5, <3>2, <3>3, SamePiece
  <2>2. CASE token.direct[f] = Null
    <3>1. Kept(f) = SubSeq(token.scratch, token.slice[f].begin, stop)
      BY <2>2 DEF Kept, Text, Stop
    <3>2. 1 <= token.slice[f].begin /\ token.slice[f].end <= Len(token.scratch)
      BY <1>1, <1>3, <2>2 DEF Sound
    <3>3. stop \in Int /\ stop <= Len(token.scratch)
      BY <1>2, <3>2 DEF Stop
    <3>4. /\ stop - token.slice[f].begin = last - first
          /\ \A k \in first..last : token.scratch[token.slice[f].begin + (k - first)] = fed[k]
      BY <1>4, <2>2 DEF Placed
    <3> DEFINE scratch == token.scratch
               begin   == token.slice[f].begin
    <3>5. /\ scratch \in Seq(Byte) /\ fed \in Seq(Byte) /\ begin \in Int /\ stop \in Int
          /\ 1 <= begin /\ stop <= Len(scratch) /\ 1 <= first /\ last <= Len(fed)
          /\ stop - begin = last - first /\ begin <= stop + 1
          /\ \A k \in first..last : scratch[begin + (k - first)] = fed[k]
      <4> HIDE DEF stop
      <4> QED BY <1>1, <1>2, <1>5, <3>2, <3>3, <3>4
    <3>6. /\ SubSeq(scratch, begin, stop) = SubSeq(fed, first, last)
          /\ Len(SubSeq(scratch, begin, stop)) = last - first + 1
      <4> HIDE DEF stop, scratch, begin
      <4> QED BY <3>5, SamePiece
    <3> QED BY <3>1, <3>6
  <2> QED BY <2>1, <2>2
<1>7. last - Len(Kept(f)) + 1 = first
  BY <1>6
<1>8. /\ IF BeingRead(f) THEN last = i - 1 ELSE last + 1 < i /\ fed[last + 1] = QUOTE
      /\ (f = "key" \/ state # "FIND_GENERIC_END") => 1 < first /\ fed[first - 1] = QUOTE
  BY <1>3, <1>4 DEF Framed
<1> QED
  BY <1>5, <1>6, <1>7, <1>8 DEF KeptAsFed

\* The invariant makes the scratch exact.
LEMMA InvExact == IInv => ScratchIsExact
<1> SUFFICES ASSUME IInv, Active PROVE ScratchIsExact
  BY DEF ScratchIsExact
<1>1. ASSUME state \notin {"KEY_ESCAPE", "STRING_ESCAPE", "STREAM_CONTAINER"}
      PROVE  Len(token.scratch) = Moved("key") + Moved("value")
  <2> DEFINE used == UsedBy(token.has_key, state)
  <2>1. Exact(token, used)
    BY <1>1 DEF IInv, ExactInv, ExactAt, Escapes
  <2>2. \A f \in Fields : InUse(f) <=> f \in used
    BY DEF InUse, UsedBy, Fields
  <2>3. Fields = {"key", "value"}
    BY DEF Fields
  <2> HIDE DEF used
  <2>4. Moved("key") = Filled(token, used, "key")
    BY <2>2, <2>3 DEF Moved, Filled
  <2>5. Moved("value") = Filled(token, used, "value")
    BY <2>2, <2>3 DEF Moved, Filled
  <2> QED BY <2>1, <2>4, <2>5 DEF Exact
<1> QED
  BY <1>1, InvContent DEF ScratchIsExact

(* Outside an escape the scratch is as long as the key and the value moved to
   it, so what the parser needs of it does not grow with the document; and
   each of them, moved or not, is byte for byte a piece of the input, from a
   quote to the byte read last, or to the quote that closed the key, however
   many chunks and escapes cut it. *)
THEOREM ScratchIsExactly == Spec => []ScratchIsExact
BY Inductive, InvExact, PTL

(* The parser implements the event protocol: whatever the document and the
   chunks, its events are those of KasonEvents. *)
THEOREM EventsFollowProtocol == Spec => FollowsProtocol
<1>1. Init => Events!Init
  BY InitInv
<1>2. IInv /\ [Next]_vars => [Events!Next]_(Events!eventVars)
  BY InvNext DEF ProtocolStep
<1> QED
  BY <1>1, <1>2, Inductive, PTL DEF Spec, FollowsProtocol, Events!Spec
===============================================================================
