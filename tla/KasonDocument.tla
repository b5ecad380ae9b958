--------------------------- MODULE KasonDocument ---------------------------
(***************************************************************************)
(* The reference grammar of KasonGrammar, taken below the root: where each *)
(* value of a document stands, how many children it has and how deep it    *)
(* is.  No value may be deeper than Limit; the root is at level 0.         *)
(***************************************************************************)
EXTENDS KasonGrammar

\* end: the last byte of a value, 0 when there is none; values: it and all
\* that is in it, by position.
Node == [begin : Nat, end : Nat, type : STRING, children : Nat, level : Nat]
NoValue == [end |-> 0, values |-> {}]
ValueOf(p, reading, level) ==
  IF reading.end = 0 THEN NoValue
  ELSE [end |-> reading.end,
        values |-> {[begin |-> p, end |-> reading.end, type |-> reading.type,
                     children |-> 0, level |-> level]}]

ClosingOf(open) == IF open = OBJECT_START THEN OBJECT_END ELSE ARRAY_END
ContainerOf(s, p, last, children, inside, level) ==
  [end |-> last,
   values |-> inside \cup {[begin |-> p, end |-> last, level |-> level,
                            type |-> IF s[p] = OBJECT_START THEN "OBJECT" ELSE "ARRAY",
                            children |-> children]}]

\* Where the value of the member or element at p begins, 0 if it has no key.
AfterColon(s, key, colon) ==
  IF key.end = 0 \/ At(s, colon) # COLON THEN 0 ELSE WhitespaceEnd(s, colon + 1)
AfterKey(s, key) == AfterColon(s, key, WhitespaceEnd(s, key.end + 1))
ChildAt(s, p, close) ==
  CASE close = ARRAY_END -> p
    [] close = OBJECT_END /\ At(s, p) = QUOTE -> AfterKey(s, StringAt(s, p))
    [] OTHER -> 0

PrimitiveAt(s, p) ==
  CASE p > Len(s)       -> Bad
    [] At(s, p) = QUOTE -> StringAt(s, p)
    [] OTHER            -> ScalarAt(s, p)

OfWhole(s, root) ==
  IF root.end > 0 /\ Whole(s, root.end + 1) THEN root ELSE NoValue

DocumentWithin(s, Limit) ==
  LET reading[p \in Nat, level \in Nat] ==
        IF level > Limit \/ p = 0 THEN NoValue
        ELSE IF ~Opens(At(s, p)) THEN ValueOf(p, PrimitiveAt(s, p), level)
        ELSE LET close == ClosingOf(s[p])
                 children[q \in Nat, n \in Nat, inside \in SUBSET Node] ==
                   LET child == reading[ChildAt(s, q, close), level + 1]
                       after == WhitespaceEnd(s, child.end + 1)
                       values == inside \cup child.values
                   IN  CASE child.end = 0 -> NoValue
                         [] child.end > 0 /\ At(s, after) = close ->
                              ContainerOf(s, p, after, n + 1, values, level)
                         [] child.end > 0 /\ At(s, after) = COMMA ->
                              children[WhitespaceEnd(s, after + 1), n + 1, values]
                         [] OTHER -> NoValue
                 first == WhitespaceEnd(s, p + 1)
             IN  IF At(s, first) = close
                 THEN ContainerOf(s, p, first, 0, {}, level)
                 ELSE children[first, 0, {}]
  IN  OfWhole(s, reading[WhitespaceEnd(s, 1), 0])
=============================================================================
