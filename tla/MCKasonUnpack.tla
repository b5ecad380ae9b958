---------------------------- MODULE MCKasonUnpack ----------------------------
(***************************************************************************)
(* Schemas: of every type, of structs in structs and in arrays, with as    *)
(* many fields as a mask has bits, and nested one level too deep; and      *)
(* others that cannot be initialised.  Documents with members that fit,    *)
(* that do not, that are missing, unknown or said twice, and documents     *)
(* that are cut or go on after their end.                                  *)
(***************************************************************************)
EXTENDS KasonUnpackRef

F(key, type, policy, default) ==
  [key |-> <<key>>, type |-> type, array |-> FALSE, capacity |-> 1, size |-> 3,
   child |-> "none", policy |-> policy, default |-> default]
ArrayOf(field, n) == [field EXCEPT !.array = TRUE, !.capacity = n]
StructOf(field, child) == [field EXCEPT !.child = child]

MCFields ==
  [leaf |-> <<F(97, "INT", "REQUIRED", 0), F(98, "STRING", "DEFAULT", <<120, 121>>)>>,
   full |-> <<F(97, "BOOL", "REQUIRED", 0), ArrayOf(F(98, "INT64", "DEFAULT", 0), 2),
              StructOf(F(99, "STRUCT", "DEFAULT", "leaf0"), "leaf")>>,
   list |-> <<ArrayOf(StructOf(F(97, "STRUCT", "REQUIRED", 0), "leaf"), 2)>>,
   box  |-> <<StructOf(F(97, "STRUCT", "REQUIRED", 0), "list")>>,
   nums |-> <<F(97, "U32", "REQUIRED", 0), F(98, "U64", "DEFAULT", 200), F(99, "DOUBLE", "DEFAULT", <<48>>)>>,
   real |-> <<ArrayOf(F(97, "DOUBLE", "DEFAULT", 0), 2), F(98, "DOUBLE", "REQUIRED", 0)>>,
   text |-> <<F(97, "STRING_U16", "REQUIRED", 0), F(98, "STRING_U32", "DEFAULT", <<233>>),
              ArrayOf(F(99, "STRING", "DEFAULT", 0), 1)>>,
   twin |-> <<F(97, "INT", "REQUIRED", 0), F(97, "BOOL", "REQUIRED", 0)>>,
   long |-> <<F(97, "STRING", "DEFAULT", <<120, 121, 122>>)>>,
   wide |-> [k \in 1..4 |-> F(96 + k, "INT", "REQUIRED", 0)],
   part |-> <<F(97, "INT", "REQUIRED", 0), ArrayOf(F(98, "STRING", "REQUIRED", 0), 2)>>,
   base |-> <<StructOf(F(97, "STRUCT", "DEFAULT", "part0"), "part"),
              ArrayOf(StructOf(F(98, "STRUCT", "DEFAULT", 0), "part"), 1)>>,
   self |-> <<StructOf(F(97, "STRUCT", "REQUIRED", 0), "self")>>]
MCSlots == [schema \in DOMAIN MCFields |-> 4]
\* Behind the count of an array is what the memory held before.
MCObjects ==
  [leaf0 |-> <<7, <<122, 0, 0>>>>,
   part0 |-> <<7, [count |-> 1, items |-> <<<<122, 0, 0>>, <<122, 122, 122>>>>]>>]
MCInstances ==
  [schema \in DOMAIN MCFields |->
     CASE schema = "leaf" -> {"leaf0"} [] schema = "part" -> {"part0"} [] OTHER -> {}]
MCRoots == {"leaf", "full", "list", "box", "nums", "real", "text", "long", "base", "self"}
MCSetups == {<<"leaf", "full", "list", "box", "nums", "real", "text", "twin", "long", "wide", "part", "base", "self">>,
             <<"list", "leaf", "box", "full", "leaf">>}

-----------------------------------------------------------------------------
Str(t) == <<QUOTE>> \o t \o <<QUOTE>>
Obj(t) == <<OBJECT_START>> \o t \o <<OBJECT_END>>
Arr(t) == <<ARRAY_START>> \o t \o <<ARRAY_END>>
Key(k, v) == Str(<<k>>) \o <<COLON>> \o v
And(v, w) == v \o <<COMMA>> \o w
One == <<49>>
Decimal(n) ==
  LET digits[m \in Nat] == (IF m < 10 THEN << >> ELSE digits[m \div 10]) \o <<ZERO + (m % 10)>>
  IN  digits[n]
Minus(t) == <<MINUS>> \o t

Ints == {One, Minus(Decimal(13)), Decimal(12), Decimal(13), <<49, POINT, 53>>}
Texts == {Str(<< >>), Str(<<104, 105>>), Str(<<104, 105, 106>>), Str(<<BACKSLASH, LETTER_U, 48, 48, 48, 48>>),
          Str(<<240, 159, 152, 128>>), Str(<<BACKSLASH, LETTER_U, 48, 48, 48, 48, 104, 105>>)}
Leaves ==
  {Obj(Key(97, v)) : v \in Ints \cup {TEXT_TRUE, Str(One)}}
    \cup {Obj(And(Key(97, One), Key(98, v))) : v \in Texts \cup {One}}
    \cup {Obj(<< >>), Obj(And(Key(97, One), Key(97, One))), Obj(And(Key(98, Str(<< >>)), Key(97, One))),
          Obj(And(Key(120, Arr(Arr(One))), Key(97, One))), Obj(And(Key(97, One), Key(120, One)))}
SomeLeaves == {Obj(Key(97, One)), Obj(Key(98, Str(<< >>))), Obj(Key(97, Decimal(13))), Obj(<< >>),
               Obj(And(Key(97, Minus(One)), Key(98, Str(<<104>>))))}
Arrays == {Arr(<< >>), Arr(<<32>>), Arr(And(One, Decimal(127))), Arr(And(One, Minus(Decimal(128)))), Arr(Decimal(128)),
           Arr(And(One, And(One, One))), Arr(Arr(One)), Arr(And(One, TEXT_TRUE)), One}
Fulls ==
  {Obj(And(Key(97, TEXT_TRUE), Key(98, v))) : v \in Arrays}
    \cup {Obj(And(Key(97, TEXT_FALSE), Key(99, v))) : v \in SomeLeaves \cup {Arr(<< >>)}}
    \cup {Obj(And(Key(99, v), And(Key(98, Arr(One)), Key(97, TEXT_TRUE)))) : v \in SomeLeaves}
    \cup {Obj(And(Key(98, Arr(<< >>)), And(Key(98, Arr(One)), Key(97, TEXT_TRUE))))}
Lists ==
  {Obj(Key(97, Arr(v))) : v \in SomeLeaves}
    \cup {Obj(Key(97, Arr(And(Obj(Key(97, One)), v)))) : v \in SomeLeaves \cup {One}}
    \cup {Obj(Key(97, v)) : v \in {Obj(<< >>), Obj(Key(97, Arr(<< >>))), Obj(Key(97, Arr(Obj(<< >>))))}}
Nums ==
  {Obj(Key(97, Decimal(v))) : v \in {0, 127, 128, 255, 256}} \cup {Obj(Key(97, Minus(<<ZERO>>)))}
    \cup {Obj(And(Key(97, One), Key(98, Decimal(v)))) : v \in {255, 256}}
    \cup {Obj(And(Key(97, One), Key(99, v))) : v \in {<<49, POINT, 53>>, TEXT_TRUE}}
\* Doubles at both ends of the range, of which the first is one digit's rounding.
Exponent(e) == <<101>> \o e
Doubles ==
  {<<57, 57, 53>> \o Exponent(Decimal(9)), <<57, 57, 52>> \o Exponent(Decimal(9)), Minus(One \o Exponent(Decimal(99))),
   One \o Exponent(Minus(Decimal(13))), One \o Exponent(Minus(Decimal(14))), <<ZERO>> \o Exponent(Decimal(99)),
   <<ZERO, POINT, ZERO, 49>> \o Exponent(Decimal(13)), <<ZERO, POINT, ZERO, 49>> \o Exponent(Decimal(14))}
Reals ==
  {Obj(Key(98, v)) : v \in Doubles \cup {Str(One)}}
    \cup {Obj(And(Key(97, Arr(And(One, v))), Key(98, One))) : v \in Doubles \cup {TEXT_TRUE}}
    \cup {Obj(And(Key(98, One \o Exponent(Decimal(99))), Key(98, One)))}
Strings ==
  {Obj(Key(97, v)) : v \in Texts}
    \cup {Obj(And(Key(97, Str(<< >>)), Key(98, v))) : v \in Texts}
    \cup {Obj(And(Key(97, Str(<< >>)), Key(99, v))) : v \in {Arr(Str(<<104>>)), Arr(Str(<<104, 105, 106>>)), Arr(And(Str(<< >>), Str(<< >>)))}}
Bases ==
  {Obj(<< >>)}
    \cup {Obj(Key(k, v)) : k \in {97}, v \in {Obj(Key(97, One)), Obj(And(Key(97, One), Key(98, Arr(<< >>))))}}
    \cup {Obj(Key(97, Obj(And(Key(98, Arr(And(Str(<< >>), v))), Key(97, One))))) : v \in {Str(<<104>>), Str(<<104, 105, 106>>)}}
    \cup {Obj(Key(98, Arr(Obj(And(Key(98, Arr(v)), Key(97, One)))))) : v \in {<< >>, Str(<< >>)}}
Good == Leaves \cup Bases \cup Fulls \cup Lists \cup Nums \cup Reals \cup Strings
\* Cut, or with something behind; a name that is escaped; not an object.
SomeGood == {Obj(And(Key(97, One), Key(98, Str(<<104>>)))),
             Obj(And(Key(97, TEXT_TRUE), And(Key(98, Arr(One)), Key(99, Obj(Key(97, One)))))),
             Obj(And(Key(97, One), And(Key(98, One), Key(99, One))))}
Broken ==
  UNION {{SubSeq(d, 1, k) : k \in 0..Len(d)} \cup {d \o s : s \in {<<32>>, <<COMMA>>, d}} : d \in SomeGood}
    \cup {SubSeq(d, 1, Len(d) - 1) \o s : d \in SomeGood, s \in {<<COMMA>>, <<COMMA>> \o Key(97, TEXT_TRUE), <<COMMA, 32, OBJECT_END>>}}
Others ==
  {<<32>> \o Obj(<<QUOTE, BACKSLASH, LETTER_U, 48, 48, 54, 49, QUOTE, COLON>> \o One), Arr(Obj(<< >>)), One, << >>,
   Obj(Key(97, Obj(Key(97, Obj(Key(97, One)))))), Obj(Key(97, Arr(Arr(Obj(<< >>)))))}
MCDocuments == Good \cup Broken \cup Others
MCLater == {Obj(And(Key(97, One), Key(98, Str(<<104>>)))), Obj(Key(97, TEXT_TRUE)),
            Obj(Key(97, Arr(<< >>))), Obj(Key(97, Str(<< >>))), Obj(<< >>)}
=============================================================================
