---------------------------- MODULE MCKasonPack ----------------------------
(***************************************************************************)
(* Four schemas, three nested, with every type, arrays of scalars          *)
(* and of structs, and defaults; and structs that hold every value a       *)
(* packer must escape, leave out or refuse.                                *)
(***************************************************************************)
EXTENDS KasonPackRef

F(key, type, policy, default) ==
  [key |-> key, type |-> type, array |-> FALSE, capacity |-> 0, size |-> 9,
   child |-> "none", policy |-> policy, default |-> default]
ArrayOf(field, n) == [field EXCEPT !.array = TRUE, !.capacity = n]
StructOf(field, child) == [field EXCEPT !.child = child]

MCFields ==
  [leaf |-> <<F(<<97>>, "BOOL", "DEFAULT", 1),
              F(<<98, 34>>, "INT", "REQUIRED", 0)>>,
   node |-> <<StructOf(F(<<99>>, "STRUCT", "DEFAULT", "leaf0"), "leaf"),
              ArrayOf(F(<<100>>, "INT", "DEFAULT", 0), 2),
              ArrayOf(StructOf(F(<<101>>, "STRUCT", "REQUIRED", 0), "leaf"), 2)>>,
   box  |-> <<StructOf(F(<<102>>, "STRUCT", "REQUIRED", 0), "node")>>,
   text |-> <<F(<<>>, "STRING", "DEFAULT", <<104, 105>>),
              F(<<195, 169>>, "STRING_U16", "DEFAULT", << >>),
              F(<<92>>, "STRING_U32", "REQUIRED", 0),
              F(<<103>>, "DOUBLE", "DEFAULT", <<48>>),
              ArrayOf(F(<<104>>, "U32", "REQUIRED", 0), 1)>>]

MCSlots == [schema \in DOMAIN MCFields |-> 8]

Items(n, items) == [count |-> n, items |-> items]

MCObjects ==
  [leaf0 |-> <<1, 0>>,
   leaf1 |-> <<0, -12>>,
   leaf2 |-> <<2, 7>>,
   node0 |-> <<"leaf0", Items(0, <<5, 6>>), Items(0, <<"leaf1", "leaf2">>)>>,
   node1 |-> <<"leaf1", Items(2, <<-1, 90>>), Items(2, <<"leaf0", "leaf1">>)>>,
   node2 |-> <<"leaf0", Items(3, <<5, 6>>), Items(0, <<"leaf0", "leaf1">>)>>,
   node3 |-> <<"leaf0", Items(1, <<8, 6>>), Items(2, <<"leaf0", "leaf2">>)>>,
   box0  |-> <<"node0">>,
   plain |-> <<<<104, 105, 0>>, <<0, 9>>, <<0>>, <<45, 48>>, Items(0, <<3>>)>>,
   \* Quotes, backslashes, control characters, all lengths of UTF-8 and a
   \* surrogate pair; units behind the NUL.
   rich  |-> <<<<34, 10, 1, 240, 159, 152, 128, 0, 255>>, <<233, 55357, 56832, 0>>,
               <<92, 8364, 31, 128512, 0, 3>>, <<49, 46, 53>>, Items(1, <<42>>)>>,
   \* Not one that can be packed from here on.
   bad8  |-> <<<<97, 195, 0>>, <<0>>, <<0>>, <<48>>, Items(0, <<3>>)>>,
   open8 |-> <<<<97, 98>>, <<0>>, <<0>>, <<48>>, Items(0, <<3>>)>>,
   bad16 |-> <<<<0>>, <<55357, 0>>, <<0>>, <<48>>, Items(0, <<3>>)>>,
   bad32 |-> <<<<0>>, <<0>>, <<56320, 0>>, <<48>>, Items(0, <<3>>)>>,
   open32 |-> <<<<0>>, <<0>>, <<97>>, <<48>>, Items(0, <<3>>)>>,
   nan   |-> <<<<0>>, <<0>>, <<0>>, << >>, Items(0, <<3>>)>>]

MCInstances ==
  [leaf |-> {"leaf0", "leaf1", "leaf2"},
   node |-> {"node0", "node1", "node2", "node3"},
   box  |-> {"box0"},
   text |-> {"plain", "rich", "bad8", "open8", "bad16", "bad32", "open32", "nan"}]

MCRoots ==
  ({"leaf"} \X {"leaf0", "leaf1"})
    \cup ({"node"} \X {"node0", "node1", "node2", "node3"})
    \cup {<<"box", "box0">>}
    \cup ({"text"} \X {"plain", "rich", "bad8", "open8", "bad16", "bad32",
                       "open32", "nan"})

MCData == {<<b>> : b \in Byte}
\* 18 bytes is the length of leaf0, 9 when its default is left out.
MCCapacities == {0, 1, 4, 9, 18, 19, 60}
=============================================================================
