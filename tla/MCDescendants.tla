---------------------------- MODULE MCDescendants ----------------------------
(***************************************************************************)
(* Small documents for TLC: one field at the top, values three levels deep,*)
(* and some that have a key twice.                                         *)
(***************************************************************************)
EXTENDS Descendants

Item(k, v) == [key |-> k, val |-> v]
S          == [type |-> "scalar"]
Doc(items) == [type |-> "doc", items |-> items]
Arr(vs)    == [type |-> "array",
               items |-> [i \in DOMAIN vs |-> Item((<<"0", "1", "2">>)[i], vs[i])]]

\* Documents and arrays over the values of a set.
Around(vals) ==
  {Doc(<<Item("b", v)>>) : v \in vals}
    \cup {Arr(<<v>>) : v \in vals} \cup {Arr(<<v, w>>) : v, w \in vals}

V1 == {S, Doc(<< >>), Arr(<< >>), Doc(<<Item("b", S), Item("c", S)>>), Arr(<<S, S>>)}
V2 == V1 \cup Around({S, Doc(<<Item("c", S)>>), Doc(<<Item("b", S)>>), Arr(<<S>>)})
V3 == V2 \cup Around(V2)
        \cup {Arr(<<u, v, w>>) : u, v, w \in {S, Doc(<<Item("b", S)>>)}}

\* Those and the values in them, the ones with a key twice last.
Twice == {Doc(<<Item("b", v), Item("b", w)>>) : v, w \in {S, Doc(<<Item("c", S)>>)}}
MCValue == V3 \cup {Doc(<<Item("c", S)>>), Doc(<<Item("b", S)>>), Arr(<<S>>)}
              \cup Twice \cup {Arr(<<v, w>>) : v, w \in Twice}

MCKeys == {"a", "b", "c", "0", "1", "2"}

MCDocuments == {<<Item("a", v)>> : v \in MCValue} \cup {<<Item("b", S)>>}
            \cup {<<Item("a", v), Item("a", w)>> : v, w \in V1 \cup Twice \cup {Arr(<<Doc(<<Item("b", S)>>), S>>)}}

MCPaths ==
  {<<"a", "b">>, <<"a", "b", "c">>, <<"a", "b", "b">>, <<"a", "0">>, <<"a", "0", "b">>,
   <<"a", "b", "0">>, <<"a", "$any">>, <<"a", "$any", "b">>, <<"a", "b", "$any">>,
   <<"a", "b", "0", "c">>}
=============================================================================
