---------------------------- MODULE MCProjection ----------------------------
(***************************************************************************)
(* Documents with two fields, commands with one or two entries.            *)
(***************************************************************************)
EXTENDS Projection

Item(k, v) == [key |-> k, val |-> v]
S(n)       == [type |-> "scalar", n |-> n]
N          == [type |-> "null"]
Doc(items) == [type |-> "doc", items |-> items]
Arr(vs)    == [type |-> "array",
               items |-> [i \in DOMAIN vs |-> Item((<<"0", "1", "2">>)[i], vs[i])]]
B(v)       == Doc(<<Item("b", v)>>)

Leaf == {S(1), N, Arr(<< >>), Arr(<<S(1), S(2)>>), Arr(<<S(1), N>>), Arr(<<Arr(<<S(1), S(2)>>), S(3)>>)}
Mid  == {B(v) : v \in Leaf}
As   == Leaf \cup Mid \cup {Arr(<<u, v>>) : u, v \in Mid}
             \cup {Arr(<<B(S(1)), u, B(S(3))>>) : u \in {S(2), B(S(2)), B(Arr(<<S(4), S(5)>>))}}

Cs   == {S(7), Arr(<<B(S(7)), B(S(8))>>)}
Tops == As \cup Cs

MCDocs == {<<Item("a", u), Item("c", v)>> : u \in As, v \in Cs}

\* The values in them.
Inside(vals) == UNION {{e.val : e \in Range(v.items)} : v \in {v \in vals : Container(v)}}
Shallow      == Tops \cup Inside(Tops)
MCValue      == Shallow \cup Inside(Shallow) \cup Inside(Inside(Shallow))
MCKeys       == {"a", "b", "c", "x", "0", "1", "2", "dotted"}

MCValueDepth[v \in MCValue] ==
  IF ~Container(v) \/ v.items = << >> THEN 0
  ELSE 1 + Max({MCValueDepth[e.val] : e \in Range(v.items)})

Flag(p)       == [key |-> p, type |-> "flag"]
Renamed(p, q) == [key |-> p, type |-> "utf8", as |-> q]
List(p, ps)   == [key |-> p, type |-> "document", found |-> ps]
Other(p)      == [key |-> p, type |-> "other"]

A  == <<"a">>
AB == <<"a", "b">>
C  == <<"c">>
CB == <<"c", "b">>
X  == <<"x">>

Entries ==
  {<< >>, <<Flag(A)>>, <<Flag(AB)>>, <<Renamed(AB, X)>>, <<Other(A)>>, <<Flag(A), Other(C)>>,
   <<Other(C), Flag(A)>>, <<Flag(C), Renamed(AB, X)>>, <<Flag(A), Flag(C)>>, <<List(X, << >>)>>,
   <<List(X, <<AB>>)>>, <<Flag(C), List(X, <<AB>>)>>,
   <<List(X, <<A, AB>>)>>, <<Flag(<<"a", "$any">>)>>}
    \cup {<<List(X, <<p, q>>), Flag(A)>> : p, q \in {A, AB, C, CB}}
    \cup {<<List(X, <<AB, CB, A>>)>>, <<List(X, <<C, A, CB>>)>>}

Project(es) == [name |-> "$project", entries |-> es]
Query(q)    == [name |-> "$query", query |-> q, refused |-> FALSE]
Refused     == [name |-> "$query", query |-> {}, refused |-> TRUE]
OtherPart   == [name |-> "other"]
XIs(ns)     == [path |-> X, wants |-> {S(n) : n \in ns}]
XBIs(ns)    == [path |-> <<"x", "b">>, wants |-> {S(n) : n \in ns}]
Queries     == {NoQuery, {XIs({1})}, {XBIs({2, 3})}, {XBIs({1}), XBIs({2, 3})},
                {XIs({1, 2}), XIs({2, 3})}}

Unwinds ==
  {<< >>, <<OtherPart>>, <<Project(<<Flag(A)>>)>>, <<Query({XIs({1})})>>}
    \cup {<<Project(es), Query(q)>> :
            es \in {<< >>, <<Renamed(A, X)>>, <<Renamed(AB, X)>>, <<Renamed(A, X), Flag(C)>>,
                    <<List(X, <<A, C>>)>>, <<Flag(AB)>>}, q \in Queries}
    \cup {<<Query(q), OtherPart, Project(<<Flag(A)>>), Project(<<Renamed(AB, X)>>)>> : q \in Queries}
    \cup {<<Query({XBIs({2, 3})}), Project(<<Renamed(A, X)>>), q>> :
            q \in {Query({}), Query({XIs({1})}), Refused}}

MCCommands ==
  {[name |-> n, parts |-> <<Project(es)>>] : n \in {"$project", "$redact"}, es \in Entries}
    \cup {[name |-> "$unwind", parts |-> ps] : ps \in Unwinds}
=============================================================================
