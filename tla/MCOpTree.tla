------------------------------ MODULE MCOpTree ------------------------------
(***************************************************************************)
(* Small queries for TLC: every clause built from a few leaves, one        *)
(* refused clause of each sort and one level of nesting (two under $not).  *)
(***************************************************************************)
EXTENDS OpTreeMeaning

LeafC(a)    == [kind |-> "leaf", atom |-> a]
BadC(how)   == [kind |-> "bad", how |-> how]
NotC(c)     == [kind |-> "not", kid |-> c]
ExistsC(a, s)    == [kind |-> "exists", atom |-> a, spec |-> s]
LogicalC(op, es) == [kind |-> "logical", op |-> op, elems |-> es]
CondC(ps)        == [kind |-> "cond", parts |-> ps]

Leaves == {LeafC("a"), LeafC("b")}
Bads   == {BadC("error"), BadC("silent")}
Small  == Leaves \cup {BadC("error")}

\* Lists of up to two members of S or exactly three of T: a third clause is
\* where parse_logical calls itself.
Lists(S, T) == UNION {[1 .. k -> S] : k \in 0 .. 2} \cup [1 .. 3 -> T]

Nots    == {NotC(c) : c \in Leaves \cup Bads} \cup {NotC(NotC(LeafC("a")))}
Exs     == {ExistsC("a", s) : s \in {<< >>, <<LeafC("b")>>, <<BadC("error")>>}}
\* Elements of arrays: documents with one small clause, or no document.
Elems   == {<<c>> : c \in Small} \cup {<< >>}
Logicals ==
  {LogicalC(op, es) : op \in Opcode, es \in Lists(Elems, Elems \ {<<LeafC("b")>>})}

Item(p, e) == [part |-> p, elem |-> e]
Orders  == {<<"if", "then", "else">>, <<"else", "if", "then">>}
Branch  == {<<LeafC("a")>>, <<LeafC("b")>>, <<BadC("silent")>>}
Conds   ==
  {CondC([i \in 1 .. 3 |-> Item(o[i], e[i])]) :
     o \in Orders, e \in [1 .. 3 -> Branch]}
  \cup {CondC([i \in 1 .. 4 |-> Item((<<"if", "then", "else", "if">>)[i], e[i])]) :
     e \in {[i \in 1 .. 4 |-> IF i = 4 THEN b ELSE <<LeafC("a")>>] :
               b \in Branch \cup {<< >>}}}
  \cup {CondC([i \in 1 .. 2 |-> Item((<<"if", "then">>)[i], <<LeafC("a")>>)])}

\* One more level: a list, a $cond or an $exists inside a list.
Inner   == {LogicalC(op, <<e, f>>) : op \in Opcode, e, f \in {<<c>> : c \in Leaves}}
             \cup {NotC(LeafC("b")), ExistsC("b", <<LeafC("a")>>),
                   CondC(<<Item("if", <<LeafC("a")>>), Item("then", <<LeafC("b")>>),
                           Item("else", <<NotC(LeafC("b"))>>)>>)}
Nested  == {LogicalC(op, es) : op \in Opcode,
              es \in {<<<<x>>, <<LeafC("a")>>>> : x \in Inner}
                       \cup {<<<<LeafC("b")>>, <<x>>, <<LeafC("a")>>>> : x \in Inner}}

MCAtom   == {"a", "b"}
MCClause == Leaves \cup Bads \cup {BadC("abort")} \cup Nots \cup Exs
              \cup Logicals \cup Conds \cup Inner \cup Nested

MCDepth[c \in MCClause] ==
  IF Subs(c) = {} THEN 0 ELSE 1 + Max({MCDepth[k] : k \in Subs(c)})

Flat     == Leaves \cup Bads \cup {BadC("abort"), NotC(LeafC("a"))}
              \cup {NotC(BadC("silent"))} \cup Exs
MCQueries ==
  Lists(Flat, {LeafC("a"), LeafC("b"), BadC("error"), BadC("abort")})
    \cup {<<c>> : c \in Nots \cup Logicals \cup Conds \cup Nested}
    \cup {<<LeafC("b"), c>> : c \in Nested}
=============================================================================
