---------------------------- MODULE MCLeafMatch ----------------------------
(***************************************************************************)
(* A few values of every type for TLC: integers to 5 where a double is     *)
(* exact to 4, so that 4 and 5 meet as doubles; arrays, one of them nested;*)
(* texts with a zero byte: 'x\0y' and one with nothing before it.          *)
(***************************************************************************)
EXTENDS LeafMatch

N(type, n)   == [type |-> type, n |-> n]
T(name, len) == [type |-> "text", n |-> name, len |-> len, cut |-> name]
Z(name, len, cut) == [type |-> "text", n |-> name, len |-> len, cut |-> cut]
R(texts)     == [type |-> "regex", n |-> "re", len |-> 2, accepts |-> texts]
A(items)     == [type |-> "array", items |-> items]
SizeDoc(code, v) == [type |-> "doc", n |-> "size", key |-> code, val |-> v]

Numbers ==
  {N("int32", n) : n \in -1 .. 2} \cup {N("int64", n) : n \in {1, 2, 4, 5}}
    \cup {N("double", n) : n \in {1, 4, NaN}}

Scalars ==
  Numbers \cup {N("bool", n) : n \in 0 .. 1} \cup {N("date", n) : n \in 2 .. 3}
    \cup {N("oid", n) : n \in 2 .. 4} \cup {N("doc", "d"), N("null", 0)}
    \cup {N("undefined", 0), N("timestamp", 1)}
    \cup {[type |-> "binary", n |-> "bytes", len |-> 2]}
    \cup {T("integer", 7), T("x", 1), T("", 0), R({"x", ""})}
    \cup {Z("x0y", 3, "x"), Z("0y", 2, ""), Z("integer0", 8, "integer")}

Arrays ==
  {A(<< >>), A(<<N("int32", 1)>>), A(<<T("x", 1), N("int64", 5)>>),
   A(<<A(<<N("int32", 2)>>)>>), A(<<T("x", 1), T("", 0)>>), A(<<N("null", 0)>>),
   A(<<Z("x0y", 3, "x")>>), A(<<T("x", 1)>>),
   A(<<N("date", 2), N("oid", 3)>>), A(<<N("bool", 1), N("double", NaN)>>)}

MCValue == Scalars \cup Arrays \cup {A(<<N("int32", 2)>>)}

Sizes == {N("int32", n) : n \in {-1, 0, 2}} \cup {N("int64", 1)}
           \cup {SizeDoc(code, N("int32", n)) :
                   code \in {"gt", "gte", "lt", "lte", "eq", "not", "other"}, n \in 0 .. 2}

MCOps ==
  [code : Compare \cup {"type"}, dotted : BOOLEAN, spec : MCValue]
    \cup [code : {"size", "strlen"}, dotted : BOOLEAN, spec : Sizes]
    \cup [code : {"exists"}, dotted : BOOLEAN, spec : {N("bool", 0), N("bool", 1)}]

Few == {N("int32", 1), N("double", 4), N("bool", 1), N("null", 0), T("x", 1),
        A(<<T("x", 1), N("int64", 5)>>)}

MCDocs ==
  {[direct |-> v, spread |-> << >>] : v \in MCValue}
    \cup {[direct |-> None, spread |-> vs] : vs \in {<< >>} \cup [1 .. 2 -> Few]}

AllValue == MCValue \cup Sizes

\* The arrays nest in one array at most.
Depths ==
  [v \in AllValue |->
     CASE v \in Scalars \cup Sizes -> 0
       [] \A e \in Elements(v) : e \in Scalars -> 1
       [] OTHER -> 2]
=============================================================================
