------------------------------ MODULE LeafOps ------------------------------
(***************************************************************************)
(* The leaf operators (lib/mongoc-matcher-op.c): the comparisons, $in and  *)
(* $inset, $exists, $type, $size and $strlen, each a relation between the  *)
(* value in the query and a value of the document, and the loop each runs  *)
(* over the values its path leads to.                                      *)
(*                                                                         *)
(* A value is its type and, by type: n, a number, a moment, the name of a  *)
(* text or the identity of what is compared byte by byte; len, its length; *)
(* cut, the name of what a text is up to its first zero byte, which is all *)
(* that strlen, strdup and strcmp see of it; accepts, the texts a regex    *)
(* accepts (RegexCache says how); items, the elements of an array.         *)
(* Integers are narrow: int64 goes beyond what a double holds exactly      *)
(* (2^53), int32 does not.  A document is what the path finds in it, as in *)
(* ModuleOps: the value at the path itself or, when there is none and the  *)
(* path is dotted, the ones Descendants yields.                            *)
(***************************************************************************)
EXTENDS Lengths, Sequences

CONSTANTS Value,  \* the values, closed under elements
          ValueDepth, \* how deep each nests
          Ops,    \* the operators of the queries
          Docs,   \* the documents
          None,   \* no value
          NaN,    \* the number of a double that is none
          Exact   \* integers up to here have a double of their own

Number    == {"int32", "int64", "double"}
Compare   == {"eq", "ne", "gt", "gte", "lt", "lte", "in", "nin", "inset"}
Ordering  == {"gt", "gte", "lt", "lte"}
Code      == Compare \cup {"exists", "type", "size", "strlen"}

ASSUME ValueAssumption ==
  \A v \in Value : v.type = "array" => v.items \in Seq(Value)
ASSUME TextAssumption ==
  \A v, w \in Value : v.type = "text" /\ w.type = "text" /\ v.n = w.n => v.cut = w.cut
ASSUME DepthAssumption ==
  /\ ValueDepth \in [Value -> Nat]
  /\ \A v \in Value : v.type = "array" =>
       \A i \in DOMAIN v.items : ValueDepth[v.items[i]] < ValueDepth[v]
ASSUME NumberAssumption ==
  /\ Exact \in Nat
  /\ NaN \notin Int
  /\ \A v \in Value : v.type \in Number \cup {"bool", "oid"} =>
       v.n \in Int \/ (v.type = "double" /\ v.n = NaN)
ASSUME OpsAssumption  == Ops \subseteq [code : Code, dotted : BOOLEAN, spec : Value]
ASSUME DocsAssumption ==
  Docs \subseteq [direct : Value \cup {None}, spread : Seq(Value)]
ASSUME NoneAssumption == None \notin Value
-----------------------------------------------------------------------------
(***************************************************************************)
(* Native C comparison: an integer next to a double is converted to one.   *)
(***************************************************************************)
\* Past Exact every other integer has a double: the odd ones go to a neighbour,
\* the one with the even mantissa.
AsDouble(n) ==
  IF n \in -Exact .. Exact \/ n % 2 = 0 THEN n ELSE 4 * ((n + 1) \div 4)

SeenBeside(v, w) ==
  IF w.type = "double" /\ v.type # "double" THEN AsDouble(v.n) ELSE v.n

\* Mutant: equality without the conversion.
NativeExactEq(code, l, r) ==
  /\ l.n # NaN /\ r.n # NaN
  /\ IF code = "eq" THEN l.n = r.n ELSE Rel(code, SeenBeside(r, l), SeenBeside(l, r))
\* l is in the query, r in the document, the left operand of the comparison.
Native(code, l, r) ==
  /\ l.n # NaN /\ r.n # NaN
  /\ Rel(code, SeenBeside(r, l), SeenBeside(l, r))

\* The rows of the tables for numbers; a boolean only in the document.
Numeric(code, l, r) == l.type \in Number /\ r.type \in Number \cup {"bool"}
-----------------------------------------------------------------------------
(***************************************************************************)
(* _mongoc_matcher_iter_eq_match                                           *)
(***************************************************************************)
AnyElement == {"text", "regex", "oid", "bool", "date", "timestamp", "binary"} \cup Number

\* What the table says of l and r; eq is what it says of their elements.
EqOf(l, r, eq) ==
  \/ Numeric("eq", l, r) /\ Native("eq", l, r)
  \/ l.type = r.type /\ l.type \in {"date", "oid", "bool", "text", "doc"} /\ l.n = r.n
  \/ l.type = "regex" /\ r.type = "text" /\ r.n \in l.accepts
  \/ l.type = "null" /\ r.type \in {"null", "undefined"}
  \/ /\ l.type = "array" /\ r.type = "array"
     /\ Len(l.items) = Len(r.items)
     /\ \A i \in DOMAIN l.items : eq[<<l.items[i], r.items[i]>>]
  \/ /\ l.type \in AnyElement /\ r.type = "array"
     /\ \E i \in DOMAIN r.items : eq[<<l, r.items[i]>>]

Eq[p \in Value \X Value] == EqOf(p[1], p[2], Eq)
-----------------------------------------------------------------------------
(***************************************************************************)
(* The four orderings: their tables have the same rows.                    *)
(***************************************************************************)
\* An object id begins with the second it was made in.
OidTime(n) == 2 * (n \div 2)

OrderedOf(code, l, r, ordered) ==
  \/ Numeric(code, l, r) /\ Native(code, l, r)
  \/ l.type = r.type /\ l.type \in {"date", "oid"} /\ Rel(code, r.n, l.n)
  \/ l.type = "date" /\ r.type = "oid" /\ Rel(code, OidTime(r.n), l.n)
  \/ /\ l.type \in Number \cup {"date", "oid", "timestamp"} /\ r.type = "array"
     /\ \E i \in DOMAIN r.items : ordered[<<code, l, r.items[i]>>]

Ordered[p \in Ordering \X Value \X Value] == OrderedOf(p[1], p[2], p[3], Ordered)

Gt(l, r)  == Ordered[<<"gt", l, r>>]
Gte(l, r) == Ordered[<<"gte", l, r>>]
Lt(l, r)  == Ordered[<<"lt", l, r>>]
Lte(l, r) == Ordered[<<"lte", l, r>>]
-----------------------------------------------------------------------------
Elements(v) == IF v.type = "array" THEN {v.items[i] : i \in DOMAIN v.items} ELSE {}

\* _mongoc_matcher_op_in_match
In(l, r) == \E e \in Elements(l) : Eq[<<e, r>>]

\* Mutant: empty strings are left out.
KeysNotEmpty(l) == {e.cut : e \in {e \in Elements(l) : e.type = "text" /\ e.len > 0}}
\* The hash table of _mongoc_matcher_op_inset_new: strings only, each copied by
\* bson_strdup and counted by strlen.
Keys(l) == {e.cut : e \in {e \in Elements(l) : e.type = "text"}}

\* _mongoc_matcher_op_inset_match: HASH_FIND_STR takes the strlen of its key.
InSetOf(l, r, inset) ==
  \/ r.type = "text"  /\ r.cut \in Keys(l)
  \/ r.type = "array" /\ \E i \in DOMAIN r.items : inset[<<l, r.items[i]>>]

InSet[p \in Value \X Value] == InSetOf(p[1], p[2], InSet)

\* _mongoc_matcher_op_compare_match_iter
CompareIter(code, l, r) ==
  CASE code = "eq"    -> Eq[<<l, r>>]
    [] code = "ne"    -> ~Eq[<<l, r>>]
    [] code = "gt"    -> Gt(l, r)
    [] code = "gte"   -> Gte(l, r)
    [] code = "lt"    -> Lt(l, r)
    [] code = "lte"   -> Lte(l, r)
    [] code = "in"    -> In(l, r)
    [] code = "nin"   -> ~In(l, r)
    [] code = "inset" -> InSet[<<l, r>>]
-----------------------------------------------------------------------------
\* _mongoc_matcher_op_type_new: a name, or the type of the value that is given.
\* (dbPointer, symbol, minKey and maxKey are left out.)
TypesNamed(name) ==
  CASE name = "string"   -> {"text"}
    [] name = "integer"  -> {"int32", "int64"}
    [] name = "number"   -> Number
    [] name = "int"      -> {"int32"}
    [] name = "long"     -> {"int64"}
    [] name = "objectId" -> {"oid"}
    [] name = "object"   -> {"doc"}
    [] name = "binData"  -> {"binary"}
    [] name \in {"double", "bool", "date", "timestamp", "array", "null", "regex"} -> {name}
    [] OTHER             -> {"undefined"}

TypesOf(spec) ==
  IF spec.type # "text" THEN {spec.type}
  ELSE IF spec.len = 0 THEN {"text"} ELSE TypesNamed(spec.cut)

\* _mongoc_matcher_op_size_get_iter_len
IterLen(v) ==
  CASE v.type = "array" -> Len(v.items)
    [] v.type = "null"  -> 0
    [] OTHER            -> 1

\* What the loop of an operator asks of one value; that of $size asks nothing.
Satisfies(op, v) ==
  \/ op.code \in Compare /\ CompareIter(op.code, op.spec, v)
  \/ op.code = "type" /\ v.type \in TypesOf(op.spec)
  \/ op.code = "strlen" /\ v.type \in {"text", "binary", "regex"} /\ LengthMatch(op.spec, v.len)
  \/ op.code = "exists"
=============================================================================
