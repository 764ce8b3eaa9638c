-------------------------- MODULE LeafMatchProofs --------------------------
(***************************************************************************)
(* Proofs about the loop of the leaf operators, for every set of values,   *)
(* operators and documents, and whatever the operators ask of a value.     *)
(***************************************************************************)
EXTENDS LeafMatch, Recursion, TLAPS, FiniteSetTheorems, FunctionTheorems

\* The operators whose loop stops at the first value that satisfies them.
Seekers == Compare \cup {"type", "strlen"}

Placed ==
  /\ op \in Ops
  /\ doc \in Docs
  /\ at \in {"start", "loop", "done"}
  /\ checked \in 0 .. Len(doc.spread)

\* Before the loop nothing is seen or found; in it, found says whether one of the
\* values that were seen satisfies the operator.
LoopOK ==
  /\ at = "start" => checked = 0 /\ ~found
  /\ at = "loop" =>
       /\ doc.direct = None
       /\ op.dotted
       /\ op.code \in Seekers =>
            (found <=> \E i \in 1 .. checked : Satisfies(op, doc.spread[i]))

Inv == Placed /\ LoopOK /\ AnyValueWill

\* A document has a value at the path or none, and a list of others.
LEMMA DocType ==
  ASSUME NEW d \in Docs
  PROVE  d.direct \in Value \cup {None} /\ d.spread \in Seq(Value) /\ Len(d.spread) \in Nat
  BY DocsAssumption

\* A match begins with nothing seen.
LEMMA InitInv == Init => Inv
<1> SUFFICES ASSUME Init PROVE Inv
  OBVIOUS
<1>1. Placed
  BY DocType DEF Init, Placed
<1>2. LoopOK /\ AnyValueWill
  BY DEF Init, LoopOK, AnyValueWill
<1> QED
  BY <1>1, <1>2 DEF Inv

\* Every step of the match keeps the invariant.
LEMMA NextInv == Inv /\ [Next]_vars => Inv'
<1> SUFFICES ASSUME Inv, [Next]_vars PROVE Inv'
  OBVIOUS
<1> USE DEF Inv
<1>d. doc.direct \in Value \cup {None} /\ doc.spread \in Seq(Value) /\ Len(doc.spread) \in Nat
  BY DocType DEF Placed
<1>1. CASE MatchDirect
  <2>1. Placed'
    BY <1>1 DEF MatchDirect, Placed
  <2>2. LoopOK'
    BY <1>1 DEF MatchDirect, LoopOK
  <2>3. ASSUME op.code \in Seekers
        PROVE  result' <=> \E i \in DOMAIN Values' : Satisfies(op', Values'[i])
    <3>1. result' = Satisfies(op, doc.direct)
      BY <1>1, <2>3 DEF MatchDirect, Seekers, Compare
    <3>2. Values' = <<doc.direct>> /\ op' = op
      BY <1>1 DEF MatchDirect, Values
    <3> QED
      BY <3>1, <3>2
  <2> QED
    BY <1>1, <2>1, <2>2, <2>3 DEF AnyValueWill, MatchDirect, Seekers
<1>2. CASE MatchMissing
  <2>1. Placed'
    BY <1>2 DEF MatchMissing, Placed
  <2>2. LoopOK'
    BY <1>2 DEF MatchMissing, LoopOK
  <2>3. Values' = << >>
    BY <1>2 DEF MatchMissing, Values
  <2>4. op.code \in Seekers => ~result'
    BY <1>2 DEF MatchMissing, Seekers, Compare
  <2> QED
    BY <1>2, <2>1, <2>2, <2>3, <2>4 DEF AnyValueWill, MatchMissing, Seekers
<1>3. CASE EnterLoop
  <2>1. Placed'
    BY <1>3 DEF EnterLoop, Placed
  <2>2. LoopOK'
    BY <1>3 DEF EnterLoop, LoopOK
  <2> QED
    BY <1>3, <2>1, <2>2 DEF AnyValueWill, EnterLoop
<1>4. CASE NextValue
  <2>1. Placed'
    BY <1>4, <1>d DEF NextValue, Placed
  <2>2. LoopOK'
    <3>1. ASSUME op.code \in Seekers
          PROVE  found' <=> \E i \in 1 .. checked' : Satisfies(op, doc.spread[i])
      <4>1. \A i \in 1 .. checked : ~Satisfies(op, doc.spread[i])
        BY <1>4, <3>1 DEF NextValue, LoopOK
      <4>2. found' = Satisfies(op, doc.spread[checked + 1])
        BY <1>4 DEF NextValue
      <4>3. checked \in Nat /\ checked' = checked + 1
        BY <1>4, <1>d DEF NextValue, Placed
      <4>4. \A i \in 1 .. checked' : i \in 1 .. checked \/ i = checked + 1
        BY <4>3
      <4>5. checked + 1 \in 1 .. checked'
        BY <4>3
      <4> QED
        BY <4>1, <4>2, <4>4, <4>5
    <3> QED
      BY <1>4, <3>1 DEF NextValue, LoopOK
  <2> QED
    BY <1>4, <2>1, <2>2 DEF AnyValueWill, NextValue
<1>5. CASE EndLoop
  <2>1. Placed'
    BY <1>5 DEF EndLoop, Placed
  <2>2. LoopOK'
    BY <1>5 DEF EndLoop, LoopOK
  <2>3. ASSUME op.code \in Seekers
        PROVE  result' <=> \E i \in DOMAIN Values' : Satisfies(op', Values'[i])
    <3>1. result' = found
      BY <1>5, <2>3 DEF EndLoop, Seekers, Compare
    <3>2. Values' = doc.spread /\ op' = op
      BY <1>5 DEF EndLoop, Values, LoopOK
    <3>3. DOMAIN doc.spread = 1 .. Len(doc.spread) /\ 1 .. checked \subseteq DOMAIN doc.spread
      BY <1>d DEF Placed
    <3>4. found <=> \E i \in 1 .. checked : Satisfies(op, doc.spread[i])
      BY <1>5, <2>3 DEF EndLoop, LoopOK
    <3>5. found \/ 1 .. checked = DOMAIN doc.spread
      BY <1>5, <3>3 DEF EndLoop
    <3> QED
      BY <3>1, <3>2, <3>3, <3>4, <3>5
  <2> QED
    BY <1>5, <2>1, <2>2, <2>3 DEF AnyValueWill, EndLoop, Seekers
<1>6. CASE Stay \/ UNCHANGED vars
  BY <1>6 DEF Stay, vars, Placed, LoopOK, AnyValueWill, Values
<1> QED
  BY <1>1, <1>2, <1>3, <1>4, <1>5, <1>6 DEF Next

\* A comparison, a $type or a $strlen holds of a document exactly when one of the
\* values on its path satisfies it: the early exits of the loops in
\* _mongoc_matcher_op_compare_match, _type_match and _strlen_match lose none.
THEOREM AnyValueDecides == Spec => []AnyValueWill
<1>1. Inv => AnyValueWill
  BY DEF Inv
<1> QED
  BY <1>1, InitInv, NextInv, PTL DEF Spec
-----------------------------------------------------------------------------
(***************************************************************************)
(* $size: the sum that the loop keeps.                                     *)
(***************************************************************************)
\* The items of the value v at place i of a path.
ItemsOf(i, v) ==
  CASE v.type = "array" -> {<<i, k>> : k \in DOMAIN v.items}
    [] v.type = "null"  -> {}
    [] OTHER            -> {<<i, 0>>}

\* The items of the first n of some values.
ItemsBefore(vs, n) == UNION {ItemsOf(i, vs[i]) : i \in 1 .. n}

\* The loop of $size never finds, and its sum counts what it has seen.
CountOK ==
  op.code = "size" =>
    /\ at = "start" => length = 0
    /\ at = "loop" =>
         /\ ~found
         /\ IsFiniteSet(ItemsBefore(doc.spread, checked))
         /\ length = Cardinality(ItemsBefore(doc.spread, checked))

CountInv == Inv /\ CountOK /\ SizeCountsAll

\* The function that _mongoc_matcher_op_size_get_iter_len counts the items of a value with.
LEMMA IterLenCounts ==
  ASSUME NEW v \in Value, NEW i
  PROVE  /\ IsFiniteSet(ItemsOf(i, v))
         /\ Cardinality(ItemsOf(i, v)) = IterLen(v)
<1>1. CASE v.type = "array"
  <2> DEFINE n == Len(v.items)
             K == 1 .. n
             I == {<<i, k>> : k \in K}
             f == [k \in K |-> <<i, k>>]
  <2>1. n \in Nat /\ DOMAIN v.items = K
    BY <1>1, ValueAssumption
  <2>2. ItemsOf(i, v) = I /\ IterLen(v) = n
    BY <1>1, <2>1 DEF ItemsOf, IterLen
  <2>3. IsFiniteSet(K) /\ Cardinality(K) = n
    BY <2>1, FS_Interval, 1 \in Int
  <2>4. f \in Bijection(K, I)
    <3>1. f \in [K -> I] /\ \A a, b \in K : f[a] = f[b] => a = b
      OBVIOUS
    <3>2. \A t \in I : \E k \in K : f[k] = t
      OBVIOUS
    <3> HIDE DEF K, I, f
    <3> QED
      BY <3>1, <3>2, Fun_IsBij
  <2>5. ExistsBijection(K, I)
    BY <2>4 DEF ExistsBijection
  <2> HIDE DEF n, K, I, f
  <2>6. IsFiniteSet(I) /\ Cardinality(I) = Cardinality(K)
    BY <2>3, <2>5, FS_Bijection
  <2> QED
    BY <2>2, <2>3, <2>6
<1>2. CASE v.type = "null"
  <2>1. ItemsOf(i, v) = {} /\ IterLen(v) = 0
    BY <1>2 DEF ItemsOf, IterLen
  <2> QED
    BY <2>1, FS_EmptySet
<1>3. CASE v.type # "array" /\ v.type # "null"
  <2>1. ItemsOf(i, v) = {<<i, 0>>} /\ IterLen(v) = 1
    BY <1>3 DEF ItemsOf, IterLen
  <2> QED
    BY <2>1, FS_Singleton
<1> QED
  BY <1>1, <1>2, <1>3

\* Every item of a value is at its place.
LEMMA ItemsPlace ==
  ASSUME NEW i, NEW v, NEW x \in ItemsOf(i, v)
  PROVE  x[1] = i
  BY DEF ItemsOf

\* One value more adds its items to those of the values before it.
LEMMA ItemsAdd ==
  ASSUME NEW vs \in Seq(Value), NEW n \in Nat, n < Len(vs),
         IsFiniteSet(ItemsBefore(vs, n))
  PROVE  /\ IsFiniteSet(ItemsBefore(vs, n + 1))
         /\ Cardinality(ItemsBefore(vs, n + 1)) =
              Cardinality(ItemsBefore(vs, n)) + IterLen(vs[n + 1])
<1> DEFINE S == ItemsBefore(vs, n)
           T == ItemsOf(n + 1, vs[n + 1])
<1>1. vs[n + 1] \in Value
  OBVIOUS
<1>2. IsFiniteSet(T) /\ Cardinality(T) = IterLen(vs[n + 1])
  BY <1>1, IterLenCounts
<1>3. ItemsBefore(vs, n + 1) = S \cup T
  <2>1. 1 .. n + 1 = (1 .. n) \cup {n + 1}
    OBVIOUS
  <2> QED
    BY <2>1 DEF ItemsBefore
<1>4. S \cap T = {}
  <2> SUFFICES ASSUME NEW x \in S, x \in T PROVE FALSE
    OBVIOUS
  <2>1. PICK j \in 1 .. n : x \in ItemsOf(j, vs[j])
    BY DEF ItemsBefore
  <2>2. x[1] = j
    BY <2>1, ItemsPlace
  <2>3. x[1] = n + 1
    BY ItemsPlace
  <2> QED
    BY <2>2, <2>3
<1>5. IsFiniteSet(S)
  OBVIOUS
<1>6. Cardinality(S) \in Nat /\ Cardinality(T) \in Nat
  BY <1>2, <1>5, FS_CardinalityType
<1> HIDE DEF S, T
<1>7. /\ IsFiniteSet(S \cup T)
      /\ Cardinality(S \cup T) = Cardinality(S) + Cardinality(T) - Cardinality({})
  BY <1>2, <1>4, <1>5, FS_Union
<1>8. Cardinality(S \cup T) = Cardinality(S) + Cardinality(T)
  BY <1>6, <1>7, FS_EmptySet
<1> QED
  BY <1>2, <1>3, <1>7, <1>8 DEF S

\* The items of the property are those of the first Len(Values) values.
LEMMA ItemsAre ==
  ASSUME NEW vs \in Seq(Value), Values = vs
  PROVE  Items = ItemsBefore(vs, Len(vs))
<1>1. DOMAIN Values = 1 .. Len(vs)
  OBVIOUS
<1>2. \A i \in DOMAIN Values : ItemsAt(i) = ItemsOf(i, vs[i])
  BY DEF ItemsAt, ItemsOf
<1> QED
  BY <1>1, <1>2 DEF Items, ItemsBefore

\* A match begins with the sum at zero.
LEMMA InitCount == Init => CountInv
  BY InitInv DEF Init, CountInv, CountOK, SizeCountsAll

\* Every step of the match keeps the sum.
LEMMA NextCount == CountInv /\ [Next]_vars => CountInv'
<1> SUFFICES ASSUME CountInv, [Next]_vars PROVE CountOK' /\ SizeCountsAll'
  BY NextInv DEF CountInv
<1>d. doc.direct \in Value \cup {None} /\ doc.spread \in Seq(Value) /\ Len(doc.spread) \in Nat
  BY DocType DEF CountInv, Inv, Placed
<1>1. CASE MatchDirect
  <2>1. ASSUME op.code = "size"
        PROVE  result' = LengthMatch(op.spec, Cardinality(Items'))
    <3> DEFINE vs == <<doc.direct>>
    <3>1. doc.direct \in Value /\ vs \in Seq(Value) /\ Len(vs) = 1
      BY <1>1, <1>d DEF MatchDirect
    <3>2. result' = LengthMatch(op.spec, IterLen(doc.direct))
      BY <1>1, <2>1 DEF MatchDirect
    <3>3. Items' = ItemsOf(1, doc.direct)
      <4>1. Values' = vs
        BY <1>1 DEF MatchDirect, Values
      <4>2. DOMAIN Values' = {1}
        BY <4>1
      <4>3. Values'[1] = doc.direct
        BY <4>1
      <4> QED
        BY <4>2, <4>3 DEF Items, ItemsAt, ItemsOf
    <3> QED
      BY <3>1, <3>2, <3>3, IterLenCounts
  <2> QED
    BY <1>1, <2>1 DEF MatchDirect, CountOK, SizeCountsAll
<1>2. CASE MatchMissing
  <2>1. Items' = {}
    BY <1>2 DEF MatchMissing, Items, Values
  <2> QED
    BY <1>2, <2>1, FS_EmptySet DEF MatchMissing, CountOK, SizeCountsAll
<1>3. CASE EnterLoop
  <2>1. op.code = "size" => ~found /\ length = 0 /\ checked = 0
    BY <1>3 DEF EnterLoop, CountInv, CountOK, Inv, LoopOK
  <2>2. ItemsBefore(doc.spread, 0) = {}
    BY DEF ItemsBefore
  <2> QED
    BY <1>3, <2>1, <2>2, FS_EmptySet DEF EnterLoop, CountOK, SizeCountsAll
<1>4. CASE NextValue
  <2>1. ASSUME op.code = "size"
        PROVE  /\ ~found'
               /\ IsFiniteSet(ItemsBefore(doc.spread, checked'))
               /\ length' = Cardinality(ItemsBefore(doc.spread, checked'))
    <3>1. ~found'
      BY <1>4, <2>1 DEF NextValue, Satisfies, Compare
    <3>2. checked \in Nat /\ checked < Len(doc.spread) /\ checked' = checked + 1
      BY <1>4, <1>d DEF NextValue, CountInv, Inv, Placed
    <3>3. length' = length + IterLen(doc.spread[checked + 1])
      BY <1>4, <2>1 DEF NextValue, Counted
    <3>4. /\ IsFiniteSet(ItemsBefore(doc.spread, checked))
          /\ length = Cardinality(ItemsBefore(doc.spread, checked))
      BY <1>4, <2>1 DEF NextValue, CountInv, CountOK
    <3> QED
      BY <1>d, <3>1, <3>2, <3>3, <3>4, ItemsAdd
  <2> QED
    BY <1>4, <2>1 DEF NextValue, CountOK, SizeCountsAll
<1>5. CASE EndLoop
  <2>1. ASSUME op.code = "size"
        PROVE  result' = LengthMatch(op.spec, Cardinality(Items'))
    <3>1. /\ length = Cardinality(ItemsBefore(doc.spread, checked))
          /\ checked = Len(doc.spread)
      BY <1>5, <2>1 DEF EndLoop, CountInv, CountOK
    <3>2. result' = LengthMatch(op.spec, length)
      BY <1>5, <2>1 DEF EndLoop
    <3>3. Values = doc.spread
      BY <1>5 DEF EndLoop, Values, CountInv, Inv, LoopOK
    <3>4. Items = ItemsBefore(doc.spread, Len(doc.spread))
      BY <1>d, <3>3, ItemsAre
    <3>5. Items' = Items
      BY <1>5 DEF EndLoop, Items, ItemsAt, Values
    <3> QED
      BY <3>1, <3>2, <3>4, <3>5
  <2> QED
    BY <1>5, <2>1 DEF EndLoop, CountOK, SizeCountsAll
<1>6. CASE Stay \/ UNCHANGED vars
  <2>1. UNCHANGED vars
    BY <1>6 DEF Stay
  <2>2. Items' = Items
    BY <2>1 DEF vars, Items, ItemsAt, Values
  <2>3. CountOK'
    BY <2>1 DEF vars, CountInv, CountOK
  <2> QED
    BY <2>1, <2>2, <2>3 DEF vars, CountInv, SizeCountsAll
<1> QED
  BY <1>1, <1>2, <1>3, <1>4, <1>5, <1>6 DEF Next

\* $size answers for the number of items on the path all together, however many
\* values the path leads to: _mongoc_matcher_op_size_match counts each once.
THEOREM SizeCountsEveryItem == Spec => []SizeCountsAll
<1>1. CountInv => SizeCountsAll
  BY DEF CountInv
<1> QED
  BY <1>1, InitCount, NextCount, PTL DEF Spec
-----------------------------------------------------------------------------
(***************************************************************************)
(* The recursive tables over nested arrays, unfolded once.                 *)
(***************************************************************************)
Pairs == Value \X Value

\* The elements of an array are values, and less deep than it.
LEMMA ItemsType ==
  ASSUME NEW v \in Value, v.type = "array"
  PROVE  /\ Len(v.items) \in Nat
         /\ DOMAIN v.items = 1 .. Len(v.items)
         /\ \A i \in DOMAIN v.items :
              v.items[i] \in Value /\ ValueDepth[v.items[i]] < ValueDepth[v]
<1>1. v.items \in Seq(Value)
  BY ValueAssumption
<1> QED
  BY <1>1, DepthAssumption

\* What a value has if the less deep ones have it, all values have.
LEMMA ValueInduction ==
  ASSUME NEW P, P \subseteq Value,
         \A r \in Value : (\A k \in Value : ValueDepth[k] < ValueDepth[r] => k \in P) => r \in P
  PROVE  P = Value
<1>1. ValueDepth \in [Value -> Nat]
  BY DepthAssumption
<1> QED
  BY <1>1, Shallowest

\* A pair is as deep as its value in the document.
PairDepth == [p \in Pairs |-> ValueDepth[p[2]]]

\* The depth of a pair is a number.
LEMMA PairDepthType == PairDepth \in [Pairs -> Nat]
  BY DepthAssumption DEF PairDepth, Pairs

\* What f and g say alike of the pairs less deep than p.
Alike(p, f, g) == \A k \in Pairs : PairDepth[k] < PairDepth[p] => f[k] = g[k]

\* The pairs of l, or of an element of l, with an element of r are less deep.
LEMMA ItemPairs ==
  ASSUME NEW l \in Value, NEW r \in Value, r.type = "array", NEW i \in DOMAIN r.items
  PROVE  /\ <<l, r.items[i]>> \in Pairs
         /\ PairDepth[<<l, r.items[i]>>] < PairDepth[<<l, r>>]
         /\ l.type = "array" /\ Len(l.items) = Len(r.items) =>
              /\ <<l.items[i], r.items[i]>> \in Pairs
              /\ PairDepth[<<l.items[i], r.items[i]>>] < PairDepth[<<l, r>>]
<1>1. r.items[i] \in Value /\ ValueDepth[r.items[i]] < ValueDepth[r]
  BY ItemsType
<1>2. l.type = "array" /\ Len(l.items) = Len(r.items) => l.items[i] \in Value
  BY ItemsType
<1> QED
  BY <1>1, <1>2 DEF Pairs, PairDepth

\* The equality of two values depends on that of less deep ones.
LEMMA EqLocal ==
  ASSUME NEW l \in Value, NEW r \in Value, NEW f, NEW g, Alike(<<l, r>>, f, g)
  PROVE  EqOf(l, r, f) = EqOf(l, r, g)
<1>1. ASSUME l.type = "array", r.type = "array", Len(l.items) = Len(r.items),
             NEW i \in DOMAIN l.items
      PROVE  f[<<l.items[i], r.items[i]>>] = g[<<l.items[i], r.items[i]>>]
  BY <1>1, ItemPairs, ItemsType DEF Alike
<1>2. ASSUME r.type = "array", NEW i \in DOMAIN r.items
      PROVE  f[<<l, r.items[i]>>] = g[<<l, r.items[i]>>]
  BY <1>2, ItemPairs DEF Alike
<1> QED
  BY <1>1, <1>2 DEF EqOf

\* Equality holds or not.
LEMMA EqType ==
  ASSUME NEW l, NEW r, NEW f
  PROVE  EqOf(l, r, f) \in BOOLEAN
  BY DEF EqOf

\* Eq is what its definition says.
LEMMA EqIs ==
  \A l, r \in Value : Eq[<<l, r>>] \in BOOLEAN /\ Eq[<<l, r>>] = EqOf(l, r, Eq)
<1> DEFINE B == [p \in Pairs |-> [f \in [Pairs -> BOOLEAN] |-> EqOf(p[1], p[2], f)]]
<1>1. \A p \in Pairs : p[1] \in Value /\ p[2] \in Value /\ p = <<p[1], p[2]>>
  BY DEF Pairs
<1>2. B \in [Pairs -> [[Pairs -> BOOLEAN] -> BOOLEAN]]
  BY <1>1, EqType
<1>3. ASSUME NEW p \in Pairs, NEW f \in [Pairs -> BOOLEAN], NEW g \in [Pairs -> BOOLEAN],
             Alike(p, f, g)
      PROVE  B[p][f] = B[p][g]
  BY <1>1, <1>3, EqLocal
<1>4. PICK f \in [Pairs -> BOOLEAN] : \A p \in Pairs : f[p] = B[p][f]
  <2> HIDE DEF B
  <2>1. Deciding(Pairs, PairDepth, B)
    BY <1>2, <1>3, PairDepthType DEF Deciding, Alike
  <2> QED
    BY <2>1, PredicateExists
<1>5. f = [p \in Value \X Value |-> EqOf(p[1], p[2], f)]
  BY <1>4 DEF Pairs
<1>6. Eq = [p \in Value \X Value |-> EqOf(p[1], p[2], Eq)]
  BY <1>5 DEF Eq
<1>7. Eq \in [Pairs -> BOOLEAN]
  BY <1>6, EqType DEF Pairs
<1> QED
  BY <1>6, <1>7 DEF Pairs

\* A comparison by a code, and its depth.
Triples == Ordering \X Value \X Value
TripleDepth == [t \in Triples |-> ValueDepth[t[3]]]

\* Ordered is what its definition says.
LEMMA OrderedIs ==
  \A code \in Ordering, l, r \in Value :
    /\ Ordered[<<code, l, r>>] \in BOOLEAN
    /\ Ordered[<<code, l, r>>] = OrderedOf(code, l, r, Ordered)
<1> DEFINE B == [t \in Triples |-> [f \in [Triples -> BOOLEAN] |-> OrderedOf(t[1], t[2], t[3], f)]]
<1>1. \A t \in Triples : t[1] \in Ordering /\ t[2] \in Value /\ t[3] \in Value
                           /\ t = <<t[1], t[2], t[3]>>
  BY DEF Triples
<1>2. ASSUME NEW code, NEW l, NEW r, NEW f
      PROVE  OrderedOf(code, l, r, f) \in BOOLEAN
  BY DEF OrderedOf
<1>3. B \in [Triples -> [[Triples -> BOOLEAN] -> BOOLEAN]]
  BY <1>2
<1>4. ASSUME NEW t \in Triples, NEW f \in [Triples -> BOOLEAN], NEW g \in [Triples -> BOOLEAN],
             \A k \in Triples : TripleDepth[k] < TripleDepth[t] => f[k] = g[k]
      PROVE  B[t][f] = B[t][g]
  <2> DEFINE code == t[1]
             l == t[2]
             r == t[3]
  <2>1. code \in Ordering /\ l \in Value /\ r \in Value /\ t = <<code, l, r>>
    BY <1>1
  <2> HIDE DEF code, l, r
  <2>2. ASSUME r.type = "array", NEW i \in DOMAIN r.items
        PROVE  f[<<code, l, r.items[i]>>] = g[<<code, l, r.items[i]>>]
    <3>1. r.items[i] \in Value /\ ValueDepth[r.items[i]] < ValueDepth[r]
      BY <2>1, <2>2, ItemsType
    <3>2. <<code, l, r.items[i]>> \in Triples
      BY <2>1, <3>1 DEF Triples
    <3>3. TripleDepth[<<code, l, r.items[i]>>] < TripleDepth[t]
      BY <2>1, <3>1, <3>2 DEF TripleDepth
    <3> QED
      BY <1>4, <3>2, <3>3
  <2>3. OrderedOf(code, l, r, f) = OrderedOf(code, l, r, g)
    BY <2>2 DEF OrderedOf
  <2> QED
    BY <2>3 DEF code, l, r
<1>5. TripleDepth \in [Triples -> Nat]
  BY <1>1, DepthAssumption DEF TripleDepth
<1>6. PICK f \in [Triples -> BOOLEAN] : \A t \in Triples : f[t] = B[t][f]
  <2> HIDE DEF B
  <2>1. Deciding(Triples, TripleDepth, B)
    BY <1>3, <1>4, <1>5 DEF Deciding
  <2> QED
    BY <2>1, PredicateExists
<1>7. f = [t \in Ordering \X Value \X Value |-> OrderedOf(t[1], t[2], t[3], f)]
  BY <1>6 DEF Triples
<1>8. Ordered = [t \in Ordering \X Value \X Value |-> OrderedOf(t[1], t[2], t[3], Ordered)]
  BY <1>7 DEF Ordered
<1> QED
  BY <1>2, <1>8

\* InSet is what its definition says.
LEMMA InSetIs ==
  \A l, r \in Value : InSet[<<l, r>>] \in BOOLEAN /\ InSet[<<l, r>>] = InSetOf(l, r, InSet)
<1> DEFINE B == [p \in Pairs |-> [f \in [Pairs -> BOOLEAN] |-> InSetOf(p[1], p[2], f)]]
<1>1. \A p \in Pairs : p[1] \in Value /\ p[2] \in Value /\ p = <<p[1], p[2]>>
  BY DEF Pairs
<1>2. ASSUME NEW l, NEW r, NEW f
      PROVE  InSetOf(l, r, f) \in BOOLEAN
  BY DEF InSetOf
<1>3. B \in [Pairs -> [[Pairs -> BOOLEAN] -> BOOLEAN]]
  BY <1>2
<1>4. ASSUME NEW p \in Pairs, NEW f \in [Pairs -> BOOLEAN], NEW g \in [Pairs -> BOOLEAN],
             Alike(p, f, g)
      PROVE  B[p][f] = B[p][g]
  <2> DEFINE l == p[1]
             r == p[2]
  <2>1. l \in Value /\ r \in Value /\ p = <<l, r>>
    BY <1>1
  <2> HIDE DEF l, r
  <2>2. ASSUME r.type = "array", NEW i \in DOMAIN r.items
        PROVE  f[<<l, r.items[i]>>] = g[<<l, r.items[i]>>]
    BY <1>4, <2>1, <2>2, ItemPairs DEF Alike
  <2>3. InSetOf(l, r, f) = InSetOf(l, r, g)
    BY <2>2 DEF InSetOf
  <2> QED
    BY <2>3 DEF l, r
<1>5. PICK f \in [Pairs -> BOOLEAN] : \A p \in Pairs : f[p] = B[p][f]
  <2> HIDE DEF B
  <2>1. Deciding(Pairs, PairDepth, B)
    BY <1>3, <1>4, PairDepthType DEF Deciding, Alike
  <2> QED
    BY <2>1, PredicateExists
<1>6. f = [p \in Value \X Value |-> InSetOf(p[1], p[2], f)]
  BY <1>5 DEF Pairs
<1>7. InSet = [p \in Value \X Value |-> InSetOf(p[1], p[2], InSet)]
  BY <1>6 DEF InSet
<1> QED
  BY <1>2, <1>7
-----------------------------------------------------------------------------
(***************************************************************************)
(* The tables agree.                                                       *)
(***************************************************************************)
\* A number is compared as an integer, rounded or not.
LEMMA SeenType ==
  ASSUME NEW v \in Value, NEW w, v.type \in Number \cup {"bool"}, v.n # NaN
  PROVE  SeenBeside(v, w) \in Int
<1>1. v.n \in Int
  BY NumberAssumption
<1>2. \A n \in Int : AsDouble(n) \in Int
  BY NumberAssumption DEF AsDouble
<1> QED
  BY <1>1, <1>2 DEF SeenBeside

\* Two numbers are compared alike by all the tables.
LEMMA NativeAgree ==
  ASSUME NEW l \in Value, NEW r \in Value,
         l.type \in Number, r.type \in Number \cup {"bool"}
  PROVE  /\ Native("gte", l, r) <=> Native("gt", l, r) \/ Native("eq", l, r)
         /\ Native("lte", l, r) <=> Native("lt", l, r) \/ Native("eq", l, r)
         /\ l.n # NaN /\ r.n # NaN =>
              /\ Native("gt", l, r) <=> ~Native("lt", l, r) /\ ~Native("eq", l, r)
              /\ Native("lt", l, r) <=> ~Native("gt", l, r) /\ ~Native("eq", l, r)
              /\ Native("eq", l, r) <=> ~Native("gt", l, r) /\ ~Native("lt", l, r)
<1>1. CASE l.n = NaN \/ r.n = NaN
  BY <1>1 DEF Native
<1>2. CASE l.n # NaN /\ r.n # NaN
  <2> DEFINE a == SeenBeside(r, l)
             b == SeenBeside(l, r)
  <2>1. a \in Int /\ b \in Int
    BY <1>2, SeenType
  <2>2. \A code : Native(code, l, r) <=> Rel(code, a, b)
    BY <1>2 DEF Native
  <2> HIDE DEF a, b
  <2>3. /\ Rel("eq", a, b) <=> a = b
        /\ Rel("gt", a, b) <=> a > b
        /\ Rel("gte", a, b) <=> a >= b
        /\ Rel("lt", a, b) <=> a < b
        /\ Rel("lte", a, b) <=> a <= b
    BY DEF Rel
  <2>4. /\ Native("eq", l, r) <=> a = b
        /\ Native("gt", l, r) <=> a > b
        /\ Native("gte", l, r) <=> a >= b
        /\ Native("lt", l, r) <=> a < b
        /\ Native("lte", l, r) <=> a <= b
    BY <2>2, <2>3, Zenon
  <2> QED
    BY <2>1, <2>4
<1> QED
  BY <1>1, <1>2

\* l is compared with r by $gte as by $gt or for equality, and by $lte as by $lt or so.
OrEqualFor(l, r) ==
  /\ Gte(l, r) <=> Gt(l, r) \/ Eq[<<l, r>>]
  /\ Lte(l, r) <=> Lt(l, r) \/ Eq[<<l, r>>]

\* $gte is $gt or equal, $lte is $lt or equal, whatever the other value holds.
LEMMA OrderingsAgree ==
  ASSUME NEW l \in Value, l.type \in Number \cup {"oid"}
  PROVE  \A r \in Value : OrEqualFor(l, r)
<1> DEFINE P == {r \in Value : OrEqualFor(l, r)}
<1>1. ASSUME NEW r \in Value, \A k \in Value : ValueDepth[k] < ValueDepth[r] => k \in P
      PROVE  r \in P
  <2>1. \A code \in Ordering : Ordered[<<code, l, r>>] = OrderedOf(code, l, r, Ordered)
    BY OrderedIs
  <2>2. Eq[<<l, r>>] = EqOf(l, r, Eq)
    BY EqIs
  <2>3. CASE r.type = "array"
    <3>1. \A i \in DOMAIN r.items : r.items[i] \in P
      BY <1>1, <2>3, ItemsType
    <3>2. \A code \in Ordering :
            OrderedOf(code, l, r, Ordered) <=> \E i \in DOMAIN r.items : Ordered[<<code, l, r.items[i]>>]
      BY <2>3 DEF OrderedOf, Numeric, Number
    <3>3. EqOf(l, r, Eq) <=> \E i \in DOMAIN r.items : Eq[<<l, r.items[i]>>]
      BY <2>3 DEF EqOf, Numeric, Number, AnyElement
    <3>4. \A code \in Ordering :
            Ordered[<<code, l, r>>] <=> \E i \in DOMAIN r.items : Ordered[<<code, l, r.items[i]>>]
      BY <2>1, <3>2
    <3>5. /\ Gte(l, r) <=> \E i \in DOMAIN r.items : Gte(l, r.items[i])
          /\ Gt(l, r) <=> \E i \in DOMAIN r.items : Gt(l, r.items[i])
          /\ Lte(l, r) <=> \E i \in DOMAIN r.items : Lte(l, r.items[i])
          /\ Lt(l, r) <=> \E i \in DOMAIN r.items : Lt(l, r.items[i])
      BY <3>4 DEF Ordering, Gt, Gte, Lt, Lte
    <3>6. \A i \in DOMAIN r.items : OrEqualFor(l, r.items[i])
      BY <3>1
    <3>7. OrEqualFor(l, r)
      BY <2>2, <3>3, <3>5, <3>6, Zenon DEF OrEqualFor
    <3> QED
      BY <3>7
  <2>4. CASE l.type \in Number /\ r.type \in Number \cup {"bool"}
    <3>1. \A code \in Ordering : OrderedOf(code, l, r, Ordered) <=> Native(code, l, r)
      BY <2>4 DEF OrderedOf, Numeric, Number
    <3>2. EqOf(l, r, Eq) <=> Native("eq", l, r)
      BY <2>4 DEF EqOf, Numeric, Number
    <3> QED
      BY <2>1, <2>2, <2>4, <3>1, <3>2, NativeAgree DEF Ordering, Gt, Gte, Lt, Lte, OrEqualFor
  <2>5. CASE l.type = "oid" /\ r.type = "oid"
    <3>1. l.n \in Int /\ r.n \in Int
      BY <2>5, NumberAssumption DEF Number
    <3>2. \A code \in Ordering : OrderedOf(code, l, r, Ordered) <=> Rel(code, r.n, l.n)
      BY <2>5 DEF OrderedOf, Numeric, Number
    <3>3. EqOf(l, r, Eq) <=> l.n = r.n
      BY <2>5 DEF EqOf, Numeric, Number
    <3> QED
      BY <2>1, <2>2, <3>1, <3>2, <3>3 DEF Ordering, Gt, Gte, Lt, Lte, Rel, OrEqualFor
  <2>6. CASE /\ r.type # "array"
             /\ ~(l.type \in Number /\ r.type \in Number \cup {"bool"})
             /\ ~(l.type = "oid" /\ r.type = "oid")
    <3>1. \A code \in Ordering : ~OrderedOf(code, l, r, Ordered)
      BY <2>6 DEF OrderedOf, Numeric, Number
    <3>2. ~EqOf(l, r, Eq)
      BY <2>6 DEF EqOf, Numeric, Number
    <3> QED
      BY <2>1, <2>2, <3>1, <3>2 DEF Ordering, Gt, Gte, Lt, Lte, OrEqualFor
  <2> QED
    BY <2>3, <2>4, <2>5, <2>6
<1>2. P = Value
  <2>1. P \subseteq Value
    OBVIOUS
  <2> HIDE DEF P
  <2> QED
    BY <1>1, <2>1, ValueInduction
<1> QED
  BY <1>2

\* A 32-bit integer is compared with anything as the 64-bit one is.
LEMMA WidthsAgree ==
  ASSUME NEW l \in Value, NEW w \in Value, l.type = "int32", w.type = "int64", w.n = l.n
  PROVE  \A r \in Value :
           /\ Eq[<<l, r>>] = Eq[<<w, r>>]
           /\ \A code \in Ordering : Ordered[<<code, l, r>>] = Ordered[<<code, w, r>>]
<1> DEFINE P == {r \in Value :
                   /\ Eq[<<l, r>>] = Eq[<<w, r>>]
                   /\ \A code \in Ordering : Ordered[<<code, l, r>>] = Ordered[<<code, w, r>>]}
<1>1. ASSUME NEW r \in Value, \A k \in Value : ValueDepth[k] < ValueDepth[r] => k \in P
      PROVE  r \in P
  <2>1. \A v \in {l, w} :
          /\ Eq[<<v, r>>] = EqOf(v, r, Eq)
          /\ \A code \in Ordering : Ordered[<<code, v, r>>] = OrderedOf(code, v, r, Ordered)
    BY EqIs, OrderedIs
  <2>2. \A code : Native(code, l, r) = Native(code, w, r)
    <3>1. SeenBeside(l, r) = SeenBeside(w, r) /\ SeenBeside(r, l) = SeenBeside(r, w)
      BY DEF SeenBeside
    <3> QED
      BY <3>1 DEF Native
  <2>3. r.type = "array" => \A i \in DOMAIN r.items : r.items[i] \in P
    BY <1>1, ItemsType
  <2>4. EqOf(l, r, Eq) = EqOf(w, r, Eq)
    BY <2>2, <2>3 DEF EqOf, Numeric, Number, AnyElement
  <2>5. \A code \in Ordering : OrderedOf(code, l, r, Ordered) = OrderedOf(code, w, r, Ordered)
    BY <2>2, <2>3 DEF OrderedOf, Numeric, Number
  <2> QED
    BY <2>1, <2>4, <2>5
<1>2. P = Value
  <2>1. P \subseteq Value
    OBVIOUS
  <2> HIDE DEF P
  <2> QED
    BY <1>1, <2>1, ValueInduction
<1> QED
  BY <1>2

\* Whole is what its definition says.
LEMMA WholeIs == \A v \in Value : Whole[v] = WholeOf(v, Whole)
<1> DEFINE B == [v \in Value |-> [f \in [Value -> BOOLEAN] |-> WholeOf(v, f)]]
<1>1. ASSUME NEW v, NEW f
      PROVE  WholeOf(v, f) \in BOOLEAN
  BY DEF WholeOf
<1>2. B \in [Value -> [[Value -> BOOLEAN] -> BOOLEAN]]
  BY <1>1
<1>3. ASSUME NEW v \in Value, NEW f \in [Value -> BOOLEAN], NEW g \in [Value -> BOOLEAN],
             \A k \in Value : ValueDepth[k] < ValueDepth[v] => f[k] = g[k]
      PROVE  B[v][f] = B[v][g]
  <2>1. ASSUME v.type = "array", NEW i \in DOMAIN v.items
        PROVE  f[v.items[i]] = g[v.items[i]]
    BY <1>3, <2>1, ItemsType
  <2>2. WholeOf(v, f) = WholeOf(v, g)
    BY <2>1 DEF WholeOf
  <2> QED
    BY <2>2
<1>4. PICK f \in [Value -> BOOLEAN] : \A v \in Value : f[v] = B[v][f]
  <2> HIDE DEF B
  <2>1. Deciding(Value, ValueDepth, B)
    BY <1>2, <1>3, DepthAssumption DEF Deciding
  <2> QED
    BY <2>1, PredicateExists
<1>5. f = [v \in Value |-> WholeOf(v, f)]
  BY <1>4
<1>6. Whole = [v \in Value |-> WholeOf(v, Whole)]
  BY <1>5 DEF Whole
<1> QED
  BY <1>6

\* A list of strings.
Texts(l) == l.type = "array" /\ \A e \in Elements(l) : e.type = "text"

\* The keys of a list of strings are what is left of them when they are cut.
LEMMA KeysOfTexts ==
  ASSUME NEW l \in Value, Texts(l)
  PROVE  \A c : c \in Keys(l) <=> \E e \in Elements(l) : e.cut = c
  BY DEF Texts, Keys

\* Where a string is compared with an array, it is with the elements.
LEMMA InOfArray ==
  ASSUME NEW l \in Value, Texts(l), NEW r \in Value, r.type = "array"
  PROVE  In(l, r) <=> \E i \in DOMAIN r.items : In(l, r.items[i])
<1>1. \A e \in Elements(l) : e \in Value /\ e.type = "text"
  BY ItemsType DEF Elements, Texts
<1>2. \A e \in Elements(l) : Eq[<<e, r>>] = EqOf(e, r, Eq)
  BY <1>1, EqIs
<1>3. \A e \in Elements(l) : EqOf(e, r, Eq) <=> \E i \in DOMAIN r.items : Eq[<<e, r.items[i]>>]
  BY <1>1 DEF EqOf, Numeric, Number, AnyElement
<1> QED
  BY <1>2, <1>3 DEF In

\* Where it is compared with a string, by all of their bytes; nothing else equals it.
LEMMA InOfOther ==
  ASSUME NEW l \in Value, Texts(l), NEW r \in Value, r.type # "array"
  PROVE  In(l, r) <=> r.type = "text" /\ \E e \in Elements(l) : e.n = r.n
<1>1. \A e \in Elements(l) : e \in Value /\ e.type = "text"
  BY ItemsType DEF Elements, Texts
<1>2. \A e \in Elements(l) : Eq[<<e, r>>] = EqOf(e, r, Eq)
  BY <1>1, EqIs
<1>3. \A e \in Elements(l) : EqOf(e, r, Eq) <=> r.type = "text" /\ e.n = r.n
  BY <1>1 DEF EqOf, Numeric, Number
<1> QED
  BY <1>2, <1>3 DEF In

\* A string that is in the list is found by its key.
LEMMA InsetMisses ==
  ASSUME NEW l \in Value, Texts(l)
  PROVE  \A r \in Value : In(l, r) => InSet[<<l, r>>]
<1> DEFINE P == {r \in Value : In(l, r) => InSet[<<l, r>>]}
<1>1. ASSUME NEW r \in Value, \A k \in Value : ValueDepth[k] < ValueDepth[r] => k \in P
      PROVE  r \in P
  <2>1. InSet[<<l, r>>] = InSetOf(l, r, InSet)
    BY InSetIs
  <2>2. CASE r.type = "array"
    <3>1. \A i \in DOMAIN r.items : r.items[i] \in P
      BY <1>1, <2>2, ItemsType
    <3>2. InSetOf(l, r, InSet) <=> \E i \in DOMAIN r.items : InSet[<<l, r.items[i]>>]
      BY <2>2 DEF InSetOf
    <3> QED
      BY <2>1, <2>2, <3>1, <3>2, InOfArray
  <2>3. CASE r.type # "array"
    <3>1. ASSUME NEW e \in Elements(l), r.type = "text", e.n = r.n
          PROVE  e.cut = r.cut
      <4>1. e \in Value /\ e.type = "text"
        BY ItemsType DEF Elements, Texts
      <4> QED
        BY <3>1, <4>1, TextAssumption
    <3>2. r.type = "text" /\ r.cut \in Keys(l) => InSetOf(l, r, InSet)
      BY DEF InSetOf
    <3> QED
      BY <2>1, <2>3, <3>1, <3>2, InOfOther, KeysOfTexts
  <2> QED
    BY <2>2, <2>3
<1>2. P = Value
  <2>1. P \subseteq Value
    OBVIOUS
  <2> HIDE DEF P
  <2> QED
    BY <1>1, <2>1, ValueInduction
<1> QED
  BY <1>2

\* Without zero bytes, what has the key of a string of the list is that string.
LEMMA InsetAgrees ==
  ASSUME NEW l \in Value, Texts(l), Whole[l]
  PROVE  \A r \in Value : Whole[r] => (InSet[<<l, r>>] => In(l, r))
<1> DEFINE P == {r \in Value : Whole[r] => (InSet[<<l, r>>] => In(l, r))}
<1>1. \A e \in Elements(l) : e.cut = e.n
  <2>1. \A e \in Elements(l) : e \in Value /\ e.type = "text"
    BY ItemsType DEF Elements, Texts
  <2>2. \A e \in Elements(l) : Whole[e]
    <3>1. WholeOf(l, Whole) /\ l.type = "array"
      BY WholeIs DEF Texts
    <3>2. \A i \in DOMAIN l.items : Whole[l.items[i]]
      BY <3>1 DEF WholeOf
    <3> QED
      BY <3>1, <3>2 DEF Elements
  <2> QED
    BY <2>1, <2>2, WholeIs DEF WholeOf
<1>2. ASSUME NEW r \in Value, \A k \in Value : ValueDepth[k] < ValueDepth[r] => k \in P
      PROVE  r \in P
  <2>1. InSet[<<l, r>>] = InSetOf(l, r, InSet) /\ Whole[r] = WholeOf(r, Whole)
    BY InSetIs, WholeIs
  <2>2. CASE r.type = "array"
    <3>1. \A i \in DOMAIN r.items : r.items[i] \in P
      BY <1>2, <2>2, ItemsType
    <3>2. InSetOf(l, r, InSet) <=> \E i \in DOMAIN r.items : InSet[<<l, r.items[i]>>]
      BY <2>2 DEF InSetOf
    <3>3. WholeOf(r, Whole) => \A i \in DOMAIN r.items : Whole[r.items[i]]
      BY <2>2 DEF WholeOf
    <3> QED
      BY <2>1, <2>2, <3>1, <3>2, <3>3, InOfArray
  <2>3. CASE r.type # "array"
    <3>1. WholeOf(r, Whole) /\ r.type = "text" => r.cut = r.n
      BY DEF WholeOf
    <3>2. InSetOf(l, r, InSet) => r.type = "text" /\ r.cut \in Keys(l)
      BY <2>3 DEF InSetOf
    <3> QED
      BY <1>1, <2>1, <2>3, <3>1, <3>2, InOfOther, KeysOfTexts
  <2> QED
    BY <2>2, <2>3
<1>3. P = Value
  <2>1. P \subseteq Value
    OBVIOUS
  <2> HIDE DEF P
  <2> QED
    BY <1>2, <2>1, ValueInduction
<1> QED
  BY <1>3

\* The value of the query and those of the document are values; a comparison that
\* is done has answered for one of the latter.
LEMMA ComparisonDone ==
  ASSUME Inv, at = "done", op.code \in Compare
  PROVE  /\ op.spec \in Value
         /\ \A i \in DOMAIN Values : Values[i] \in Value
         /\ result <=> Some(op.code, op.spec)
<1>1. op \in Ops /\ op.spec \in Value
  BY OpsAssumption DEF Inv, Placed
<1>2. doc.direct \in Value \cup {None} /\ doc.spread \in Seq(Value)
  BY DocType DEF Inv, Placed
<1>3. Values \in Seq(Value)
  BY <1>2 DEF Values
<1>4. \A i \in DOMAIN Values : Satisfies(op, Values[i]) <=> CompareIter(op.code, op.spec, Values[i])
  BY DEF Satisfies, Compare
<1> QED
  BY <1>1, <1>3, <1>4 DEF Inv, AnyValueWill, Some

\* $gte and $lte answer as their strict forms and equality together.
LEMMA OrEqualHolds == Inv => OrEqual
<1> SUFFICES ASSUME Inv, at = "done", op.code \in {"gte", "lte"},
                    op.spec.type \in Number \cup {"oid"}
             PROVE  result <=> Some(IF op.code = "gte" THEN "gt" ELSE "lt", op.spec)
                                 \/ Some("eq", op.spec)
  BY DEF OrEqual
<1>1. /\ op.spec \in Value
      /\ \A i \in DOMAIN Values : Values[i] \in Value
      /\ result <=> Some(op.code, op.spec)
  BY ComparisonDone DEF Compare
<1>2. \A i \in DOMAIN Values : OrEqualFor(op.spec, Values[i])
  BY <1>1, OrderingsAgree
<1>3. CASE op.code = "gte"
  BY <1>1, <1>2, <1>3 DEF Some, CompareIter, OrEqualFor
<1>4. CASE op.code = "lte"
  BY <1>1, <1>2, <1>4 DEF Some, CompareIter, OrEqualFor
<1> QED
  BY <1>3, <1>4

\* Of two numbers, one relation holds.
LEMMA OneRelationHolds == Inv => OneRelation
<1> DEFINE v == doc.direct
<1> SUFFICES ASSUME Inv, at = "done", op.code \in {"gt", "lt", "eq"}, v # None,
                    op.spec.type \in Number, v.type \in Number \cup {"bool"},
                    op.spec.n # NaN, v.n # NaN
             PROVE  result <=> \A code \in {"gt", "lt", "eq"} \ {op.code} : ~Some(code, op.spec)
  BY DEF OneRelation
<1>1. op.spec \in Value /\ (result <=> Some(op.code, op.spec))
  BY ComparisonDone DEF Compare
<1>2. Values = <<v>> /\ v \in Value
  BY DocType DEF Values, Inv, Placed
<1>3. \A code : Some(code, op.spec) <=> CompareIter(code, op.spec, v)
  BY <1>2 DEF Some
<1>4. \A code \in Ordering : Ordered[<<code, op.spec, v>>] <=> Native(code, op.spec, v)
  BY <1>1, <1>2, OrderedIs DEF OrderedOf, Numeric, Number
<1>5. Eq[<<op.spec, v>>] <=> Native("eq", op.spec, v)
  BY <1>1, <1>2, EqIs DEF EqOf, Numeric, Number
<1>6. /\ Some("gt", op.spec) <=> Native("gt", op.spec, v)
      /\ Some("lt", op.spec) <=> Native("lt", op.spec, v)
      /\ Some("eq", op.spec) <=> Native("eq", op.spec, v)
  BY <1>3, <1>4, <1>5 DEF CompareIter, Gt, Lt, Ordering
<1> QED
  BY <1>1, <1>2, <1>6, NativeAgree

\* The width of an integer of the query does not show.
LEMMA WidthIgnoredHolds == Inv => WidthIgnored
<1> DEFINE w == Widened(op.spec)
<1> SUFFICES ASSUME Inv, at = "done", op.code \in Compare \ {"in", "nin", "inset"},
                    op.spec.type = "int32", w \in Value
             PROVE  result <=> Some(op.code, w)
  BY DEF WidthIgnored
<1>1. /\ op.spec \in Value
      /\ \A i \in DOMAIN Values : Values[i] \in Value
      /\ result <=> Some(op.code, op.spec)
  BY ComparisonDone
<1>2. w.type = "int64" /\ w.n = op.spec.n
  BY DEF Widened
<1> HIDE DEF w
<1>3. \A i \in DOMAIN Values :
        /\ Eq[<<op.spec, Values[i]>>] = Eq[<<w, Values[i]>>]
        /\ \A code \in Ordering :
             Ordered[<<code, op.spec, Values[i]>>] = Ordered[<<code, w, Values[i]>>]
  BY <1>1, <1>2, WidthsAgree
<1>4. \A i \in DOMAIN Values :
        CompareIter(op.code, op.spec, Values[i]) <=> CompareIter(op.code, w, Values[i])
  BY <1>3 DEF CompareIter, Compare, Ordering, Gt, Gte, Lt, Lte
<1> QED
  BY <1>1, <1>4 DEF Some

\* The tables of _mongoc_matcher_op_eq_match, _gt_match, _gte_match, _lt_match and
\* _lte_match agree row by row: for every pair of numbers, the rounding of an
\* integer to double included, and whatever arrays the values of the document nest in.
THEOREM ComparisonsAgree == Spec => []TablesAgree
<1>1. Inv => TablesAgree
  BY OrEqualHolds, OneRelationHolds, WidthIgnoredHolds DEF TablesAgree
<1> QED
  BY <1>1, InitInv, NextInv, PTL DEF Spec

\* For every list of strings and every value of a document, nested arrays included:
\* $inset holds wherever $in does, and where no string has a zero byte nowhere else.
\* _mongoc_matcher_op_inset_match goes where the rows of _mongoc_matcher_iter_eq_match
\* for a string go, and the cut of bson_strdup and HASH_FIND_STR loses no match.
THEOREM InsetAnswersLikeIn == Spec => []InsetIsIn
<1>1. ASSUME Inv PROVE InsetIsIn
  <2> SUFFICES ASSUME SetOfTexts
               PROVE  /\ Some("in", op.spec) => result
                      /\ Whole[op.spec] /\ (\A i \in DOMAIN Values : Whole[Values[i]]) =>
                           (result => Some("in", op.spec))
    BY DEF InsetIsIn
  <2>1. /\ op.spec \in Value
        /\ \A i \in DOMAIN Values : Values[i] \in Value
        /\ result <=> Some("inset", op.spec)
    BY <1>1, ComparisonDone DEF Compare, SetOfTexts
  <2>2. Texts(op.spec)
    BY DEF SetOfTexts, Texts
  <2>3. \A i \in DOMAIN Values : In(op.spec, Values[i]) => InSet[<<op.spec, Values[i]>>]
    BY <2>1, <2>2, InsetMisses
  <2>4. ASSUME Whole[op.spec], \A i \in DOMAIN Values : Whole[Values[i]]
        PROVE  \A i \in DOMAIN Values : InSet[<<op.spec, Values[i]>>] => In(op.spec, Values[i])
    BY <2>1, <2>2, <2>4, InsetAgrees
  <2> QED
    BY <2>1, <2>3, <2>4 DEF Some, CompareIter
<1> QED
  BY <1>1, InitInv, NextInv, PTL DEF Spec
=============================================================================
